---------------------------- MODULE BufferProofs ----------------------------
(***************************************************************************)
(* Proofs about Buffer.  When no array of a fragment fails to be allocated *)
(* the fragments are packed and hold the bytes of the stream in order, for *)
(* every capacity, every length and every alphabet; without a skip every   *)
(* call returns what a byte stream would.                                  *)
(*                                                                         *)
(* The argument is IInv of Buffer: Packed and Fifo say where the bytes of  *)
(* a fragment lie, Ordered carries that from neighbours to any two         *)
(* fragments (taking bytes from the front moves them all), CopyLoop says   *)
(* that copy_to has delivered the bytes before the fragment it is at.      *)
(*                                                                         *)
(* The last part makes no assumption on what fails.  Its argument is       *)
(* SafeInv: each fragment holds what the stream has from its place on      *)
(* (Holds, one lemma for each thing that happens to a fragment), the       *)
(* places are in order, and a fragment that has room ends where the stream *)
(* ends, so that what is appended to it lies in the right place.           *)
(***************************************************************************)
EXTENDS Buffer, SequenceTheorems, TLAPS

\* A piece of a sequence.
LEMMA Piece ==
  ASSUME NEW S, NEW s \in Seq(S), NEW a \in Nat, NEW b \in Nat, b <= Len(s)
  PROVE  /\ SubSeq(s, a + 1, b) \in Seq(S)
         /\ Len(SubSeq(s, a + 1, b)) = IF a <= b THEN b - a ELSE 0
         /\ \A j \in 1..Len(SubSeq(s, a + 1, b)) : SubSeq(s, a + 1, b)[j] = s[a + j]
<1>1. \A j \in (a + 1)..b : s[j] \in S
  BY LenProperties, ElementOfSeq
<1>2. /\ SubSeq(s, a + 1, b) \in Seq(S)
      /\ Len(SubSeq(s, a + 1, b)) = IF a + 1 <= b THEN b - (a + 1) + 1 ELSE 0
      /\ \A j \in 1..(b - (a + 1) + 1) : SubSeq(s, a + 1, b)[j] = s[a + 1 + j - 1]
  BY <1>1, SubSeqProperties
<1> QED
  BY <1>2

\* A place past the first b of those after a.
LEMMA Shift ==
  ASSUME NEW a \in Nat, NEW b \in Nat, NEW c \in Nat, NEW l \in Nat, a + b = c, l > b
  PROVE  ~(a + l <= c) /\ (a + l) - c = l - b
OBVIOUS

\* The fields of a fragment.
LEMMA FragmentFields ==
  ASSUME NEW f \in Fragment
  PROVE  /\ f.cap \in Nat /\ f.off \in Nat /\ f.data \in Seq(Byte) /\ Len(f.data) \in Nat
         /\ DOMAIN f.data = 1..Len(f.data)
BY LenProperties DEF Fragment

\* write puts the first bytes, as many as there is room for, after those it has.
LEMMA PutAppends ==
  ASSUME NEW f \in Fragment, NEW bytes \in Seq(Byte), GetFree(f) >= 0,
         NEW m \in Nat, m = Smaller(Len(bytes), GetFree(f))
  PROVE  /\ Put(f, bytes) \in Fragment
         /\ Put(f, bytes).cap = f.cap /\ Put(f, bytes).off = f.off
         /\ Len(Put(f, bytes).data) = Len(f.data) + m
         /\ \A j \in 1..(Len(f.data) + m) :
              Put(f, bytes).data[j] = IF j <= Len(f.data) THEN f.data[j] ELSE bytes[j - Len(f.data)]
<1> DEFINE s == SubSeq(bytes, 1, m)
<1>1. m <= Len(bytes)
  BY LenProperties, FragmentFields DEF Smaller, GetFree
<1>2. s \in Seq(Byte) /\ Len(s) = m /\ \A j \in 1..m : s[j] = bytes[j]
  <2>1. /\ SubSeq(bytes, 0 + 1, m) \in Seq(Byte)
        /\ Len(SubSeq(bytes, 0 + 1, m)) = m
        /\ \A j \in 1..m : SubSeq(bytes, 0 + 1, m)[j] = bytes[0 + j]
    BY <1>1, Piece
  <2> QED
    BY <2>1
<1> HIDE DEF s
<1>3. /\ f.data \o s \in Seq(Byte)
      /\ Len(f.data \o s) = Len(f.data) + m
      /\ \A j \in 1..(Len(f.data) + m) :
           (f.data \o s)[j] = IF j <= Len(f.data) THEN f.data[j] ELSE s[j - Len(f.data)]
  <2>1. f.data \in Seq(Byte) /\ s \in Seq(Byte)
    BY <1>2, FragmentFields
  <2>2. /\ f.data \o s \in Seq(Byte)
        /\ Len(f.data \o s) = Len(f.data) + Len(s)
        /\ \A j \in 1..(Len(f.data) + Len(s)) :
             (f.data \o s)[j] = IF j <= Len(f.data) THEN f.data[j] ELSE s[j - Len(f.data)]
    BY <2>1, ConcatProperties
  <2> QED
    BY <1>2, <2>2
<1>4. Put(f, bytes) = [f EXCEPT !.data = f.data \o s]
  BY DEF Put, s
<1>5. /\ Put(f, bytes) \in Fragment
      /\ Put(f, bytes).cap = f.cap /\ Put(f, bytes).off = f.off
      /\ Put(f, bytes).data = f.data \o s
  BY <1>3, <1>4 DEF Fragment
<1>6. \A j \in 1..(Len(f.data) + m) : ~(j <= Len(f.data)) => j - Len(f.data) \in 1..m
  BY FragmentFields
<1> QED
  BY <1>2, <1>3, <1>5, <1>6

\* read takes k bytes from the front; the others move to the front.
LEMMA DropMoves ==
  ASSUME NEW f \in Fragment, NEW k \in 0..Len(f.data)
  PROVE  /\ Drop(f, k) \in Fragment
         /\ Drop(f, k).cap = f.cap /\ Drop(f, k).off = f.off + k
         /\ Len(Drop(f, k).data) = Len(f.data) - k
         /\ \A j \in 1..(Len(f.data) - k) : Drop(f, k).data[j] = f.data[k + j]
<1>1. /\ SubSeq(f.data, k + 1, Len(f.data)) \in Seq(Byte)
      /\ Len(SubSeq(f.data, k + 1, Len(f.data))) = Len(f.data) - k
      /\ \A j \in 1..(Len(f.data) - k) : SubSeq(f.data, k + 1, Len(f.data))[j] = f.data[k + j]
  BY FragmentFields, Piece
<1>2. Drop(f, k) = [f EXCEPT !.off = f.off + k, !.data = SubSeq(f.data, k + 1, Len(f.data))]
  BY DEF Drop
<1>3. f.off + k \in Nat
  BY FragmentFields
<1>4. /\ Drop(f, k) \in Fragment /\ Drop(f, k).cap = f.cap /\ Drop(f, k).off = f.off + k
      /\ Drop(f, k).data = SubSeq(f.data, k + 1, Len(f.data))
  BY <1>1, <1>2, <1>3 DEF Fragment
<1> QED
  BY <1>1, <1>4

\* copy_to shows the first bytes, at most k.
LEMMA PeekShows ==
  ASSUME NEW f \in Fragment, NEW s \in Nat, NEW k \in Nat
  PROVE  /\ Peek(f, s, k) \in Seq(Byte)
         /\ Len(Peek(f, s, k)) \in 0..k
         /\ s = 0 => /\ Len(Peek(f, s, k)) = Smaller(k, Len(f.data))
                     /\ \A j \in 1..Len(Peek(f, s, k)) : Peek(f, s, k)[j] = f.data[j]
<1> DEFINE b == Smaller(s + k, Len(f.data))
<1>1. b \in Nat /\ b <= Len(f.data) /\ b <= s + k /\ (s = 0 => b = Smaller(k, Len(f.data)))
  BY FragmentFields DEF Smaller
<1> HIDE DEF b
<1>2. /\ SubSeq(f.data, s + 1, b) \in Seq(Byte)
      /\ Len(SubSeq(f.data, s + 1, b)) = IF s <= b THEN b - s ELSE 0
      /\ \A j \in 1..Len(SubSeq(f.data, s + 1, b)) : SubSeq(f.data, s + 1, b)[j] = f.data[s + j]
  BY <1>1, FragmentFields, Piece
<1>3. Peek(f, s, k) = SubSeq(f.data, s + 1, b)
  BY DEF Peek, b
<1>4. \A j \in 1..Len(Peek(f, s, k)) : 0 + j = j
  BY <1>1, <1>2, <1>3
<1> QED
  BY <1>1, <1>2, <1>3, <1>4

-----------------------------------------------------------------------------
LEMMA InitHolds == Init => IInv
<1> SUFFICES ASSUME Init PROVE IInv
  OBVIOUS
<1>1. \A S : <<>> \in Seq(S)
  BY EmptySeq
<1> USE DEF Init
<1>2. TypeOK
  BY <1>1 DEF TypeOK
<1>3. Packed /\ Fifo /\ Ordered
  BY DEF Packed, Fifo, Ordered
<1>4. Locals /\ CopyLoop
  BY BufferAssumption DEF Locals, CopyLoop
<1> QED
  BY <1>2, <1>3, <1>4 DEF IInv

\* What IInv says of the domains.
LEMMA Domains ==
  ASSUME IInv
  PROVE  /\ frags \in Seq(Fragment) /\ Len(frags) \in Nat /\ DOMAIN frags = 1..Len(frags)
         /\ at \in Seq(Nat) /\ Len(at) = Len(frags) /\ DOMAIN at = 1..Len(frags)
         /\ \A k \in 1..Len(frags) : at[k] \in Nat /\ frags[k] \in Fragment
         /\ stream \in Seq(Byte) /\ Len(stream) \in Nat /\ DOMAIN stream = 1..Len(stream)
         /\ got \in Seq(Byte) /\ Len(got) \in Nat /\ DOMAIN got = 1..Len(got)
         /\ (frags = <<>>) <=> (Len(frags) = 0)
<1>1. frags \in Seq(Fragment) /\ at \in Seq(Nat) /\ stream \in Seq(Byte) /\ got \in Seq(Byte)
  BY DEF IInv, TypeOK
<1>2. Len(at) = Len(frags)
  BY DEF IInv, Fifo
<1>3. (frags = <<>>) <=> (Len(frags) = 0)
  BY <1>1, EmptySeq, SeqEqual
<1> QED
  BY <1>1, <1>2, <1>3, LenProperties, ElementOfSeq

\* A step that leaves the fragments alone and does not end a read.
LEMMA ObjectKept ==
  ASSUME IInv, UNCHANGED <<frags, stream, at>>, pc' = "read" \/ pc # "read" \/ ReadDone
  PROVE  Packed' /\ Fifo' /\ Ordered'
<1>1. Fifo' /\ Ordered'
  BY DEF IInv, Fifo, Ordered, End
<1>2. Packed'
  BY DEF IInv, Packed, GetFree, ReadDone
<1> QED
  BY <1>1, <1>2

LEMMA ReadCallStep ==
  ASSUME IInv, NEW len \in 0..MaxLen, ReadCall(len)
  PROVE  IInv'
<1> USE DEF ReadCall
<1>1. Packed' /\ Fifo' /\ Ordered'
  BY ObjectKept DEF objectVars, historyVars
<1>2. TypeOK'
  BY DEF IInv, TypeOK, objectVars, historyVars
<1>3. Locals' /\ CopyLoop'
  BY BufferAssumption DEF IInv, Locals, CopyLoop, TypeOK
<1> QED
  BY <1>1, <1>2, <1>3 DEF IInv

LEMMA CopyCallStep ==
  ASSUME IInv, NEW len \in 0..MaxLen, NEW s \in Skips, CopyCall(s, len)
  PROVE  IInv'
<1> USE DEF CopyCall
<1>1. Packed' /\ Fifo' /\ Ordered'
  BY ObjectKept DEF objectVars, historyVars
<1>2. TypeOK'
  BY BufferAssumption DEF IInv, TypeOK, objectVars, historyVars
<1>3. got = <<>> /\ i = 1 /\ needSkip = 0
  BY DEF IInv, Locals
<1>4. Locals'
  BY <1>3, BufferAssumption DEF Locals
<1>5. Len(got) = 0 /\ DOMAIN got = {}
  BY <1>3, EmptySeq, LenProperties
<1>6. CopyDone' => Len(stream) = 0
  <2>1. CopyDone' => frags = <<>>
    BY <1>3, Domains DEF CopyDone, objectVars
  <2> QED
    BY <2>1, EmptySeq DEF IInv, Fifo
<1>7. ~CopyDone' => at[1] = 0
  BY <1>3, Domains DEF CopyDone, objectVars, IInv, Fifo
<1>8. CopyLoop'
  BY <1>3, <1>5, <1>6, <1>7, Domains DEF CopyLoop, historyVars
<1> QED
  BY <1>1, <1>2, <1>4, <1>8 DEF IInv

LEMMA ReturnStep ==
  ASSUME IInv, Return, pc # "read" \/ ReadDone
  PROVE  IInv'
<1> USE DEF Return
<1>1. Packed' /\ Fifo' /\ Ordered'
  BY ObjectKept DEF objectVars, historyVars
<1>2. TypeOK'
  BY Domains, EmptySeq DEF IInv, TypeOK, objectVars, historyVars
<1>3. Locals' /\ CopyLoop'
  BY BufferAssumption DEF Locals, CopyLoop
<1> QED
  BY <1>1, <1>2, <1>3 DEF IInv

LEMMA CopyStepHolds ==
  ASSUME IInv, CopyStep
  PROVE  IInv'
<1> DEFINE part == Peek(frags[i], needSkip', want)
<1>1. /\ i \in 1..Len(frags) /\ frags[i] \in Fragment
      /\ want \in Nat /\ skip \in Nat /\ needSkip \in Nat
  BY Domains DEF CopyStep, CopyDone, IInv, TypeOK
<1>2. needSkip' \in Nat /\ skip' \in Nat /\ skip' <= skip
  <2>1. Smaller(skip, Len(frags[i].data)) \in 0..skip
    BY <1>1, FragmentFields DEF Smaller
  <2> QED
    BY <1>1, <2>1 DEF CopyStep
<1>3. /\ part \in Seq(Byte) /\ Len(part) \in Nat /\ Len(part) <= want
      /\ needSkip' = 0 => /\ Len(part) = Smaller(want, Len(frags[i].data))
                          /\ \A j \in 1..Len(part) : part[j] = frags[i].data[j]
  BY <1>1, <1>2, PeekShows
<1>4. /\ got' = got \o part /\ want' = want - Len(part) /\ i' = i + 1
      /\ pc = "copy" /\ pc' = "copy" /\ ~CopyDone
      /\ UNCHANGED <<frags, cache, ret, out, n, from, stream, at>>
  BY DEF CopyStep, objectVars, historyVars
<1> HIDE DEF part
<1>0. Len(frags) \in Nat /\ Len(stream) \in Nat /\ Len(got) \in Nat
  BY Domains
<1>5. /\ got' \in Seq(Byte) /\ Len(got') = Len(got) + Len(part)
      /\ \A j \in 1..(Len(got) + Len(part)) :
           got'[j] = IF j <= Len(got) THEN got[j] ELSE part[j - Len(got)]
  <2>1. /\ got \o part \in Seq(Byte) /\ Len(got \o part) = Len(got) + Len(part)
        /\ \A j \in 1..(Len(got) + Len(part)) :
             (got \o part)[j] = IF j <= Len(got) THEN got[j] ELSE part[j - Len(got)]
    BY <1>3, Domains, ConcatProperties
  <2> QED
    BY <1>4, <2>1
<1>6. Packed' /\ Fifo' /\ Ordered'
  BY <1>4, ObjectKept
<1>7. TypeOK'
  BY <1>1, <1>2, <1>3, <1>4, <1>5 DEF IInv, TypeOK
<1>8. Locals'
  BY <1>1, <1>2, <1>3, <1>4, <1>5, Domains DEF IInv, Locals, TypeOK
<1>9. CopyLoop'
  <2> SUFFICES ASSUME from = 0
               PROVE  /\ needSkip' = 0
                      /\ Len(got') <= Len(stream)
                      /\ \A j \in DOMAIN got' : got'[j] = stream[j]
                      /\ IF CopyDone' THEN want' = 0 \/ Len(got') = Len(stream)
                                      ELSE Len(got') = at[i']
    BY <1>4 DEF CopyLoop
  <2>1. /\ needSkip = 0 /\ Len(got) <= Len(stream) /\ Len(got) = at[i]
        /\ \A j \in 1..Len(got) : got[j] = stream[j]
    BY <1>4, Domains DEF IInv, CopyLoop
  <2>2. needSkip' = 0
    <3>1. skip = 0
      BY <1>1 DEF IInv, Locals, TypeOK
    <3> QED
      BY <2>1, <3>1 DEF CopyStep
  <2>3. Len(part) = Smaller(want, Len(frags[i].data)) /\ \A j \in 1..Len(part) : part[j] = frags[i].data[j]
    BY <1>3, <2>2
  <2>4. /\ at[i] + Len(frags[i].data) = End(i) /\ at[i] + Len(frags[i].data) <= Len(stream)
        /\ \A j \in 1..Len(frags[i].data) : frags[i].data[j] = stream[at[i] + j]
    BY <1>1, Domains, FragmentFields DEF IInv, Fifo, Ordered
  <2>5. Len(frags[i].data) \in Nat /\ Len(part) <= Len(frags[i].data)
    BY <1>1, <1>3, <2>3, FragmentFields DEF Smaller
  <2>6. Len(got') <= Len(stream)
    BY <1>3, <1>5, <2>1, <2>4, <2>5, Domains
  <2>7. \A j \in DOMAIN got' : got'[j] = stream[j]
    <3> SUFFICES ASSUME NEW j \in 1..(Len(got) + Len(part)) PROVE got'[j] = stream[j]
      BY <1>5, LenProperties
    <3>1. CASE j <= Len(got)
      BY <3>1, <1>5, <2>1, Domains
    <3>2. CASE ~(j <= Len(got))
      <4>1. j - Len(got) \in 1..Len(part) /\ j - Len(got) \in 1..Len(frags[i].data)
        BY <3>2, <1>3, <2>5, Domains
      <4>2. at[i] + (j - Len(got)) = j
        BY <2>1, Domains
      <4> QED
        BY <3>2, <4>1, <4>2, <1>5, <2>3, <2>4
    <3> QED
      BY <3>1, <3>2
  <2>8. want' = 0 \/ Len(got') = End(i)
    BY <1>1, <1>3, <1>4, <1>5, <2>1, <2>3, <2>4, <2>5, Domains DEF Smaller
  <2>9. CASE CopyDone'
    <3>1. want' = 0 \/ i = Len(frags)
      BY <2>9, <1>0, <1>1, <1>4 DEF CopyDone
    <3> QED
      BY <2>2, <2>6, <2>7, <2>8, <2>9, <3>1 DEF End
  <2>10. CASE ~CopyDone'
    <3>1. want' # 0 /\ i # Len(frags)
      BY <2>10, <1>0, <1>1, <1>4 DEF CopyDone
    <3> QED
      BY <1>4, <2>2, <2>6, <2>7, <2>8, <2>10, <3>1 DEF End
  <2> QED
    BY <2>2, <2>6, <2>7, <2>9, <2>10
<1> QED
  BY <1>6, <1>7, <1>8, <1>9 DEF IInv

-----------------------------------------------------------------------------
LEMMA ReadSomeStep ==
  ASSUME IInv, ReadSome
  PROVE  IInv'
<1> DEFINE k == Smaller(want, Len(frags[1].data))
           part == Peek(frags[1], 0, k)
<1>0. Len(frags) \in Nat /\ Len(stream) \in Nat /\ stream \in Seq(Byte) /\ DOMAIN at = 1..Len(frags)
  BY Domains
<1>1. /\ 1 \in 1..Len(frags) /\ frags[1] \in Fragment /\ want \in Nat /\ want > 0
      /\ Len(frags[1].data) \in Nat /\ at[1] = 0
  BY Domains, FragmentFields DEF ReadSome, IInv, TypeOK, Fifo
<1>2. /\ k \in Nat /\ k \in 0..Len(frags[1].data) /\ k <= Len(frags[1].data)
      /\ k <= want /\ k = Smaller(k, Len(frags[1].data))
  BY <1>1 DEF Smaller
<1>3. part \in Seq(Byte) /\ Len(part) = k
  BY <1>1, <1>2, PeekShows
<1>4. /\ got' = got \o part /\ frags' = [frags EXCEPT ![1] = Drop(frags[1], k)]
      /\ want' = want - k
      /\ stream' = SubSeq(stream, k + 1, Len(stream))
      /\ at' = [j \in DOMAIN at |-> IF j = 1 THEN 0 ELSE at[j] - k]
      /\ pc = "read" /\ UNCHANGED <<cache, ret, out, pc, n, i, from, skip, needSkip>>
  <2>1. at[1] + k = k
    BY <1>1, <1>2
  <2> QED
    BY <2>1 DEF ReadSome
<1> HIDE DEF k, part
<1>5. got' \in Seq(Byte) /\ Len(got') = Len(got) + k
  <2>1. got \o part \in Seq(Byte) /\ Len(got \o part) = Len(got) + Len(part)
    BY <1>3, Domains, ConcatProperties
  <2> QED
    BY <1>3, <1>4, <2>1
<1>6. /\ Drop(frags[1], k) \in Fragment
      /\ Drop(frags[1], k).cap = frags[1].cap /\ Drop(frags[1], k).off = frags[1].off + k
      /\ Len(Drop(frags[1], k).data) = Len(frags[1].data) - k
      /\ \A j \in 1..(Len(frags[1].data) - k) : Drop(frags[1], k).data[j] = frags[1].data[k + j]
  BY <1>1, <1>2, DropMoves
<1>7. /\ frags' \in Seq(Fragment) /\ Len(frags') = Len(frags)
      /\ frags'[1] = Drop(frags[1], k)
      /\ \A j \in 1..Len(frags) : j # 1 => frags'[j] = frags[j]
  BY <1>1, <1>4, <1>6, Domains, ExceptSeq
<1>8. k <= Len(stream) /\ \A j \in 1..Len(frags) : j # 1 => at[j] >= Len(frags[1].data)
  <2>1. at[1] + Len(frags[1].data) <= Len(stream)
    BY <1>1, Domains DEF IInv, Ordered
  <2>2. ASSUME NEW j \in 1..Len(frags), j # 1 PROVE at[1] + Len(frags[1].data) <= at[j]
    BY <2>2, <1>1, Domains DEF IInv, Ordered
  <2> QED
    BY <2>1, <2>2, <1>1, <1>2, Domains
<1>9. /\ stream' \in Seq(Byte) /\ Len(stream') = Len(stream) - k
      /\ \A j \in 1..(Len(stream) - k) : stream'[j] = stream[k + j]
  <2>1. /\ SubSeq(stream, k + 1, Len(stream)) \in Seq(Byte)
        /\ Len(SubSeq(stream, k + 1, Len(stream))) = Len(stream) - k
        /\ \A j \in 1..(Len(stream) - k) : SubSeq(stream, k + 1, Len(stream))[j] = stream[k + j]
    BY <1>0, <1>2, <1>8, Piece
  <2> QED
    BY <1>4, <2>1
<1>10. \A j \in 1..Len(frags) : at'[j] \in Nat /\ at'[j] = IF j = 1 THEN 0 ELSE at[j] - k
  BY <1>1, <1>2, <1>4, <1>8, Domains
<1>11. at' \in Seq(Nat) /\ Len(at') = Len(frags) /\ DOMAIN at' = 1..Len(frags)
  <2>1. at' = [j \in 1..Len(frags) |-> IF j = 1 THEN 0 ELSE at[j] - k]
    BY <1>4, Domains
  <2>2. at' \in [1..Len(frags) -> Nat]
    BY <2>1, <1>10
  <2>3. at' \in Seq(Nat)
    BY <2>2, <1>0, SeqDef
  <2> QED
    BY <2>2, <2>3, Domains, LenProperties
<1>12. TypeOK'
  <2>1. want' \in Nat
    BY <1>1, <1>2, <1>4
  <2>2. /\ cache \in Fragment \cup {Null} /\ ret \in Nat /\ out \in Seq(Byte)
        /\ pc \in {"ready", "read", "copy"} /\ n \in Nat /\ i \in Nat \ {0}
        /\ from \in Nat /\ skip \in Nat /\ needSkip \in Nat
    BY DEF IInv, TypeOK
  <2>3. /\ cache' = cache /\ ret' = ret /\ out' = out /\ pc' = pc /\ n' = n /\ i' = i
        /\ from' = from /\ skip' = skip /\ needSkip' = needSkip
    BY <1>4
  <2> QED
    BY <1>5, <1>7, <1>9, <1>11, <2>1, <2>2, <2>3 DEF TypeOK
<1>13. DOMAIN frags' = 1..Len(frags)
  BY <1>7, LenProperties, Domains
<1>14. Packed'
  <2> SUFFICES ASSUME NEW j \in 1..Len(frags)
               PROVE  /\ GetFree(frags'[j]) >= 0
                      /\ j < Len(frags) => GetFree(frags'[j]) = 0
                      /\ j > 1 => frags'[j].data # <<>>
    BY <1>4, <1>7, <1>13 DEF Packed
  <2>1. /\ GetFree(frags[j]) >= 0
        /\ j < Len(frags) => GetFree(frags[j]) = 0
        /\ j > 1 => frags[j].data # <<>>
    BY Domains DEF IInv, Packed
  <2>2. GetFree(frags'[j]) = GetFree(frags[j])
    <3>1. CASE j = 1
      BY <3>1, <1>1, <1>2, <1>6, <1>7, FragmentFields DEF GetFree
    <3>2. CASE j # 1
      BY <3>2, <1>7 DEF GetFree
    <3> QED
      BY <3>1, <3>2
  <2> QED
    BY <2>1, <2>2, <1>7
<1>15. \A j \in 1..Len(frags) :
         /\ Len(frags'[j].data) \in Nat
         /\ at'[j] + Len(frags'[j].data) = at[j] + Len(frags[j].data) - k
         /\ DOMAIN frags'[j].data = 1..Len(frags'[j].data)
  <2> TAKE j \in 1..Len(frags)
  <2>1. frags'[j] \in Fragment /\ frags[j] \in Fragment /\ at[j] \in Nat
    BY <1>6, <1>7, Domains
  <2>2. Len(frags'[j].data) \in Nat /\ DOMAIN frags'[j].data = 1..Len(frags'[j].data)
    BY <2>1, FragmentFields
  <2>3. CASE j = 1
    BY <2>2, <2>3, <1>1, <1>2, <1>6, <1>7, <1>10
  <2>4. CASE j # 1
    <3>1. Len(frags[j].data) \in Nat
      BY <2>1, FragmentFields
    <3> QED
      BY <2>1, <2>2, <2>4, <3>1, <1>2, <1>7, <1>10
  <2> QED
    BY <2>2, <2>3, <2>4
<1>16. Ordered'
  <2>1. ASSUME NEW j \in 1..Len(frags), NEW l \in 1..Len(frags), j < l
        PROVE  at'[j] + Len(frags'[j].data) <= at'[l]
    <3>1. at[j] + Len(frags[j].data) <= at[l]
      BY <2>1, Domains DEF IInv, Ordered
    <3>2. l # 1 /\ at[l] \in Nat /\ at[j] \in Nat /\ Len(frags[j].data) \in Nat
      BY <2>1, <1>0, Domains, FragmentFields
    <3>3. at'[l] = at[l] - k /\ at'[j] + Len(frags'[j].data) = at[j] + Len(frags[j].data) - k
      BY <3>2, <1>10, <1>15
    <3> QED
      BY SMTT(40), <3>1, <3>2, <3>3, <1>2
  <2>2. ASSUME NEW j \in 1..Len(frags)
        PROVE  at'[j] + Len(frags'[j].data) <= Len(stream')
    <3>1. at[j] + Len(frags[j].data) <= Len(stream) /\ frags[j] \in Fragment
      BY Domains DEF IInv, Ordered
    <3> QED
      BY SMTT(40), <3>1, <1>2, <1>9, <1>15, Domains, FragmentFields
  <2> QED
    BY <2>1, <2>2, <1>11 DEF Ordered
<1>17. Fifo'
  <2>1. Len(at') = Len(frags') /\ frags' # <<>> /\ at'[1] = 0
    BY <1>1, <1>7, <1>10, <1>11, EmptySeq, Domains
  <2>2. ASSUME NEW j \in 1..Len(frags)
        PROVE  at'[j] + Len(frags'[j].data) = End(j)'
    <3>1. at[j] + Len(frags[j].data) = End(j)
      BY Domains DEF IInv, Fifo
    <3>2. End(j)' = End(j) - k
      <4>1. CASE j = Len(frags)
        BY <4>1, <1>7, <1>9 DEF End
      <4>2. CASE j # Len(frags)
        <5>1. j + 1 \in 1..Len(frags) /\ j + 1 # 1
          BY <4>2, <1>0
        <5> QED
          BY <4>2, <5>1, <1>7, <1>10 DEF End
      <4> QED
        BY <4>1, <4>2
    <3>3. at'[j] + Len(frags'[j].data) = at[j] + Len(frags[j].data) - k
      BY <1>15
    <3>4. at[j] \in Nat /\ Len(frags[j].data) \in Nat
      BY Domains, FragmentFields
    <3> QED
      BY <3>1, <3>2, <3>3, <3>4, <1>2
  <2>3. ASSUME NEW j \in 1..Len(frags), NEW l \in 1..Len(frags'[j].data)
        PROVE  frags'[j].data[l] = stream'[at'[j] + l]
    <3>1. at[j] + Len(frags[j].data) <= Len(stream) /\ frags[j] \in Fragment
      BY Domains DEF IInv, Ordered
    <3>2. at'[j] + l \in 1..(Len(stream) - k)
      <4>1. at'[j] \in Nat /\ l \in Nat /\ l >= 1 /\ Len(frags'[j].data) \in Nat /\ l <= Len(frags'[j].data)
        BY <1>10, <1>15
      <4>2. at[j] \in Nat /\ Len(frags[j].data) \in Nat
        BY <3>1, Domains, FragmentFields
      <4>3. at'[j] + Len(frags'[j].data) = at[j] + Len(frags[j].data) - k
        BY <1>15
      <4>4. k \in Nat
        BY <1>2
      <4>5. at'[j] + Len(frags'[j].data) <= Len(stream) - k
        BY <3>1, <4>2, <4>3, <4>4, <1>0
      <4>6. at'[j] + l <= at'[j] + Len(frags'[j].data)
        BY <4>1
      <4> QED
        BY <4>1, <4>4, <4>5, <4>6, <1>0
    <3>3. stream'[at'[j] + l] = stream[k + (at'[j] + l)]
      BY <3>2, <1>9
    <3>4. CASE j = 1
      <4>1. l \in 1..(Len(frags[1].data) - k) /\ k + l \in 1..Len(frags[1].data)
        BY <3>4, <1>1, <1>2, <1>6, <1>7
      <4>2. frags[1].data[k + l] = stream[at[1] + (k + l)]
        BY <4>1, <1>1, Domains, FragmentFields DEF IInv, Fifo
      <4>3. frags'[1].data[l] = frags[1].data[k + l]
        BY <4>1, <1>6, <1>7
      <4>4. at[1] + (k + l) = k + (at'[1] + l)
        BY <4>1, <1>1, <1>2, <1>10
      <4> QED
        BY <3>3, <3>4, <4>2, <4>3, <4>4
    <3>5. CASE j # 1
      <4>1. frags[j].data[l] = stream[at[j] + l]
        BY <3>1, <3>5, <1>7, Domains, FragmentFields DEF IInv, Fifo
      <4>2. at[j] + l = k + (at'[j] + l)
        <5> DEFINE a == at[j]
        <5>1. a \in Nat /\ k \in Nat /\ l \in Nat /\ at'[j] = a - k
          BY <3>5, <1>2, <1>10, Domains
        <5> HIDE DEF a
        <5>2. a + l = k + ((a - k) + l)
          BY <5>1
        <5> QED
          BY <5>1, <5>2 DEF a
      <4> QED
        BY <3>3, <3>5, <4>1, <4>2, <1>7
    <3> QED
      BY <3>4, <3>5
  <2> QED
    BY <2>1, <2>2, <2>3, <1>13, <1>15 DEF Fifo
<1>18. Locals'
  BY <1>1, <1>2, <1>4, <1>5, Domains DEF IInv, Locals, TypeOK
<1>19. CopyLoop'
  BY <1>4 DEF CopyLoop
<1> QED
  BY <1>12, <1>14, <1>16, <1>17, <1>18, <1>19 DEF IInv

LEMMA PopFrontStep ==
  ASSUME IInv, PopFront
  PROVE  IInv'
<1> DEFINE last == Len(frags)
<1>1. /\ pc = "read" /\ frags # <<>> /\ frags[1].data = <<>>
      /\ frags' = Tail(frags) /\ at' = Tail(at) /\ cache' = Cached(frags[1])
      /\ UNCHANGED <<ret, out, pc, n, want, got, i, from, skip, needSkip, stream>>
  BY DEF PopFront, localVars
<1>2. last \in Nat /\ last >= 1 /\ Len(frags[1].data) = 0 /\ frags[1] \in Fragment /\ Len(stream) \in Nat
  BY <1>1, Domains, EmptySeq
<1>3. /\ frags' \in Seq(Fragment) /\ Len(frags') = last - 1
      /\ \A j \in 1..(last - 1) : frags'[j] = frags[j + 1] /\ frags[j + 1] \in Fragment
  <2>1. frags \in Seq(Fragment)
    BY Domains
  <2>2. /\ Tail(frags) \in Seq(Fragment) /\ Len(Tail(frags)) = last - 1
        /\ \A j \in 1..Len(Tail(frags)) : Tail(frags)[j] = frags[j + 1]
    BY <1>1, <2>1, HeadTailProperties
  <2>3. \A j \in 1..(last - 1) : j + 1 \in 1..last
    BY <1>2
  <2> QED
    BY <1>1, <2>2, <2>3, Domains
<1>4. /\ at' \in Seq(Nat) /\ Len(at') = last - 1
      /\ \A j \in 1..(last - 1) : at'[j] = at[j + 1] /\ at[j + 1] \in Nat
  <2>1. at \in Seq(Nat) /\ Len(at) = last /\ at # <<>>
    BY <1>2, Domains, EmptySeq
  <2>2. /\ Tail(at) \in Seq(Nat) /\ Len(Tail(at)) = last - 1
        /\ \A j \in 1..Len(Tail(at)) : Tail(at)[j] = at[j + 1]
    BY <2>1, HeadTailProperties
  <2>3. \A j \in 1..(last - 1) : j + 1 \in 1..last
    BY <1>2
  <2> QED
    BY <1>1, <2>2, <2>3, Domains
<1>5. DOMAIN frags' = 1..(last - 1) /\ DOMAIN at' = 1..(last - 1)
  BY <1>3, <1>4, LenProperties
<1>6. last = 1 => Len(stream) = 0
  <2>1. 1 \in DOMAIN frags /\ at[1] = 0
    BY <1>1, <1>2, Domains DEF IInv, Fifo
  <2>2. at[1] + Len(frags[1].data) = End(1)
    BY <2>1 DEF IInv, Fifo
  <2> QED
    BY <1>2, <2>1, <2>2 DEF End
<1>7. last > 1 => at[2] = 0
  <2>1. 1 \in DOMAIN frags /\ at[1] = 0
    BY <1>1, <1>2, Domains DEF IInv, Fifo
  <2>2. at[1] + Len(frags[1].data) = End(1)
    BY <2>1 DEF IInv, Fifo
  <2>3. ASSUME last > 1 PROVE End(1) = at[2]
    <3>1. Len(frags) \in Nat /\ Len(frags) > 1
      BY <1>2, <2>3
    <3>2. 1 + 1 = 2
      OBVIOUS
    <3>3. 1 # Len(frags)
      <4> SUFFICES ASSUME Len(frags) = 1 PROVE FALSE
        OBVIOUS
      <4> QED
        BY <3>1
    <3>4. End(1) = at[1 + 1]
      BY <3>3 DEF End
    <3> QED
      BY <3>2, <3>4
  <2> QED
    BY <1>2, <2>1, <2>2, <2>3
<1>8. TypeOK'
  <2>1. cache' \in Fragment \cup {Null}
    BY <1>1, <1>2 DEF Cached, IInv, TypeOK
  <2> QED
    BY <1>1, <1>3, <1>4, <2>1 DEF IInv, TypeOK
<1>9. Packed'
  <2> SUFFICES ASSUME NEW j \in 1..(last - 1)
               PROVE  /\ GetFree(frags[j + 1]) >= 0
                      /\ j < last - 1 => GetFree(frags[j + 1]) = 0
                      /\ frags[j + 1].data # <<>>
    BY <1>1, <1>3, <1>5 DEF Packed, GetFree
  <2>1. j + 1 \in DOMAIN frags /\ j + 1 > 1 /\ (j < last - 1 => j + 1 < Len(frags))
    BY <1>2, Domains
  <2> QED
    BY <2>1 DEF IInv, Packed
<1>10. Ordered'
  <2>1. ASSUME NEW j \in 1..(last - 1), NEW k \in 1..(last - 1), j < k
        PROVE  at'[j] + Len(frags'[j].data) <= at'[k]
    <3>1. j + 1 \in DOMAIN at /\ k + 1 \in DOMAIN at /\ j + 1 < k + 1
      BY <2>1, <1>2, Domains
    <3>2. at[j + 1] + Len(frags[j + 1].data) <= at[k + 1]
      BY <3>1 DEF IInv, Ordered
    <3> QED
      BY <3>2, <1>3, <1>4
  <2>2. ASSUME NEW j \in 1..(last - 1)
        PROVE  at'[j] + Len(frags'[j].data) <= Len(stream')
    <3>1. j + 1 \in DOMAIN at
      BY <1>2, Domains
    <3>2. at[j + 1] + Len(frags[j + 1].data) <= Len(stream)
      BY <3>1 DEF IInv, Ordered
    <3> QED
      BY <3>2, <1>1, <1>3, <1>4
  <2> QED
    BY <2>1, <2>2, <1>5 DEF Ordered
<1>11. Fifo'
  <2>1. IF frags' = <<>> THEN stream' = <<>> ELSE at'[1] = 0
    <3>1. CASE last = 1
      <4>1. stream = <<>> /\ frags' = <<>>
        BY <3>1, <1>3, <1>6, Domains, EmptySeq, SeqEqual
      <4> QED
        BY <4>1, <1>1
    <3>2. CASE last # 1
      <4>1. last > 1 /\ 1 \in 1..(last - 1) /\ Len(frags') # 0
        BY <3>2, <1>2, <1>3
      <4>2. frags' # <<>> /\ at'[1] = 0
        BY <4>1, <1>4, <1>7, EmptySeq
      <4> QED
        BY <4>2
    <3> QED
      BY <3>1, <3>2
  <2>2. ASSUME NEW j \in 1..(last - 1)
        PROVE  /\ at'[j] + Len(frags'[j].data) = End(j)'
               /\ \A l \in DOMAIN frags'[j].data : frags'[j].data[l] = stream'[at'[j] + l]
    <3>1. j + 1 \in DOMAIN frags
      BY <1>2, Domains
    <3>2. /\ at[j + 1] + Len(frags[j + 1].data) = End(j + 1)
          /\ \A l \in DOMAIN frags[j + 1].data : frags[j + 1].data[l] = stream[at[j + 1] + l]
      BY <3>1 DEF IInv, Fifo
    <3>3. End(j)' = End(j + 1)
      <4>1. CASE j = last - 1
        BY <4>1, <1>1, <1>2, <1>3 DEF End
      <4>2. CASE j # last - 1
        <5>1. j + 1 \in 1..(last - 1) /\ j + 1 # last
          BY <4>2, <1>2
        <5> QED
          BY <4>2, <5>1, <1>3, <1>4 DEF End
      <4> QED
        BY <4>1, <4>2
    <3> QED
      BY <3>2, <3>3, <1>1, <1>3, <1>4
  <2> QED
    BY <2>1, <2>2, <1>3, <1>4, <1>5 DEF Fifo
<1>12. Locals' /\ CopyLoop'
  BY <1>1 DEF IInv, Locals, CopyLoop
<1> QED
  BY <1>8, <1>9, <1>10, <1>11, <1>12 DEF IInv

-----------------------------------------------------------------------------
LEMMA ResetStep ==
  ASSUME IInv, NEW clearcache \in BOOLEAN, Reset(clearcache)
  PROVE  IInv'
<1> USE DEF Reset
<1>1. TypeOK'
  <2>1. cache' \in Fragment \cup {Null}
    <3>1. frags # <<>> => frags[Len(frags)] \in Fragment
      BY Domains
    <3> QED
      BY <3>1 DEF IInv, TypeOK
  <2> QED
    BY <2>1, EmptySeq DEF IInv, TypeOK, localVars
<1>2. Packed' /\ Fifo' /\ Ordered'
  BY DEF Packed, Fifo, Ordered
<1>3. Locals' /\ CopyLoop'
  BY DEF IInv, Locals, CopyLoop, localVars
<1> QED
  BY <1>1, <1>2, <1>3 DEF IInv

LEMMA ResetCacheStep ==
  ASSUME IInv, ResetCache
  PROVE  IInv'
<1> USE DEF ResetCache
<1>1. Packed' /\ Fifo' /\ Ordered'
  BY ObjectKept DEF localVars, historyVars
<1>2. TypeOK'
  BY DEF IInv, TypeOK, localVars, historyVars
<1>3. Locals' /\ CopyLoop'
  BY DEF IInv, Locals, CopyLoop, localVars
<1> QED
  BY <1>1, <1>2, <1>3 DEF IInv

-----------------------------------------------------------------------------
\* create_fragmentation gives a fragment without data and with the room asked for.
LEMMA CreateGives ==
  ASSUME "array" \notin Fails, cache \in Fragment \cup {Null},
         NEW size \in Nat, NEW c \in Create(size)
  PROVE  /\ c[2] \in Fragment \cup {Null}
         /\ c[1] # Null => /\ c[1] \in Fragment /\ c[1].off = 0
                           /\ c[1].data = <<>> /\ c[1].cap >= size
<1>1. NewFragment(size) \in Fragment
  BY EmptySeq DEF NewFragment, Fragment
<1>2. CASE cache # Null /\ cache.cap >= size
  <2>1. cache \in Fragment /\ c = <<Reinit(cache), Null>>
    BY <1>2 DEF Create
  <2>2. Reinit(cache) \in Fragment /\ Reinit(cache).off = 0 /\ Reinit(cache).data = <<>>
        /\ Reinit(cache).cap = cache.cap
    BY <2>1, EmptySeq DEF Reinit, Fragment
  <2> QED
    BY <1>2, <2>1, <2>2
<1>3. CASE ~(cache # Null /\ cache.cap >= size)
  <2>1. c = <<NewFragment(size), cache>> \/ c = <<Null, cache>>
    BY <1>3 DEF Create
  <2> QED
    BY <1>1, <2>1 DEF NewFragment
<1> QED
  BY <1>2, <1>3

\* The room at the back.
LEMMA RoomIsFree ==
  ASSUME IInv
  PROVE  /\ Room \in Nat
         /\ frags # <<>> => /\ frags[Len(frags)] \in Fragment
                            /\ Room = GetFree(frags[Len(frags)])
<1>1. CASE frags = <<>>
  BY <1>1 DEF Room
<1>2. CASE frags # <<>>
  <2>1. Len(frags) \in DOMAIN frags /\ frags[Len(frags)] \in Fragment
    BY <1>2, Domains
  <2>2. GetFree(frags[Len(frags)]) >= 0
    BY <2>1 DEF IInv, Packed
  <2> QED
    BY <1>2, <2>1, <2>2, FragmentFields DEF Room, GetFree
<1> QED
  BY <1>1, <1>2

\* The list once the last fragment has taken m of the bytes.
LEMMA FilledHolds ==
  ASSUME IInv, pc = "ready", NEW bytes \in Seq(Byte),
         NEW m \in Nat, m = Smaller(Len(bytes), Room)
  PROVE  /\ Filled(bytes) \in Seq(Fragment)
         /\ Len(Filled(bytes)) = Len(frags)
         /\ \A j \in 1..Len(frags) :
              /\ Filled(bytes)[j] \in Fragment
              /\ Filled(bytes)[j].data # <<>>
              /\ GetFree(Filled(bytes)[j]) = IF j < Len(frags) THEN 0 ELSE Room - m
              /\ at[j] + Len(Filled(bytes)[j].data) =
                   IF j < Len(frags) THEN at[j + 1] ELSE Len(stream) + m
              /\ \A k \in 1..Len(frags) : j < k => at[j] + Len(Filled(bytes)[j].data) <= at[k]
              /\ at[j] + Len(Filled(bytes)[j].data) <= Len(stream) + m
              /\ \A l \in 1..Len(Filled(bytes)[j].data) : Filled(bytes)[j].data[l] = (stream \o bytes)[at[j] + l]
<1> DEFINE last == Len(frags)
           fb == Filled(bytes)
           all == stream \o bytes
<1>1. CASE frags = <<>>
  <2>1. Filled(bytes) = <<>> /\ Len(frags) = 0
    BY <1>1, Domains DEF Filled
  <2> QED
    BY <2>1, <1>1, EmptySeq
<1>2. CASE frags # <<>>
  <2>1. /\ last \in Nat /\ last >= 1 /\ last \in 1..last /\ Len(stream) \in Nat /\ Len(bytes) \in Nat
        /\ frags \in Seq(Fragment) /\ DOMAIN frags = 1..last /\ DOMAIN at = 1..last
        /\ stream \in Seq(Byte) /\ last = Len(frags)
    BY <1>2, Domains, LenProperties
  <2>2. /\ Room \in Nat /\ frags[last] \in Fragment /\ Room = GetFree(frags[last])
    BY <1>2, RoomIsFree
  <2>3. fb = [frags EXCEPT ![last] = Put(frags[last], bytes)]
    BY <1>2 DEF Filled
  <2>0. GetFree(frags[last]) >= 0 /\ m = Smaller(Len(bytes), GetFree(frags[last]))
    BY <2>2
  <2>4. /\ Put(frags[last], bytes) \in Fragment
        /\ Put(frags[last], bytes).cap = frags[last].cap
        /\ Put(frags[last], bytes).off = frags[last].off
        /\ Len(Put(frags[last], bytes).data) = Len(frags[last].data) + m
        /\ \A l \in 1..(Len(frags[last].data) + m) :
             Put(frags[last], bytes).data[l] =
               IF l <= Len(frags[last].data) THEN frags[last].data[l] ELSE bytes[l - Len(frags[last].data)]
    BY <2>0, <2>2, PutAppends
  <2> HIDE DEF fb, last
  <2>8. last \in Nat /\ Len(stream) \in Nat /\ Len(bytes) \in Nat
    BY <2>1
  <2>5. /\ fb \in Seq(Fragment) /\ Len(fb) = last /\ fb[last] = Put(frags[last], bytes)
        /\ \A j \in 1..last : j # last => fb[j] = frags[j]
    <3> DEFINE e == Put(frags[last], bytes)
    <3>1. e \in Fragment /\ last \in 1..Len(frags) /\ frags \in Seq(Fragment) /\ fb = [frags EXCEPT ![last] = e]
      BY <2>1, <2>3, <2>4
    <3> HIDE DEF e
    <3>2. /\ [frags EXCEPT ![last] = e] \in Seq(Fragment)
          /\ Len([frags EXCEPT ![last] = e]) = Len(frags)
          /\ \A j \in 1..Len(frags) : [frags EXCEPT ![last] = e][j] = IF j = last THEN e ELSE frags[j]
      BY <3>1, ExceptSeq
    <3> QED
      BY <2>1, <3>1, <3>2 DEF e
  <2>6. /\ Len(all) = Len(stream) + Len(bytes)
        /\ \A l \in 1..Len(stream) + Len(bytes) :
             all[l] = IF l <= Len(stream) THEN stream[l] ELSE bytes[l - Len(stream)]
    BY <2>1, ConcatProperties
  <2> HIDE DEF all
  <2>7. ASSUME NEW j \in 1..last
        PROVE  /\ fb[j] \in Fragment
               /\ fb[j].data # <<>>
               /\ GetFree(fb[j]) = IF j < last THEN 0 ELSE Room - m
               /\ at[j] + Len(fb[j].data) = IF j < last THEN at[j + 1] ELSE Len(stream) + m
               /\ \A k \in 1..last : j < k => at[j] + Len(fb[j].data) <= at[k]
               /\ at[j] + Len(fb[j].data) <= Len(stream) + m
               /\ \A l \in 1..Len(fb[j].data) : fb[j].data[l] = all[at[j] + l]
    <3>1. /\ frags[j] \in Fragment /\ frags[j].data # <<>> /\ at[j] \in Nat
          /\ Len(frags[j].data) \in Nat /\ DOMAIN frags[j].data = 1..Len(frags[j].data)
      <4>1. frags[j] \in Fragment /\ at[j] \in Nat
        BY <2>1, Domains
      <4>2. j \in DOMAIN frags /\ (j = 1 \/ j > 1) /\ pc # "read"
        BY <2>1
      <4>3. frags[j].data # <<>>
        BY <4>2 DEF IInv, Packed
      <4> QED
        BY <4>1, <4>3, FragmentFields
    <3>2. j < last => GetFree(frags[j]) = 0
      BY <2>1 DEF IInv, Packed
    <3>3. /\ at[j] + Len(frags[j].data) = End(j)
          /\ \A l \in 1..Len(frags[j].data) : frags[j].data[l] = stream[at[j] + l]
      BY <2>1, <3>1 DEF IInv, Fifo
    <3>4. /\ \A k \in 1..last : j < k => at[j] + Len(frags[j].data) <= at[k]
          /\ at[j] + Len(frags[j].data) <= Len(stream)
      BY <2>1 DEF IInv, Ordered
    <3>5. ASSUME NEW l \in 1..Len(frags[j].data)
          PROVE  frags[j].data[l] = all[at[j] + l]
      <4>1. at[j] + l \in 1..Len(stream)
        BY <2>1, <3>1, <3>4
      <4> QED
        BY <2>1, <2>6, <3>3, <4>1
    <3>6. CASE j # last
      <4>1. j < last /\ fb[j] = frags[j]
        <5>1. j < last
          BY <3>6, <2>8
        <5>2. fb[j] = frags[j]
          BY <3>6, <2>5
        <5> QED
          BY <5>1, <5>2
      <4>2. at[j] + Len(frags[j].data) <= Len(stream) + m
        BY <2>1, <3>1, <3>4
      <4> QED
        <5>1. End(j) = at[j + 1]
          BY <3>6, <2>1 DEF End
        <5>2. /\ at[j] + Len(fb[j].data) = at[j + 1] /\ GetFree(fb[j]) = 0
              /\ \A k \in 1..last : j < k => at[j] + Len(fb[j].data) <= at[k]
              /\ at[j] + Len(fb[j].data) <= Len(stream) + m
          BY <4>1, <4>2, <5>1, <3>2, <3>3, <3>4
        <5> QED
          BY <4>1, <5>2, <3>1, <3>5
    <3>7. CASE j = last
      <4>1. fb[j] = Put(frags[last], bytes) /\ fb[j] \in Fragment /\ Len(fb[j].data) = Len(frags[j].data) + m
        BY <3>7, <2>4, <2>5
      <4>2. Len(frags[j].data) # 0
        BY <3>1, FragmentFields, EmptySeq, SeqEqual
      <4>3. fb[j].data # <<>>
        BY <4>1, <4>2, <3>1, EmptySeq
      <4>4. GetFree(fb[j]) = Room - m
        <5>1. fb[j].cap = frags[j].cap /\ fb[j].off = frags[j].off /\ frags[j].cap \in Nat /\ frags[j].off \in Nat
          BY <3>1, <3>7, <4>1, <2>4, FragmentFields
        <5>2. Room = frags[j].cap - frags[j].off - Len(frags[j].data)
          BY <3>7, <2>2 DEF GetFree
        <5> QED
          BY SMTT(40), <5>1, <5>2, <4>1, <3>1 DEF GetFree
      <4>5. at[j] + Len(frags[j].data) = Len(stream)
        BY <2>1, <3>3, <3>7 DEF End
      <4>6. at[j] + Len(fb[j].data) = Len(stream) + m
        BY SMTT(40), <4>1, <4>5, <3>1
      <4>7. ASSUME NEW l \in 1..Len(fb[j].data) PROVE fb[j].data[l] = all[at[j] + l]
        <5>1. CASE l <= Len(frags[j].data)
          <6>1. l \in 1..Len(frags[j].data) /\ fb[j].data[l] = frags[j].data[l]
            BY <5>1, <4>1, <3>1, <3>7, <2>4
          <6> QED
            BY <6>1, <3>5
        <5>2. CASE ~(l <= Len(frags[j].data))
          <6>1. fb[j].data[l] = bytes[l - Len(frags[j].data)]
            BY <5>2, <4>1, <3>1, <3>7, <2>4
          <6>2. m <= Len(bytes)
            BY <2>1, <2>2 DEF Smaller
          <6>3. /\ at[j] + l \in 1..(Len(stream) + Len(bytes)) /\ ~(at[j] + l <= Len(stream))
                /\ (at[j] + l) - Len(stream) = l - Len(frags[j].data)
            <7>1. /\ l \in Nat /\ l > Len(frags[j].data) /\ l <= Len(frags[j].data) + m
                  /\ m \in Nat /\ at[j] \in Nat /\ Len(frags[j].data) \in Nat
              BY <5>2, <4>1, <3>1
            <7>2. at[j] + l <= Len(stream) + Len(bytes) /\ at[j] + l >= 1
              BY SMTT(40), <7>1, <6>2, <4>5, <2>8
            <7>3. ~(at[j] + l <= Len(stream)) /\ (at[j] + l) - Len(stream) = l - Len(frags[j].data)
              <8> DEFINE a == at[j]
                         d == Len(frags[j].data)
                         e == Len(stream)
              <8>1. a \in Nat /\ d \in Nat /\ e \in Nat /\ l \in Nat /\ a + d = e /\ l > d
                BY <7>1, <4>5, <2>8
              <8> HIDE DEF a, d, e
              <8>2. ~(a + l <= e) /\ (a + l) - e = l - d
                BY <8>1, Shift
              <8> QED
                BY <8>2 DEF a, d, e
            <7> QED
              BY <7>1, <7>2, <7>3, <2>8
          <6> QED
            BY <6>1, <6>3, <2>6
        <5> QED
          BY <5>1, <5>2
      <4>8. \A k \in 1..last : ~(j < k)
        BY <3>7, <2>1
      <4> QED
        <5>1. ~(j < last) /\ Len(stream) + m <= Len(stream) + m
          BY <3>7, <2>8
        <5> QED
          BY <5>1, <4>1, <4>3, <4>4, <4>6, <4>7, <4>8
    <3> QED
      BY <3>6, <3>7
  <2> QED
    BY <2>5, <2>7 DEF fb, last, all
<1> QED
  BY <1>1, <1>2

LEMMA WriteBackStep ==
  ASSUME IInv, pc = "ready", NEW bytes \in Seq(Byte), bytes # <<>>, WriteBack(bytes),
         out' = <<>>, UNCHANGED localVars
  PROVE  IInv'
<1> DEFINE last == Len(frags)
           m == Len(bytes)
<1>1. /\ frags # <<>> /\ Room >= m /\ frags' = Filled(bytes)
      /\ ret' = m /\ stream' = stream \o bytes
      /\ UNCHANGED <<cache, at, pc, n, want, got, i, from, skip, needSkip>>
  BY DEF WriteBack, Accepted, localVars
<1>2. m \in Nat /\ last \in Nat /\ last >= 1 /\ Len(stream) \in Nat /\ Room \in Nat
  BY <1>1, Domains, LenProperties, RoomIsFree
<1>3. stream' \in Seq(Byte) /\ Len(stream') = Len(stream) + m
  <2>1. stream \o bytes \in Seq(Byte) /\ Len(stream \o bytes) = Len(stream) + Len(bytes)
    BY Domains, ConcatProperties
  <2> QED
    BY <1>1, <2>1
<1>4. m = Smaller(Len(bytes), Room)
  BY <1>1, <1>2 DEF Smaller
<1>5. /\ frags' \in Seq(Fragment) /\ Len(frags') = last
      /\ \A j \in 1..last :
           /\ frags'[j] \in Fragment
           /\ frags'[j].data # <<>>
           /\ GetFree(frags'[j]) = IF j < last THEN 0 ELSE Room - m
           /\ at[j] + Len(frags'[j].data) = IF j < last THEN at[j + 1] ELSE Len(stream) + m
           /\ \A k \in 1..last : j < k => at[j] + Len(frags'[j].data) <= at[k]
           /\ at[j] + Len(frags'[j].data) <= Len(stream) + m
           /\ \A l \in 1..Len(frags'[j].data) : frags'[j].data[l] = stream'[at[j] + l]
  <2>1. m = Smaller(Len(bytes), Room)
    BY <1>1, <1>2, <1>3, <1>4
  <2>2. Filled(bytes) = frags' /\ stream \o bytes = stream' /\ m \in Nat
    BY <1>1, <1>2
  <2> QED
    BY ZenonT(40), <2>1, <2>2, FilledHolds
<1>6. /\ DOMAIN frags' = 1..last /\ DOMAIN at = 1..last /\ Len(at) = last
      /\ \A j \in 1..last : DOMAIN frags'[j].data = 1..Len(frags'[j].data)
  BY <1>5, Domains, LenProperties, FragmentFields
<1>7. TypeOK'
  BY <1>1, <1>2, <1>3, <1>5, EmptySeq DEF IInv, TypeOK
<1>8. Packed'
  <2>1. Room - m >= 0
    BY <1>1, <1>2
  <2>2. \A j \in 1..last : GetFree(frags'[j]) >= 0 /\ (j < last => GetFree(frags'[j]) = 0)
    BY <2>1, <1>2, <1>5
  <2> QED
    BY <2>2, <1>5, <1>6 DEF Packed, GetFree
<1>9. Ordered'
  BY <1>1, <1>3, <1>5, <1>6 DEF Ordered
<1>10. Fifo'
  <2>1. frags' # <<>>
    BY <1>2, <1>5, EmptySeq
  <2>2. frags # <<>> /\ at[1] = 0
    BY <1>1 DEF IInv, Fifo
  <2>3. ASSUME NEW j \in 1..last PROVE End(j)' = IF j < last THEN at[j + 1] ELSE Len(stream) + m
    BY <1>1, <1>2, <1>3, <1>5 DEF End
  <2>4. ASSUME NEW j \in 1..last
        PROVE  /\ at'[j] + Len(frags'[j].data) = End(j)'
               /\ \A l \in DOMAIN frags'[j].data : frags'[j].data[l] = stream'[at'[j] + l]
    BY <2>3, <1>1, <1>5, <1>6
  <2> QED
    BY ZenonT(40), <2>1, <2>2, <2>4, <1>1, <1>5, <1>6 DEF Fifo
<1>11. Locals' /\ CopyLoop'
  BY <1>1 DEF IInv, Locals, CopyLoop
<1> QED
  BY <1>7, <1>8, <1>9, <1>10, <1>11 DEF IInv

\* The write that does not fit, when the fragment and the list node can be had.
LEMMA GrowStep ==
  ASSUME IInv, pc = "ready", NEW bytes \in Seq(Byte), bytes # <<>>,
         frags = <<>> \/ Room < Len(bytes),
         NEW f \in Fragment, f.off = 0, f.data = <<>>, f.cap >= Len(bytes) - Room,
         cache' \in Fragment \cup {Null},
         frags' = Append(Filled(bytes), Put(f, SubSeq(bytes, Room + 1, Len(bytes)))),
         Accepted(bytes), at' = Append(at, Len(stream) + Room),
         out' = <<>>, UNCHANGED localVars
  PROVE  IInv'
<1> DEFINE last == Len(frags)
           fb == Filled(bytes)
           rest == SubSeq(bytes, Room + 1, Len(bytes))
           new == Put(f, rest)
           size == Len(bytes)
<1>1. /\ ret' = size /\ stream' = stream \o bytes
      /\ UNCHANGED <<pc, n, want, got, i, from, skip, needSkip>>
  BY DEF Accepted, localVars
<1>2. /\ size \in Nat /\ last \in Nat /\ Len(stream) \in Nat /\ Room \in Nat /\ size > 0
      /\ last + 1 > last
  <2>1. Len(bytes) # 0
    BY EmptySeq, SeqEqual
  <2> QED
    BY <2>1, Domains, LenProperties, RoomIsFree
<1>3. Room < size /\ Room = Smaller(size, Room) /\ Room <= size
  <2>1. frags = <<>> => Room = 0
    BY DEF Room
  <2> QED
    BY <2>1, <1>2 DEF Smaller
<1>4. /\ stream' \in Seq(Byte) /\ Len(stream') = Len(stream) + size
      /\ \A l \in 1..(Len(stream) + size) :
           stream'[l] = IF l <= Len(stream) THEN stream[l] ELSE bytes[l - Len(stream)]
  <2>1. /\ stream \o bytes \in Seq(Byte) /\ Len(stream \o bytes) = Len(stream) + Len(bytes)
        /\ \A l \in 1..(Len(stream) + Len(bytes)) :
             (stream \o bytes)[l] = IF l <= Len(stream) THEN stream[l] ELSE bytes[l - Len(stream)]
    BY Domains, ConcatProperties
  <2> QED
    BY <1>1, <2>1
<1>5. /\ rest \in Seq(Byte) /\ Len(rest) = size - Room
      /\ \A l \in 1..(size - Room) : rest[l] = bytes[Room + l]
  BY <1>2, <1>3, Piece
<1>6. /\ new \in Fragment /\ Len(new.data) = size - Room /\ GetFree(new) >= 0
      /\ \A l \in 1..(size - Room) : new.data[l] = bytes[Room + l]
  <2>1. f.cap \in Nat /\ Len(f.data) = 0
    BY FragmentFields, EmptySeq
  <2>2. GetFree(f) = f.cap
    BY <2>1 DEF GetFree
  <2>3. Len(rest) = Smaller(Len(rest), GetFree(f)) /\ Len(rest) \in Nat /\ GetFree(f) >= 0
    BY <2>1, <2>2, <1>2, <1>3, <1>5 DEF Smaller
  <2> HIDE DEF rest
  <2>4. /\ new \in Fragment /\ new.cap = f.cap /\ new.off = f.off
        /\ Len(new.data) = Len(f.data) + Len(rest)
        /\ \A l \in 1..(Len(f.data) + Len(rest)) :
             new.data[l] = IF l <= Len(f.data) THEN f.data[l] ELSE rest[l - Len(f.data)]
    BY SMTT(40), <2>3, <1>5, PutAppends
  <2> HIDE DEF new
  <2>5. Len(new.data) = size - Room
    BY <2>1, <2>4, <1>2, <1>3, <1>5
  <2>6. GetFree(new) >= 0
    BY SMTT(40), <2>1, <2>4, <2>5, <1>2, <1>3 DEF GetFree
  <2>7. ASSUME NEW l \in 1..(size - Room) PROVE new.data[l] = bytes[Room + l]
    <3>1. l \in 1..(Len(f.data) + Len(rest)) /\ ~(l <= Len(f.data)) /\ l - Len(f.data) = l
      BY <2>1, <1>2, <1>3, <1>5
    <3> QED
      BY <3>1, <2>4, <1>5
  <2> QED
    BY <2>4, <2>5, <2>6, <2>7
<1>7. frags' = Append(fb, new)
  OBVIOUS
<1> HIDE DEF new, rest, size
<1>8. /\ fb \in Seq(Fragment) /\ Len(fb) = last
      /\ \A j \in 1..last :
           /\ fb[j] \in Fragment
           /\ fb[j].data # <<>>
           /\ GetFree(fb[j]) = IF j < last THEN 0 ELSE Room - Room
           /\ at[j] + Len(fb[j].data) = IF j < last THEN at[j + 1] ELSE Len(stream) + Room
           /\ \A k \in 1..last : j < k => at[j] + Len(fb[j].data) <= at[k]
           /\ at[j] + Len(fb[j].data) <= Len(stream) + Room
           /\ \A l \in 1..Len(fb[j].data) : fb[j].data[l] = stream'[at[j] + l]
  <2>1. Room = Smaller(Len(bytes), Room)
    BY <1>1, <1>2, <1>3, <1>4 DEF size
  <2>2. Filled(bytes) = fb /\ stream \o bytes = stream' /\ Room \in Nat
    BY <1>1, <1>2 DEF size
  <2> DEFINE m == Room
  <2>3. m \in Nat /\ m = Smaller(Len(bytes), Room)
    BY <2>1, <2>2
  <2> HIDE DEF m
  <2>4. /\ fb \in Seq(Fragment) /\ Len(fb) = last
        /\ \A j \in 1..last :
             /\ fb[j] \in Fragment
             /\ fb[j].data # <<>>
             /\ GetFree(fb[j]) = IF j < last THEN 0 ELSE Room - m
             /\ at[j] + Len(fb[j].data) = IF j < last THEN at[j + 1] ELSE Len(stream) + m
             /\ \A k \in 1..last : j < k => at[j] + Len(fb[j].data) <= at[k]
             /\ at[j] + Len(fb[j].data) <= Len(stream) + m
             /\ \A l \in 1..Len(fb[j].data) : fb[j].data[l] = (stream \o bytes)[at[j] + l]
    BY <2>3, FilledHolds
  <2> QED
    BY <2>2, <2>4 DEF m
<1> HIDE DEF fb
<1>9. /\ frags' \in Seq(Fragment) /\ Len(frags') = last + 1 /\ frags' # <<>>
      /\ frags'[last + 1] = new /\ \A j \in 1..last : frags'[j] = fb[j]
  <2>1. /\ Append(fb, new) \in Seq(Fragment) /\ Append(fb, new) # <<>>
        /\ Len(Append(fb, new)) = Len(fb) + 1
        /\ \A j \in 1..Len(fb) : Append(fb, new)[j] = fb[j]
        /\ Append(fb, new)[Len(fb) + 1] = new
    BY <1>6, <1>8, AppendProperties
  <2> QED
    BY <2>1, <1>7, <1>8
<1>10. /\ at' \in Seq(Nat) /\ Len(at') = last + 1
       /\ at'[last + 1] = Len(stream) + Room /\ \A j \in 1..last : at'[j] = at[j] /\ at[j] \in Nat
  <2>1. Len(stream) + Room \in Nat
    BY <1>2
  <2>2. /\ Append(at, Len(stream) + Room) \in Seq(Nat)
        /\ Len(Append(at, Len(stream) + Room)) = Len(at) + 1
        /\ \A j \in 1..Len(at) : Append(at, Len(stream) + Room)[j] = at[j]
        /\ Append(at, Len(stream) + Room)[Len(at) + 1] = Len(stream) + Room
    BY <2>1, Domains, AppendProperties
  <2> QED
    BY <2>2, Domains
<1>11. DOMAIN frags' = 1..(last + 1) /\ DOMAIN at' = 1..(last + 1)
  BY <1>9, <1>10, LenProperties
<1> HIDE DEF last
<1>12. last \in Nat /\ last = Len(frags)
  BY <1>2 DEF last
<1>13. \A j \in 1..(last + 1) : j \in 1..last \/ j = last + 1
  BY <1>12
<1>14. TypeOK'
  BY <1>1, <1>2, <1>4, <1>9, <1>10, EmptySeq DEF IInv, TypeOK
<1>15. \A j \in 1..(last + 1) : /\ frags'[j].data # <<>> /\ frags'[j] \in Fragment
                                /\ Len(frags'[j].data) \in Nat
                                /\ DOMAIN frags'[j].data = 1..Len(frags'[j].data)
  <2>1. new.data # <<>>
    BY <1>2, <1>3, <1>6, EmptySeq
  <2>2. \A j \in 1..(last + 1) : frags'[j].data # <<>> /\ frags'[j] \in Fragment
    BY <2>1, <1>6, <1>8, <1>9, <1>13
  <2> QED
    BY <2>2, FragmentFields
<1>16. Packed'
  <2>1. ASSUME NEW j \in 1..(last + 1)
        PROVE  GetFree(frags'[j]) >= 0 /\ (j < last + 1 => GetFree(frags'[j]) = 0)
    <3>1. CASE j \in 1..last
      <4>1. GetFree(fb[j]) = 0
        BY <3>1, <1>2, <1>8
      <4> QED
        BY <3>1, <4>1, <1>9
    <3>2. CASE j = last + 1
      BY <3>2, <1>6, <1>9, <1>12
    <3> QED
      BY <3>1, <3>2, <1>13
  <2> QED
    BY <2>1, <1>9, <1>11, <1>15 DEF Packed, GetFree
<1>17. ASSUME NEW j \in 1..(last + 1)
       PROVE  at'[j] + Len(frags'[j].data) = IF j < last + 1 THEN at'[j + 1] ELSE Len(stream')
  <2>1. CASE j \in 1..last /\ j < last
    <3>1. j + 1 \in 1..last /\ j < last + 1
      BY <2>1, <1>12
    <3> QED
      BY <2>1, <3>1, <1>8, <1>9, <1>10
  <2>2. CASE j \in 1..last /\ ~(j < last)
    <3>1. j = last /\ j < last + 1
      BY <2>2, <1>12
    <3> QED
      BY <2>2, <3>1, <1>8, <1>9, <1>10
  <2>3. CASE j = last + 1
    <3>1. ~(j < last + 1) /\ (Len(stream) + Room) + (size - Room) = Len(stream) + size
      BY <2>3, <1>2, <1>12 DEF size
    <3> QED
      BY <2>3, <3>1, <1>4, <1>6, <1>9, <1>10
  <2> QED
    BY <2>1, <2>2, <2>3, <1>13
<1>18. ASSUME NEW j \in 1..(last + 1)
       PROVE  \A l \in 1..Len(frags'[j].data) : frags'[j].data[l] = stream'[at'[j] + l]
  <2>1. CASE j \in 1..last
    <3>1. at'[j] = at[j] /\ frags'[j] = fb[j]
      BY <2>1, <1>9, <1>10
    <3>2. ASSUME NEW l \in 1..Len(fb[j].data) PROVE fb[j].data[l] = stream'[at[j] + l]
      BY <2>1, <1>8
    <3> QED
      BY <3>1, <3>2
  <2>2. CASE j = last + 1
    <3>1. frags'[j] = new /\ at'[j] = Len(stream) + Room
      BY <2>2, <1>9, <1>10
    <3>2. ASSUME NEW l \in 1..(size - Room) PROVE new.data[l] = stream'[(Len(stream) + Room) + l]
      <4>1. /\ (Len(stream) + Room) + l \in 1..(Len(stream) + size)
            /\ ~((Len(stream) + Room) + l <= Len(stream))
            /\ ((Len(stream) + Room) + l) - Len(stream) = Room + l
        BY <1>2, <1>3 DEF size
      <4> QED
        BY <4>1, <1>4, <1>6
    <3> QED
      BY <3>1, <3>2, <1>6
  <2> QED
    BY <2>1, <2>2, <1>13
<1>19. Ordered'
  <2>1. ASSUME NEW j \in 1..(last + 1), NEW k \in 1..(last + 1), j < k
        PROVE  at'[j] + Len(frags'[j].data) <= at'[k]
    <3>1. j \in 1..last
      BY <2>1, <1>12
    <3>2. CASE k \in 1..last
      BY <2>1, <3>1, <3>2, <1>8, <1>9, <1>10
    <3>3. CASE k = last + 1
      BY <3>1, <3>3, <1>8, <1>9, <1>10
    <3> QED
      BY <3>2, <3>3, <1>13
  <2>2. ASSUME NEW j \in 1..(last + 1)
        PROVE  at'[j] + Len(frags'[j].data) <= Len(stream')
    <3>1. Len(stream) + Room <= Len(stream') /\ Len(stream') \in Nat
      BY <1>2, <1>3, <1>4 DEF size
    <3>2. CASE j \in 1..last
      <4>1. at[j] + Len(fb[j].data) <= Len(stream) + Room /\ at[j] \in Nat
            /\ Len(fb[j].data) \in Nat
        BY <3>2, <1>8, <1>10, FragmentFields
      <4>2. at[j] + Len(fb[j].data) <= Len(stream')
        BY SMTT(40), <3>1, <4>1, <1>2
      <4>3. at'[j] = at[j] /\ frags'[j] = fb[j]
        BY <3>2, <1>9, <1>10
      <4> QED
        BY <4>2, <4>3
    <3>3. CASE j = last + 1
      <4>1. ~(j < last + 1)
        BY <3>3, <1>12
      <4>2. at'[j] + Len(frags'[j].data) = Len(stream')
        BY <4>1, <1>17
      <4>3. Len(stream') <= Len(stream')
        BY <3>1
      <4> QED
        BY <4>2, <4>3
    <3> QED
      BY <3>2, <3>3, <1>13
  <2> QED
    BY <2>1, <2>2, <1>11 DEF Ordered
<1>20. Fifo'
  <2>1. at'[1] = 0
    <3>1. CASE last = 0
      <4>1. frags = <<>> /\ stream = <<>>
        BY <3>1, <1>12, Domains, EmptySeq, SeqEqual DEF IInv, Fifo
      <4>2. Len(stream) = 0 /\ Room = 0 /\ last + 1 = 1
        BY <3>1, <4>1, EmptySeq DEF Room
      <4> QED
        BY <4>2, <1>10
    <3>2. CASE last # 0
      <4>1. 1 \in 1..last /\ frags # <<>>
        BY <3>2, <1>12, EmptySeq
      <4>2. at[1] = 0
        BY <4>1 DEF IInv, Fifo
      <4> QED
        BY <4>1, <4>2, <1>10
    <3> QED
      BY <3>1, <3>2
  <2>2. ASSUME NEW j \in 1..(last + 1) PROVE End(j)' = IF j < last + 1 THEN at'[j + 1] ELSE Len(stream')
    <3>1. (j < last + 1) <=> (j # last + 1)
      BY <1>12
    <3> QED
      BY <3>1, <1>9 DEF End
  <2>3. ASSUME NEW j \in 1..(last + 1)
        PROVE  /\ at'[j] + Len(frags'[j].data) = End(j)'
               /\ \A l \in DOMAIN frags'[j].data : frags'[j].data[l] = stream'[at'[j] + l]
    BY ZenonT(40), <2>2, <1>15, <1>17, <1>18
  <2> QED
    BY <2>1, <2>3, <1>9, <1>10, <1>11 DEF Fifo
<1>21. Locals' /\ CopyLoop'
  BY <1>1 DEF IInv, Locals, CopyLoop
<1> QED
  BY <1>14, <1>16, <1>19, <1>20, <1>21 DEF IInv

\* A write that fails leaves the list as it was.
LEMMA FailedWriteStep ==
  ASSUME IInv, pc = "ready", cache' \in Fragment \cup {Null}, ret' = 0,
         UNCHANGED <<frags, historyVars>>, out' = <<>>, UNCHANGED localVars
  PROVE  IInv'
<1>1. Packed' /\ Fifo' /\ Ordered'
  BY ObjectKept DEF localVars, historyVars
<1>2. TypeOK'
  BY EmptySeq DEF IInv, TypeOK, localVars, historyVars
<1>3. Locals' /\ CopyLoop'
  BY DEF IInv, Locals, CopyLoop, localVars
<1> QED
  BY <1>1, <1>2, <1>3 DEF IInv

LEMMA InputsAreBytes ==
  ASSUME NEW bytes \in Inputs
  PROVE  bytes \in Seq(Byte) /\ \E len \in 1..MaxLen : bytes \in [1..len -> Byte]
<1>1. PICK len \in 1..MaxLen : bytes \in [1..len -> Byte]
  BY DEF Inputs
<1>2. len \in Nat
  BY BufferAssumption
<1> QED
  BY <1>1, <1>2, SeqDef

LEMMA WriteStep ==
  ASSUME "array" \notin Fails, IInv, NEW bytes \in Inputs, Write(bytes)
  PROVE  IInv'
<1>1. pc = "ready" /\ bytes # <<>> /\ out' = <<>> /\ UNCHANGED localVars
  BY DEF Write
<1>2. bytes \in Seq(Byte)
  BY InputsAreBytes
<1>3. CASE WriteBack(bytes)
  BY <1>1, <1>2, <1>3, WriteBackStep
<1>4. CASE WriteGrow(bytes)
  <2>1. frags = <<>> \/ Room < Len(bytes)
    BY <1>4 DEF WriteGrow
  <2>2. PICK c \in Create(GrowBy(Len(bytes))) :
          /\ cache' = c[2]
          /\ \/ /\ c[1] # Null
                /\ frags' = Append(FillBack(bytes), Put(c[1], SubSeq(bytes, Room + 1, Len(bytes))))
                /\ Accepted(bytes)
                /\ at' = Append(at, Len(stream) + Room)
             \/ /\ c[1] = Null \/ "node" \in Fails
                /\ ret' = 0
                /\ UNCHANGED <<frags, historyVars>>
    BY <1>4 DEF WriteGrow
  <2>3. GrowBy(Len(bytes)) \in Nat /\ GrowBy(Len(bytes)) >= Len(bytes) - Room
    <3>1. Len(bytes) \in Nat /\ Room \in Nat /\ Capacity \in Nat
      BY <1>2, LenProperties, RoomIsFree, BufferAssumption
    <3>2. frags = <<>> => Room = 0
      BY DEF Room
    <3> QED
      BY <2>1, <3>1, <3>2 DEF GrowBy
  <2>4. cache \in Fragment \cup {Null}
    BY DEF IInv, TypeOK
  <2>5. /\ c[2] \in Fragment \cup {Null}
        /\ c[1] # Null => /\ c[1] \in Fragment /\ c[1].off = 0
                          /\ c[1].data = <<>> /\ c[1].cap >= GrowBy(Len(bytes))
    BY <2>2, <2>3, <2>4, CreateGives
  <2>6. CASE c[1] # Null /\ Accepted(bytes) /\ at' = Append(at, Len(stream) + Room)
             /\ frags' = Append(Filled(bytes), Put(c[1], SubSeq(bytes, Room + 1, Len(bytes))))
    <3>1. c[1] \in Fragment /\ c[1].off = 0 /\ c[1].data = <<>>
      BY <2>5, <2>6
    <3>2. c[1].cap >= Len(bytes) - Room
      <4>1. c[1].cap \in Nat /\ Len(bytes) \in Nat /\ Room \in Nat /\ c[1].cap >= GrowBy(Len(bytes))
        BY <1>2, <2>5, <2>6, <3>1, FragmentFields, LenProperties, RoomIsFree
      <4> QED
        BY <4>1, <2>3
    <3> QED
      BY <1>1, <1>2, <2>1, <2>2, <2>5, <2>6, <3>1, <3>2, GrowStep
  <2>7. CASE ret' = 0 /\ UNCHANGED <<frags, historyVars>>
    BY <1>1, <2>2, <2>5, <2>7, FailedWriteStep
  <2> QED
    BY <2>2, <2>6, <2>7 DEF FillBack
<1> QED
  BY <1>3, <1>4 DEF Write

LEMMA StutterStep ==
  ASSUME IInv, UNCHANGED vars
  PROVE  IInv'
<1> USE DEF vars, objectVars, localVars, historyVars
<1>1. Packed' /\ Fifo' /\ Ordered'
  BY ObjectKept
<1>2. TypeOK'
  BY DEF IInv, TypeOK
<1>3. Locals' /\ CopyLoop'
  BY DEF IInv, Locals, CopyLoop, CopyDone
<1> QED
  BY <1>1, <1>2, <1>3 DEF IInv

LEMMA NextHolds ==
  ASSUME "array" \notin Fails, IInv, [Next]_vars
  PROVE  IInv'
<1>1. ASSUME NEW bytes \in Inputs, Write(bytes) PROVE IInv'
  BY <1>1, WriteStep
<1>2. ASSUME NEW len \in 0..MaxLen, ReadCall(len) PROVE IInv'
  BY <1>2, ReadCallStep
<1>3. ASSUME NEW len \in 0..MaxLen, NEW s \in Skips, CopyCall(s, len) PROVE IInv'
  BY <1>3, CopyCallStep
<1>4. CASE ReadSome
  BY <1>4, ReadSomeStep
<1>5. CASE PopFront
  BY <1>5, PopFrontStep
<1>6. CASE ReadReturn
  BY <1>6, ReturnStep DEF ReadReturn
<1>7. CASE CopyStep
  BY <1>7, CopyStepHolds
<1>8. CASE CopyReturn
  BY <1>8, ReturnStep DEF CopyReturn
<1>9. ASSUME NEW clearcache \in BOOLEAN, Reset(clearcache) PROVE IInv'
  BY <1>9, ResetStep
<1>10. CASE ResetCache
  BY <1>10, ResetCacheStep
<1>11. CASE UNCHANGED vars
  BY <1>11, StutterStep
<1> QED
  BY <1>1, <1>2, <1>3, <1>4, <1>5, <1>6, <1>7, <1>8, <1>9, <1>10, <1>11 DEF Next

-----------------------------------------------------------------------------
\* IInv holds always, when the array of a fragment can be had.
THEOREM BufferInvariance == ASSUME "array" \notin Fails PROVE Spec => []IInv
<1>1. Init => IInv
  BY InitHolds
<1>2. IInv /\ [Next]_vars => IInv'
  BY NextHolds
<1> QED
  BY <1>1, <1>2, PTL DEF Spec

\* No memcpy leaves its array, and only the last fragment has free room.
THEOREM BufferPacked == ASSUME "array" \notin Fails PROVE Spec => []Packed
<1>1. IInv => Packed
  BY DEF IInv
<1> QED
  BY <1>1, BufferInvariance, PTL

\* The fragments hold the bytes of the stream, in order.
THEOREM BufferFifo == ASSUME "array" \notin Fails PROVE Spec => []Fifo
<1>1. IInv => Fifo
  BY DEF IInv
<1> QED
  BY <1>1, BufferInvariance, PTL

-----------------------------------------------------------------------------
\* The two parts of a concatenation.
LEMMA PartsOfConcat ==
  ASSUME NEW S, NEW s \in Seq(S), NEW t \in Seq(S)
  PROVE  /\ s \o t \in Seq(S) /\ Len(s \o t) = Len(s) + Len(t)
         /\ Len(s) \in Nat /\ Len(t) \in Nat
         /\ SubSeq(s \o t, 0 + 1, Len(s)) = s
         /\ SubSeq(s \o t, Len(s) + 1, Len(s) + Len(t)) = t
<1> DEFINE st == s \o t
<1>1. /\ st \in Seq(S) /\ Len(st) = Len(s) + Len(t) /\ Len(s) \in Nat /\ Len(t) \in Nat
      /\ \A j \in 1..(Len(s) + Len(t)) : st[j] = IF j <= Len(s) THEN s[j] ELSE t[j - Len(s)]
  BY ConcatProperties, LenProperties
<1> HIDE DEF st
<1>2. SubSeq(st, 0 + 1, Len(s)) = s
  <2>1. Len(s) <= Len(st)
    BY <1>1
  <2>2. /\ SubSeq(st, 0 + 1, Len(s)) \in Seq(S)
        /\ Len(SubSeq(st, 0 + 1, Len(s))) = IF 0 <= Len(s) THEN Len(s) - 0 ELSE 0
        /\ \A j \in 1..Len(SubSeq(st, 0 + 1, Len(s))) : SubSeq(st, 0 + 1, Len(s))[j] = st[0 + j]
    BY <1>1, <2>1, Piece
  <2> DEFINE p == SubSeq(st, 0 + 1, Len(s))
  <2>3. p \in Seq(S) /\ Len(p) = Len(s) /\ \A j \in 1..Len(s) : p[j] = st[0 + j]
    BY <1>1, <2>2
  <2> HIDE DEF p
  <2>4. \A j \in 1..Len(s) : p[j] = s[j]
    BY <1>1, <2>3
  <2>5. p = s
    BY <2>3, <2>4, SeqEqual
  <2> QED
    BY <2>5 DEF p
<1>3. SubSeq(st, Len(s) + 1, Len(s) + Len(t)) = t
  <2>1. Len(s) + Len(t) \in Nat /\ Len(s) + Len(t) <= Len(st) /\ Len(s) <= Len(s) + Len(t)
    BY <1>1
  <2> DEFINE b == Len(s) + Len(t)
             p == SubSeq(st, Len(s) + 1, b)
  <2>2. b \in Nat /\ b <= Len(st) /\ Len(s) <= b /\ b - Len(s) = Len(t)
    BY <1>1, <2>1
  <2> HIDE DEF b
  <2>3. p \in Seq(S) /\ Len(p) = Len(t) /\ \A j \in 1..Len(t) : p[j] = st[Len(s) + j]
    <3>1. /\ SubSeq(st, Len(s) + 1, b) \in Seq(S)
          /\ Len(SubSeq(st, Len(s) + 1, b)) = IF Len(s) <= b THEN b - Len(s) ELSE 0
          /\ \A j \in 1..Len(SubSeq(st, Len(s) + 1, b)) :
               SubSeq(st, Len(s) + 1, b)[j] = st[Len(s) + j]
      BY SMTT(40), <1>1, <2>2, Piece
    <3> QED
      BY <2>2, <3>1
  <2> HIDE DEF p
  <2>4. ASSUME NEW j \in 1..Len(t) PROVE p[j] = t[j]
    <3>1. Len(s) + j \in 1..(Len(s) + Len(t)) /\ ~(Len(s) + j <= Len(s)) /\ (Len(s) + j) - Len(s) = j
      BY <1>1
    <3> QED
      BY <3>1, <1>1, <2>3
  <2>5. p = t
    BY <2>3, <2>4, SeqEqual
  <2> QED
    BY <2>5 DEF p, b
<1> QED
  BY <1>1, <1>2, <1>3 DEF st

\* A read gives the front of the stream.
LEMMA FrontOfStream ==
  ASSUME IInv, NEW k \in Nat, frags # <<>>, k <= Len(frags[1].data)
  PROVE  Peek(frags[1], 0, k) = SubSeq(stream, 0 + 1, k) /\ k <= Len(stream)
<1>1. /\ 1 \in 1..Len(frags) /\ frags[1] \in Fragment /\ at[1] = 0 /\ 1 \in DOMAIN frags
      /\ stream \in Seq(Byte) /\ Len(stream) \in Nat
  BY Domains DEF IInv, Fifo
<1>2. Len(frags[1].data) \in Nat /\ DOMAIN frags[1].data = 1..Len(frags[1].data)
  BY <1>1, FragmentFields
<1>3. /\ at[1] + Len(frags[1].data) <= Len(stream)
      /\ \A j \in 1..Len(frags[1].data) : frags[1].data[j] = stream[at[1] + j]
  BY <1>1, <1>2, Domains DEF IInv, Ordered, Fifo
<1>4. k <= Len(stream) /\ \A j \in 1..k : frags[1].data[j] = stream[0 + j]
  BY <1>1, <1>2, <1>3
<1> DEFINE p == Peek(frags[1], 0, k)
           q == SubSeq(stream, 0 + 1, k)
<1>5. p \in Seq(Byte) /\ Len(p) = k /\ \A j \in 1..k : p[j] = frags[1].data[j]
  <2>1. Smaller(k, Len(frags[1].data)) = k
    BY <1>2 DEF Smaller
  <2> QED
    BY <1>1, <2>1, PeekShows
<1>6. q \in Seq(Byte) /\ Len(q) = k /\ \A j \in 1..k : q[j] = stream[0 + j]
  BY <1>1, <1>4, Piece
<1> HIDE DEF p, q
<1>7. p = q
  BY <1>4, <1>5, <1>6, SeqEqual
<1> QED
  BY <1>4, <1>7 DEF p, q

\* Bytes move from the fragments to the caller: the stream as its user knows it is the same.
LEMMA ReadSomeKeeps ==
  ASSUME IInv, ReadSome
  PROVE  got' \o stream' = got \o stream
<1> DEFINE k == Smaller(want, Len(frags[1].data))
<1>0. frags # <<>>
  BY DEF ReadSome
<1>2. k \in Nat /\ k <= Len(frags[1].data)
  <2>1. want \in Nat /\ Len(frags[1].data) \in Nat
    BY <1>0, Domains, FragmentFields DEF IInv, TypeOK
  <2> QED
    BY <2>1 DEF Smaller
<1>1. /\ frags # <<>> /\ got' = got \o Peek(frags[1], 0, k)
      /\ stream' = SubSeq(stream, k + 1, Len(stream))
  <2>1. at[1] + k = k
    BY <1>0, <1>2, Domains DEF IInv, Fifo
  <2> QED
    BY <1>0, <2>1 DEF ReadSome
<1> HIDE DEF k
<1> DEFINE p == SubSeq(stream, 0 + 1, k)
           q == SubSeq(stream, k + 1, Len(stream))
<1>3. Peek(frags[1], 0, k) = p /\ k <= Len(stream) /\ stream \in Seq(Byte) /\ got \in Seq(Byte)
      /\ Len(stream) \in Nat
  BY <1>1, <1>2, FrontOfStream, Domains
<1>4. p \in Seq(Byte) /\ q \in Seq(Byte)
  BY <1>2, <1>3, Piece
<1>5. p \o q = stream
  <2> DEFINE m == 0 + 1
             b == Len(stream)
  <2>1. m \in 1..(Len(stream) + 1) /\ k \in (m - 1)..Len(stream) /\ b \in k..Len(stream)
    BY <1>2, <1>3
  <2> HIDE DEF m, b
  <2>4. SubSeq(stream, m, k) \o SubSeq(stream, k + 1, b) = SubSeq(stream, m, b)
    BY <1>3, <2>1, ConcatAdjacentSubSeq
  <2>2. SubSeq(stream, 0 + 1, k) \o SubSeq(stream, k + 1, Len(stream)) = SubSeq(stream, 0 + 1, Len(stream))
    BY <2>4 DEF m, b
  <2>3. SubSeq(stream, 0 + 1, Len(stream)) = stream
    <3>1. 0 + 1 = 1
      OBVIOUS
    <3> QED
      BY <1>3, <3>1, SubSeqFull
  <2> QED
    BY <2>2, <2>3
<1> HIDE DEF p, q
<1>6. got' \o stream' = (got \o p) \o q
  BY <1>1, <1>3 DEF q
<1>7. (got \o p) \o q = got \o (p \o q)
  BY SMTT(40), <1>3, <1>4, ConcatAssociative
<1> QED
  BY <1>5, <1>6, <1>7

\* The stream as its user knows it: what a read in progress has taken is still in it.
Known == IF pc = "read" THEN got \o stream ELSE stream
Visible == <<Known, ret, out, pc, n, from>>

LEMMA InitRefines == Init => Stream!Init
BY DEF Init, Stream!Init

\* The call returns the bytes a stream would.
LEMMA ReadReturns ==
  ASSUME IInv, ReadReturn
  PROVE  Stream!Read
<1>1. /\ pc = "read" /\ ReadDone /\ ret' = Len(got) /\ out' = got /\ pc' = "ready" /\ stream' = stream
      /\ n' = 0 /\ from' = 0
  BY DEF ReadReturn, Return, historyVars
<1>2. /\ got \in Seq(Byte) /\ stream \in Seq(Byte) /\ Len(got) \in Nat /\ Len(stream) \in Nat
      /\ n \in Nat /\ want \in Nat /\ n = want + Len(got)
  BY <1>1, Domains DEF IInv, TypeOK, Locals
<1> DEFINE all == got \o stream
<1>3. /\ Len(all) = Len(got) + Len(stream)
      /\ SubSeq(all, 0 + 1, Len(got)) = got
      /\ SubSeq(all, Len(got) + 1, Len(all)) = stream
  BY <1>2, PartsOfConcat
<1>4. (IF pc = "read" THEN got \o stream ELSE stream) = all
      /\ (IF pc' = "read" THEN got' \o stream' ELSE stream') = stream
  BY <1>1
<1> HIDE DEF all
<1>5. (IF 0 + n <= Len(all) THEN n ELSE Len(all)) = Len(got)
  <2>1. CASE want = 0
    BY <2>1, <1>2, <1>3
  <2>2. CASE want # 0
    <3>1. frags = <<>>
      BY <2>2, <1>1 DEF ReadDone
    <3>2. Len(stream) = 0
      BY <3>1, EmptySeq DEF IInv, Fifo
    <3> QED
      BY <2>2, <3>2, <1>2, <1>3
  <2> QED
    BY <2>1, <2>2
<1>6. 0 + n = n
  BY <1>2
<1>7. Stream!Window(0, n) = got
  BY <1>3, <1>4, <1>5, <1>6 DEF Stream!Window
<1> QED
  BY <1>1, <1>3, <1>4, <1>7 DEF Stream!Read, Stream!Answer

LEMMA CopyReturns ==
  ASSUME IInv, Skips = {0}, CopyReturn
  PROVE  Stream!Copy
<1>1. /\ pc = "copy" /\ CopyDone /\ ret' = Len(got) /\ out' = got /\ pc' = "ready" /\ stream' = stream
      /\ n' = 0 /\ from' = 0
  BY DEF CopyReturn, Return, historyVars
<1>2. /\ got \in Seq(Byte) /\ stream \in Seq(Byte) /\ Len(got) \in Nat /\ Len(stream) \in Nat
      /\ n \in Nat /\ want \in Nat /\ n = want + Len(got) /\ from = 0 /\ DOMAIN got = 1..Len(got)
  BY <1>1, Domains DEF IInv, TypeOK, Locals
<1>3. /\ Len(got) <= Len(stream)
      /\ \A j \in 1..Len(got) : got[j] = stream[j]
      /\ want = 0 \/ Len(got) = Len(stream)
  BY <1>1, <1>2 DEF IInv, CopyLoop
<1> DEFINE p == SubSeq(stream, 0 + 1, Len(got))
<1>4. p = got
  <2>1. p \in Seq(Byte) /\ Len(p) = Len(got) /\ \A j \in 1..Len(got) : p[j] = stream[0 + j]
    BY <1>2, <1>3, Piece
  <2> HIDE DEF p
  <2>2. \A j \in 1..Len(got) : got[j] = p[j]
    BY <1>2, <1>3, <2>1
  <2> QED
    BY <1>2, <2>1, <2>2, SeqEqual
<1>5. (IF 0 + n <= Len(stream) THEN 0 + n ELSE Len(stream)) = Len(got)
  <2>1. CASE want = 0
    BY <2>1, <1>2, <1>3
  <2>2. CASE want # 0 /\ Len(got) = Len(stream)
    <3>1. want > 0 /\ n = want + Len(stream)
      BY <2>2, <1>2
    <3>2. ~(0 + n <= Len(stream))
      BY <3>1, <1>2
    <3> QED
      BY <2>2, <3>2
  <2> QED
    BY <2>1, <2>2, <1>3
<1>6. /\ (IF pc = "read" THEN got \o stream ELSE stream) = stream
      /\ (IF pc' = "read" THEN got' \o stream' ELSE stream') = stream
  BY <1>1
<1>7. Stream!Window(0, n) = got
  BY <1>4, <1>5, <1>6 DEF Stream!Window
<1> QED
  BY <1>1, <1>2, <1>6, <1>7 DEF Stream!Copy, Stream!Answer

LEMMA StepRefines ==
  ASSUME Skips = {0}, IInv, [Next]_vars
  PROVE  [Stream!Next]_Visible
<1> SUFFICES Stream!Next \/ UNCHANGED Visible
  OBVIOUS
<1>1. ASSUME NEW bytes \in Inputs, Write(bytes) PROVE Stream!Next
  <2>1. \E len \in 1..MaxLen : bytes \in [1..len -> Byte]
    BY InputsAreBytes
  <2>2. pc = "ready" /\ pc' = "ready" /\ n' = n /\ from' = from /\ out' = <<>>
    BY <1>1 DEF Write, localVars
  <2>3. \/ stream' = stream \o bytes /\ ret' = Len(bytes)
        \/ stream' = stream /\ ret' = 0
    BY <1>1 DEF Write, WriteBack, WriteGrow, Accepted, historyVars
  <2>4. Stream!Write(bytes)
    BY <2>2, <2>3 DEF Stream!Write
  <2> QED
    BY <2>1, <2>4 DEF Stream!Next
<1>2. ASSUME NEW len \in 0..MaxLen, ReadCall(len) PROVE Stream!Next
  <2>1. got = <<>> /\ pc = "ready" /\ from = 0
    BY <1>2 DEF ReadCall, IInv, Locals
  <2>2. pc' = "read" /\ n' = len /\ from' = from /\ UNCHANGED <<got, stream, ret, out>>
    BY <1>2 DEF ReadCall, historyVars
  <2>3. got \o stream = stream
    BY <2>1, Domains, ConcatEmptySeq
  <2>4. Stream!Ask("read", len, 0)
    BY <2>1, <2>2, <2>3 DEF Stream!Ask
  <2> QED
    BY <2>4 DEF Stream!Next
<1>3. ASSUME NEW len \in 0..MaxLen, NEW s \in Skips, CopyCall(s, len) PROVE Stream!Next
  <2>1. Stream!Ask("copy", len, s)
    BY <1>3 DEF CopyCall, Stream!Ask, historyVars
  <2> QED
    BY <2>1 DEF Stream!Next
<1>4. CASE ReadSome
  BY <1>4, ReadSomeKeeps DEF ReadSome, Visible, Known
<1>5. CASE PopFront
  BY <1>5 DEF PopFront, Visible, Known, localVars
<1>6. CASE ReadReturn
  BY <1>6, ReadReturns DEF Stream!Next
<1>7. CASE CopyStep
  BY <1>7 DEF CopyStep, Visible, Known, historyVars
<1>8. CASE CopyReturn
  BY <1>8, CopyReturns DEF Stream!Next
<1>9. ASSUME NEW clearcache \in BOOLEAN, Reset(clearcache) PROVE Stream!Next
  BY <1>9 DEF Reset, localVars, Stream!Next, Stream!Clear
<1>10. CASE ResetCache
  BY <1>10 DEF ResetCache, Visible, Known, localVars, historyVars
<1>11. CASE UNCHANGED vars
  BY <1>11 DEF vars, Visible, Known, localVars, historyVars
<1> QED
  BY <1>1, <1>2, <1>3, <1>4, <1>5, <1>6, <1>7, <1>8, <1>9, <1>10, <1>11 DEF Next

\* Without a skip, and when arrays can be had, buffer_t is the byte stream of ByteStream.
THEOREM BufferIsByteStream ==
  ASSUME "array" \notin Fails, Skips = {0}
  PROVE  Spec => StreamSpec
<1>1. Init => Stream!Init
  BY InitRefines
<1>2. IInv /\ [Next]_vars => [Stream!Next]_Visible
  BY StepRefines
<1> QED
  BY <1>1, <1>2, BufferInvariance, PTL DEF Spec, StreamSpec, Stream!Spec, Stream!vars, Visible, Known
-----------------------------------------------------------------------------
(* Whatever allocation fails                                                 *)

\* Fragment f holds what stream s has from place a on, and stays inside its array.
Holds(f, a, s) ==
  /\ f \in Fragment /\ a \in Nat /\ GetFree(f) >= 0
  /\ a + Len(f.data) <= Len(s)
  /\ \A l \in 1..Len(f.data) : f.data[l] = s[a + l]

\* The fragments lie one after the other in the stream.
Laid ==
  /\ frags \in Seq(Fragment) /\ at \in Seq(Nat) /\ stream \in Seq(Byte)
  /\ Len(at) = Len(frags)
  /\ \A j \in 1..Len(frags) : Holds(frags[j], at[j], stream)
  /\ \A j, k \in 1..Len(frags) : j < k => at[j] + Len(frags[j].data) <= at[k]

\* Places counted from a, of which the first b lie before c.
LEMMA Sums ==
  ASSUME NEW a \in Nat, NEW b \in Nat, NEW c \in Nat, NEW m \in Nat, NEW o \in Nat,
         a + b <= c, m <= o, m = 0 \/ a + b = c
  PROVE  /\ a + (b + m) <= c + m /\ a + (b + m) <= c + o
         /\ \A l \in 1..(b + m) : ~(l <= b) => /\ a + l \in 1..c + o /\ ~(a + l <= c)
                                              /\ (a + l) - c = l - b
OBVIOUS

\* A place at most d after a.
LEMMA Within ==
  ASSUME NEW a \in Nat, NEW d \in Nat, NEW l \in Nat, NEW k \in 0..d, a + d <= l
  PROVE  /\ a + k \in Nat /\ a + k <= l /\ a <= a + k /\ (a + k) - a = k /\ a + k <= a + d
         /\ a \in 0..l /\ a + k \in 0..l
OBVIOUS

LEMMA LessThanSum ==
  ASSUME NEW a \in Nat, NEW d \in Nat, NEW l \in Nat, NEW m \in Nat, a + d <= l
  PROVE  a + d <= l + m
OBVIOUS

LEMMA BothShifted ==
  ASSUME NEW a \in Nat, NEW d \in Nat, NEW b \in Nat, NEW c \in Nat, a + d <= c
  PROVE  (a + d) - b <= c - b
OBVIOUS

LEMMA FreeIsInt ==
  ASSUME NEW f \in Fragment
  PROVE  GetFree(f) \in Int
BY FragmentFields DEF GetFree

LEMMA HoldsLonger ==
  ASSUME NEW f, NEW a, NEW s \in Seq(Byte), NEW t \in Seq(Byte), Holds(f, a, s)
  PROVE  Holds(f, a, s \o t)
<1>1. /\ Len(s \o t) = Len(s) + Len(t) /\ Len(s) \in Nat /\ Len(t) \in Nat
      /\ \A l \in 1..Len(s) + Len(t) : (s \o t)[l] = IF l <= Len(s) THEN s[l] ELSE t[l - Len(s)]
  BY ConcatProperties, LenProperties
<1>2. /\ f \in Fragment /\ a \in Nat /\ GetFree(f) >= 0 /\ Len(f.data) \in Nat
      /\ a + Len(f.data) <= Len(s) /\ \A l \in 1..Len(f.data) : f.data[l] = s[a + l]
  BY FragmentFields DEF Holds
<1> DEFINE st == s \o t
<1> HIDE DEF st
<1>3. ASSUME NEW l \in 1..Len(f.data) PROVE f.data[l] = st[a + l]
  <2>1. a + l \in 1..Len(s) + Len(t) /\ a + l <= Len(s)
    BY <1>1, <1>2
  <2> QED
    BY <2>1, <1>1, <1>2 DEF st
<1>4. a + Len(f.data) <= Len(st)
  BY <1>1, <1>2 DEF st
<1> QED
  BY <1>2, <1>3, <1>4 DEF Holds, st

\* The first b bytes of the stream go, none of them in the fragment.
LEMMA HoldsShifted ==
  ASSUME NEW f, NEW a \in Nat, NEW s \in Seq(Byte), NEW b \in 0..a, Holds(f, a, s)
  PROVE  Holds(f, a - b, SubSeq(s, b + 1, Len(s)))
<1> DEFINE t == SubSeq(s, b + 1, Len(s))
<1>1. /\ f \in Fragment /\ GetFree(f) >= 0 /\ Len(f.data) \in Nat /\ Len(s) \in Nat
      /\ a + Len(f.data) <= Len(s) /\ \A l \in 1..Len(f.data) : f.data[l] = s[a + l]
  BY FragmentFields, LenProperties DEF Holds
<1>2. Len(t) = Len(s) - b /\ \A l \in 1..(Len(s) - b) : t[l] = s[b + l]
  <2>1. b \in Nat /\ b <= Len(s)
    BY <1>1
  <2> QED
    BY <2>1, <1>1, Piece
<1> HIDE DEF t
<1>3. ASSUME NEW l \in 1..Len(f.data) PROVE f.data[l] = t[(a - b) + l]
  <2>1. (a - b) + l \in 1..(Len(s) - b) /\ b + ((a - b) + l) = a + l
    BY <1>1
  <2> QED
    BY <2>1, <1>1, <1>2
<1>4. a - b \in Nat /\ (a - b) + Len(f.data) <= Len(t)
  BY <1>1, <1>2
<1> QED
  BY <1>1, <1>3, <1>4 DEF Holds, t

\* k bytes are taken from a fragment, and the stream begins after them.
LEMMA HoldsDropped ==
  ASSUME NEW f \in Fragment, NEW a \in Nat, NEW s \in Seq(Byte), NEW k \in 0..Len(f.data),
         Holds(f, a, s)
  PROVE  Holds(Drop(f, k), 0, SubSeq(s, a + k + 1, Len(s)))
<1> DEFINE t == SubSeq(s, a + k + 1, Len(s))
           d == Drop(f, k)
<1>1. /\ GetFree(f) >= 0 /\ Len(f.data) \in Nat /\ Len(s) \in Nat
      /\ f.cap \in Nat /\ f.off \in Nat /\ k \in Nat
      /\ a + Len(f.data) <= Len(s) /\ \A l \in 1..Len(f.data) : f.data[l] = s[a + l]
  BY FragmentFields, LenProperties DEF Holds
<1>2. /\ Len(t) = Len(s) - (a + k)
      /\ \A l \in 1..(Len(s) - (a + k)) : t[l] = s[(a + k) + l]
  <2>1. a + k \in Nat /\ a + k <= Len(s)
    BY <1>1
  <2> QED
    BY <2>1, <1>1, Piece
<1>3. /\ d \in Fragment /\ d.cap = f.cap /\ d.off = f.off + k /\ Len(d.data) = Len(f.data) - k
      /\ \A l \in 1..(Len(f.data) - k) : d.data[l] = f.data[k + l]
  BY DropMoves
<1> HIDE DEF t, d
<1>4. GetFree(d) >= 0
  BY <1>1, <1>3 DEF GetFree
<1>5. ASSUME NEW l \in 1..Len(d.data) PROVE d.data[l] = t[0 + l]
  <2>1. /\ l \in 1..(Len(f.data) - k) /\ k + l \in 1..Len(f.data)
        /\ 0 + l \in 1..(Len(s) - (a + k)) /\ a + (k + l) = (a + k) + (0 + l)
    BY <1>1, <1>3
  <2> QED
    BY <2>1, <1>1, <1>2, <1>3
<1>6. 0 + Len(d.data) <= Len(t)
  BY <1>1, <1>2, <1>3
<1> QED
  BY <1>3, <1>4, <1>5, <1>6 DEF Holds, t, d

\* A fragment at the end of the stream takes m of the bytes written.
LEMMA HoldsFilled ==
  ASSUME NEW f \in Fragment, NEW a \in Nat, NEW s \in Seq(Byte), NEW bytes \in Seq(Byte),
         NEW m \in Nat, m = Smaller(Len(bytes), GetFree(f)),
         Holds(f, a, s), m = 0 \/ a + Len(f.data) = Len(s)
  PROVE  /\ Holds(Put(f, bytes), a, s \o bytes)
         /\ a + Len(Put(f, bytes).data) <= Len(s) + m
         /\ GetFree(Put(f, bytes)) = GetFree(f) - m
         /\ Len(Put(f, bytes).data) = Len(f.data) + m
<1> DEFINE st == s \o bytes
           g == Put(f, bytes)
<1>1. /\ GetFree(f) >= 0 /\ Len(f.data) \in Nat /\ Len(s) \in Nat /\ Len(bytes) \in Nat
      /\ f.cap \in Nat /\ f.off \in Nat
      /\ a + Len(f.data) <= Len(s) /\ \A l \in 1..Len(f.data) : f.data[l] = s[a + l]
  BY FragmentFields, LenProperties DEF Holds
<1>2. /\ g \in Fragment /\ g.cap = f.cap /\ g.off = f.off /\ Len(g.data) = Len(f.data) + m
      /\ \A j \in 1..(Len(f.data) + m) :
           g.data[j] = IF j <= Len(f.data) THEN f.data[j] ELSE bytes[j - Len(f.data)]
  BY <1>1, PutAppends
<1>3. /\ Len(st) = Len(s) + Len(bytes)
      /\ \A l \in 1..Len(s) + Len(bytes) : st[l] = IF l <= Len(s) THEN s[l] ELSE bytes[l - Len(s)]
  BY ConcatProperties
<1>4. m <= Len(bytes) /\ m <= GetFree(f)
  BY <1>1 DEF Smaller, GetFree
<1>0. /\ Len(f.data) \in Nat /\ Len(s) \in Nat /\ Len(bytes) \in Nat /\ Len(g.data) \in Nat
      /\ f.cap \in Nat /\ f.off \in Nat /\ a + Len(f.data) <= Len(s)
      /\ Len(g.data) = Len(f.data) + m /\ Len(st) = Len(s) + Len(bytes)
  BY <1>1, <1>2, <1>3
<1> HIDE DEF st, g
<1>5. GetFree(g) = GetFree(f) - m
  BY <1>1, <1>2 DEF GetFree
<1>6. GetFree(g) >= 0
  <2>1. GetFree(f) \in Int
    BY FreeIsInt
  <2> QED
    BY <2>1, <1>4, <1>5
<1>7. /\ a + Len(g.data) <= Len(s) + m /\ a + Len(g.data) <= Len(st)
      /\ \A l \in 1..(Len(f.data) + m) : ~(l <= Len(f.data)) =>
           /\ a + l \in 1..Len(s) + Len(bytes) /\ ~(a + l <= Len(s))
           /\ (a + l) - Len(s) = l - Len(f.data)
  <2> DEFINE b == Len(f.data)
             c == Len(s)
             o == Len(bytes)
  <2>1. b \in Nat /\ c \in Nat /\ o \in Nat /\ a + b <= c /\ m <= o /\ (m = 0 \/ a + b = c)
    BY <1>0, <1>4
  <2>2. Len(g.data) = b + m /\ Len(st) = c + o
    BY <1>0
  <2> HIDE DEF b, c, o
  <2>3. /\ a + (b + m) <= c + m /\ a + (b + m) <= c + o
        /\ \A l \in 1..(b + m) : ~(l <= b) => /\ a + l \in 1..c + o /\ ~(a + l <= c)
                                             /\ (a + l) - c = l - b
    BY <2>1, Sums
  <2> QED
    BY ZenonT(30), <2>2, <2>3 DEF b, c, o
<1>8. ASSUME NEW l \in 1..Len(g.data) PROVE g.data[l] = st[a + l]
  <2>1. CASE l <= Len(f.data)
    <3>1. a + l \in 1..Len(s) + Len(bytes) /\ a + l <= Len(s) /\ l \in 1..(Len(f.data) + m)
          /\ l \in 1..Len(f.data)
      <4> DEFINE d == Len(f.data)
                 c == Len(s)
                 o == Len(bytes)
      <4>1. /\ a \in Nat /\ d \in Nat /\ c \in Nat /\ o \in Nat /\ m \in Nat /\ l \in Nat
            /\ l >= 1 /\ l <= d /\ a + d <= c
        BY <2>1, <1>1, <1>2
      <4> HIDE DEF d, c, o
      <4>2. a + l \in 1..c + o /\ a + l <= c /\ l \in 1..(d + m) /\ l \in 1..d
        BY <4>1
      <4> QED
        BY <4>2 DEF d, c, o
    <3> QED
      BY <2>1, <3>1, <1>1, <1>2, <1>3
  <2>2. CASE ~(l <= Len(f.data))
    <3>1. l \in 1..(Len(f.data) + m)
      BY <1>0
    <3> QED
      BY <2>2, <3>1, <1>2, <1>3, <1>7
  <2> QED
    BY <2>1, <2>2
<1> QED
  BY <1>2, <1>5, <1>6, <1>7, <1>8 DEF Holds, g, st

\* The fragment a write ends in, whether or not it has room for the rest of the bytes.
LEMMA HoldsNew ==
  ASSUME NEW f \in Fragment, f.data = <<>>, GetFree(f) >= 0,
         NEW s \in Seq(Byte), NEW bytes \in Seq(Byte), NEW r \in 0..Len(bytes)
  PROVE  LET new == Put(f, SubSeq(bytes, r + 1, Len(bytes)))
         IN  /\ Holds(new, Len(s) + r, s \o bytes)
             /\ GetFree(new) > 0 => (Len(s) + r) + Len(new.data) = Len(s) + Len(bytes)
<1> DEFINE st == s \o bytes
           rest == SubSeq(bytes, r + 1, Len(bytes))
           g == Put(f, rest)
           m == Smaller(Len(rest), GetFree(f))
<1>1. /\ Len(f.data) = 0 /\ Len(s) \in Nat /\ Len(bytes) \in Nat /\ r \in Nat /\ r <= Len(bytes)
      /\ f.cap \in Nat /\ f.off \in Nat
  BY FragmentFields, LenProperties, EmptySeq
<1>2. /\ rest \in Seq(Byte) /\ Len(rest) = Len(bytes) - r
      /\ \A l \in 1..(Len(bytes) - r) : rest[l] = bytes[r + l]
  BY <1>1, Piece
<1>3. /\ Len(st) = Len(s) + Len(bytes)
      /\ \A l \in 1..Len(s) + Len(bytes) : st[l] = IF l <= Len(s) THEN s[l] ELSE bytes[l - Len(s)]
  BY ConcatProperties
<1> HIDE DEF rest
<1>4. m \in Nat /\ m <= Len(bytes) - r /\ (m < GetFree(f) => m = Len(bytes) - r)
  <2>1. GetFree(f) \in Nat /\ Len(rest) \in Nat
    BY <1>1, <1>2 DEF GetFree
  <2> QED
    BY <2>1, <1>2 DEF Smaller
<1>5. /\ g \in Fragment /\ g.cap = f.cap /\ g.off = f.off /\ Len(g.data) = m
      /\ \A j \in 1..m : g.data[j] = rest[j]
  <2>1. m = Smaller(Len(rest), GetFree(f))
    OBVIOUS
  <2> HIDE DEF m
  <2>2. /\ g \in Fragment /\ g.cap = f.cap /\ g.off = f.off /\ Len(g.data) = Len(f.data) + m
        /\ \A j \in 1..(Len(f.data) + m) :
             g.data[j] = IF j <= Len(f.data) THEN f.data[j] ELSE rest[j - Len(f.data)]
    BY <2>1, <1>2, <1>4, PutAppends
  <2>3. Len(f.data) + m = m /\ \A j \in 1..m : ~(j <= Len(f.data)) /\ j - Len(f.data) = j
    BY <1>1, <1>4
  <2> QED
    BY <2>2, <2>3
<1>6. m <= GetFree(f)
  <2>1. GetFree(f) \in Nat /\ Len(rest) \in Nat
    BY <1>1, <1>2 DEF GetFree
  <2> QED
    BY <2>1 DEF Smaller
<1>0. /\ Len(s) \in Nat /\ Len(bytes) \in Nat /\ r \in Nat /\ r <= Len(bytes)
      /\ m \in Nat /\ m <= Len(bytes) - r /\ Len(g.data) = m /\ Len(st) = Len(s) + Len(bytes)
  BY <1>1, <1>3, <1>4, <1>5
<1> HIDE DEF st, g, m
<1>7. GetFree(g) = GetFree(f) - m /\ GetFree(f) \in Int
  BY <1>1, <1>4, <1>5 DEF GetFree
<1>8. GetFree(g) >= 0 /\ (GetFree(g) > 0 => m = Len(bytes) - r)
  BY <1>4, <1>6, <1>7
<1>9. (Len(s) + r) + Len(g.data) <= Len(st)
      /\ (GetFree(g) > 0 => (Len(s) + r) + Len(g.data) = Len(s) + Len(bytes))
  <2>1. (Len(s) + r) + m <= Len(s) + Len(bytes)
    BY <1>0
  <2>2. m = Len(bytes) - r => (Len(s) + r) + m = Len(s) + Len(bytes)
    BY <1>0
  <2> QED
    BY <2>1, <2>2, <1>0, <1>8
<1>10. ASSUME NEW l \in 1..Len(g.data) PROVE g.data[l] = st[(Len(s) + r) + l]
  <2>1. /\ l \in 1..m /\ l \in 1..(Len(bytes) - r)
        /\ (Len(s) + r) + l \in 1..Len(s) + Len(bytes) /\ ~((Len(s) + r) + l <= Len(s))
        /\ ((Len(s) + r) + l) - Len(s) = r + l
    <3>1. l \in Nat /\ l >= 1 /\ l <= m /\ l <= Len(bytes) - r
      BY <1>0
    <3>2. (Len(s) + r) + l <= Len(s) + Len(bytes) /\ (Len(s) + r) + l >= 1
      BY <3>1, <1>0
    <3> QED
      BY <3>1, <3>2, <1>0
  <2> QED
    BY <2>1, <1>2, <1>3, <1>5
<1>11. Len(s) + r \in Nat
  BY <1>1
<1>12. Holds(g, Len(s) + r, st)
  BY <1>5, <1>8, <1>9, <1>10, <1>11 DEF Holds
<1> QED
  BY <1>9, <1>12 DEF g, st, rest

-----------------------------------------------------------------------------
LEMMA SafeInit == Init => SafeInv
<1> SUFFICES ASSUME Init PROVE SafeInv
  OBVIOUS
<1>1. TypeOK /\ Locals
  BY InitHolds DEF IInv
<1>2. Inside /\ Genuine /\ Ordered /\ RoomAtEnd
  BY DEF Init, Inside, Genuine, Ordered, RoomAtEnd, Room
<1> QED
  BY <1>1, <1>2 DEF SafeInv

\* What SafeInv says of the fragments.
LEMMA SafeLaid ==
  ASSUME SafeInv
  PROVE  /\ Laid
         /\ Len(frags) \in Nat /\ DOMAIN frags = 1..Len(frags) /\ DOMAIN at = 1..Len(frags)
         /\ Len(stream) \in Nat /\ got \in Seq(Byte) /\ Len(got) \in Nat
         /\ \A j \in 1..Len(frags) : frags[j] \in Fragment /\ at[j] \in Nat
         /\ (frags = <<>>) <=> (Len(frags) = 0)
<1>1. /\ frags \in Seq(Fragment) /\ at \in Seq(Nat) /\ stream \in Seq(Byte) /\ got \in Seq(Byte)
      /\ Len(at) = Len(frags)
  BY DEF SafeInv, TypeOK, Genuine
<1>2. /\ Len(frags) \in Nat /\ DOMAIN frags = 1..Len(frags) /\ DOMAIN at = 1..Len(frags)
      /\ Len(stream) \in Nat /\ Len(got) \in Nat
      /\ \A j \in 1..Len(frags) : frags[j] \in Fragment /\ at[j] \in Nat
      /\ (frags = <<>>) <=> (Len(frags) = 0)
  BY <1>1, LenProperties, ElementOfSeq, EmptySeq, SeqEqual
<1>3. ASSUME NEW j \in 1..Len(frags) PROVE Holds(frags[j], at[j], stream)
  <2>1. DOMAIN frags[j].data = 1..Len(frags[j].data)
    BY <1>2, FragmentFields
  <2> QED
    BY <1>2, <2>1 DEF Holds, SafeInv, Inside, Genuine, Ordered
<1>4. \A j, k \in 1..Len(frags) : j < k => at[j] + Len(frags[j].data) <= at[k]
  BY <1>2 DEF SafeInv, Ordered
<1> QED
  BY <1>1, <1>2, <1>3, <1>4 DEF Laid

\* And back.
LEMMA LaidSafe ==
  ASSUME Laid', cache' # Null => GetFree(cache') >= 0
  PROVE  Inside' /\ Genuine' /\ Ordered'
<1>1. /\ DOMAIN frags' = 1..Len(frags') /\ DOMAIN at' = 1..Len(frags') /\ Len(at') = Len(frags')
  BY LenProperties DEF Laid
<1>2. ASSUME NEW j \in 1..Len(frags')
      PROVE  /\ GetFree(frags'[j]) >= 0 /\ DOMAIN frags'[j].data = 1..Len(frags'[j].data)
             /\ at'[j] + Len(frags'[j].data) <= Len(stream')
             /\ \A l \in 1..Len(frags'[j].data) : frags'[j].data[l] = stream'[at'[j] + l]
  <2>1. Holds(frags'[j], at'[j], stream')
    BY DEF Laid
  <2> QED
    BY <2>1, FragmentFields DEF Holds
<1>3. Inside'
  BY <1>1, <1>2 DEF Inside, GetFree
<1>4. Genuine'
  BY <1>1, <1>2 DEF Genuine
<1>5. Ordered'
  BY <1>1, <1>2 DEF Ordered, Laid
<1> QED
  BY <1>3, <1>4, <1>5

LEMMA SafeRoom ==
  ASSUME SafeInv
  PROVE  /\ Room \in Nat
         /\ frags # <<>> => /\ Len(frags) \in 1..Len(frags)
                            /\ Room = GetFree(frags[Len(frags)])
                            /\ Room > 0 => at[Len(frags)] + Len(frags[Len(frags)].data) = Len(stream)
<1>1. CASE frags = <<>>
  BY <1>1 DEF Room
<1>2. CASE frags # <<>>
  <2>1. Len(frags) \in 1..Len(frags) /\ frags[Len(frags)] \in Fragment
    BY <1>2, SafeLaid
  <2>2. GetFree(frags[Len(frags)]) >= 0 /\ GetFree(frags[Len(frags)]) \in Int
    BY <2>1, SafeLaid, FreeIsInt DEF SafeInv, Inside
  <2>3. Room = GetFree(frags[Len(frags)])
    BY <1>2 DEF Room
  <2>4. Room \in Nat
    BY <2>2, <2>3
  <2> QED
    BY <2>1, <2>3, <2>4 DEF SafeInv, RoomAtEnd
<1> QED
  BY <1>1, <1>2

\* A step that leaves the list alone.
LEMMA SafeListKept ==
  ASSUME SafeInv, UNCHANGED <<frags, stream, at>>, cache' = cache \/ cache' = Null
         \/ (cache' # Null => GetFree(cache') >= 0)
  PROVE  Inside' /\ Genuine' /\ Ordered' /\ RoomAtEnd'
<1>1. cache' # Null => GetFree(cache') >= 0
  BY DEF SafeInv, Inside
<1>2. Inside'
  BY <1>1 DEF SafeInv, Inside, GetFree
<1>3. Genuine' /\ Ordered' /\ RoomAtEnd'
  BY DEF SafeInv, Genuine, Ordered, RoomAtEnd, Room, GetFree
<1> QED
  BY <1>2, <1>3

\* The calls, their returns and the steps of copy_to.
LEMMA SafeCalls ==
  ASSUME SafeInv
  PROVE  /\ \A len \in 0..MaxLen : ReadCall(len) => SafeInv'
         /\ \A len \in 0..MaxLen, s \in Skips : CopyCall(s, len) => SafeInv'
         /\ Return => SafeInv'
         /\ ResetCache => SafeInv'
         /\ UNCHANGED vars => SafeInv'
<1>1. ASSUME NEW len \in 0..MaxLen, ReadCall(len) PROVE SafeInv'
  <2>1. Inside' /\ Genuine' /\ Ordered' /\ RoomAtEnd'
    BY <1>1, SafeListKept DEF ReadCall, objectVars, historyVars
  <2>2. TypeOK'
    BY <1>1 DEF SafeInv, ReadCall, TypeOK, objectVars, historyVars
  <2>3. Locals'
    BY <1>1, BufferAssumption DEF SafeInv, ReadCall, Locals, TypeOK
  <2> QED
    BY <2>1, <2>2, <2>3 DEF SafeInv
<1>2. ASSUME NEW len \in 0..MaxLen, NEW s \in Skips, CopyCall(s, len) PROVE SafeInv'
  <2>1. Inside' /\ Genuine' /\ Ordered' /\ RoomAtEnd'
    BY <1>2, SafeListKept DEF CopyCall, objectVars, historyVars
  <2>2. TypeOK'
    BY <1>2, BufferAssumption DEF SafeInv, CopyCall, TypeOK, objectVars, historyVars
  <2>3. got = <<>> /\ i = 1 /\ needSkip = 0
    BY <1>2 DEF SafeInv, Locals, CopyCall
  <2>4. Locals'
    BY <1>2, <2>3, BufferAssumption DEF CopyCall, Locals
  <2> QED
    BY <2>1, <2>2, <2>4 DEF SafeInv
<1>3. ASSUME Return PROVE SafeInv'
  <2>1. Inside' /\ Genuine' /\ Ordered' /\ RoomAtEnd'
    BY <1>3, SafeListKept DEF Return, objectVars, historyVars
  <2>2. TypeOK'
    BY <1>3, SafeLaid, EmptySeq DEF SafeInv, TypeOK, Return, objectVars, historyVars
  <2>3. Locals'
    BY <1>3, BufferAssumption DEF Locals, Return
  <2> QED
    BY <2>1, <2>2, <2>3 DEF SafeInv
<1>4. ASSUME ResetCache PROVE SafeInv'
  <2>1. Inside' /\ Genuine' /\ Ordered' /\ RoomAtEnd'
    BY <1>4, SafeListKept DEF ResetCache, historyVars
  <2>2. TypeOK' /\ Locals'
    BY <1>4 DEF SafeInv, TypeOK, Locals, ResetCache, localVars, historyVars
  <2> QED
    BY <2>1, <2>2 DEF SafeInv
<1>5. ASSUME UNCHANGED vars PROVE SafeInv'
  <2>1. Inside' /\ Genuine' /\ Ordered' /\ RoomAtEnd'
    BY <1>5, SafeListKept DEF vars, objectVars, historyVars
  <2>2. TypeOK' /\ Locals'
    BY <1>5 DEF SafeInv, TypeOK, Locals, vars, objectVars, localVars, historyVars
  <2> QED
    BY <2>1, <2>2 DEF SafeInv
<1> QED
  BY <1>1, <1>2, <1>3, <1>4, <1>5

LEMMA SafeCopyStep ==
  ASSUME SafeInv, CopyStep
  PROVE  SafeInv'
<1> DEFINE part == Peek(frags[i], needSkip', want)
<1>1. /\ i \in 1..Len(frags) /\ frags[i] \in Fragment
      /\ want \in Nat /\ skip \in Nat /\ needSkip \in Nat
  BY SafeLaid DEF CopyStep, CopyDone, SafeInv, TypeOK
<1>2. needSkip' \in Nat /\ skip' \in Nat /\ skip' <= skip
  <2>1. Smaller(skip, Len(frags[i].data)) \in 0..skip
    BY <1>1, FragmentFields DEF Smaller
  <2> QED
    BY <1>1, <2>1 DEF CopyStep
<1>3. part \in Seq(Byte) /\ Len(part) \in Nat /\ Len(part) <= want
  BY <1>1, <1>2, PeekShows
<1>4. /\ got' = got \o part /\ want' = want - Len(part) /\ i' = i + 1
      /\ pc = "copy" /\ pc' = "copy"
      /\ UNCHANGED <<frags, cache, ret, out, n, from, stream, at>>
  BY DEF CopyStep, objectVars, historyVars
<1> HIDE DEF part
<1>5. got' \in Seq(Byte) /\ Len(got') = Len(got) + Len(part) /\ Len(got) \in Nat
  <2>1. got \o part \in Seq(Byte) /\ Len(got \o part) = Len(got) + Len(part) /\ Len(got) \in Nat
    BY <1>3, SafeLaid, ConcatProperties
  <2> QED
    BY <1>4, <2>1
<1>6. Inside' /\ Genuine' /\ Ordered' /\ RoomAtEnd'
  BY <1>4, SafeListKept
<1>7. TypeOK'
  BY <1>1, <1>2, <1>3, <1>4, <1>5 DEF SafeInv, TypeOK
<1>8. Locals'
  BY <1>1, <1>2, <1>3, <1>4, <1>5 DEF SafeInv, Locals, TypeOK
<1> QED
  BY <1>6, <1>7, <1>8 DEF SafeInv

\* One step of a read: a piece of the stream goes to the caller.
LEMMA PieceRead ==
  ASSUME SafeInv, ReadSome, NEW k, k = Smaller(want, Len(frags[1].data))
  PROVE  /\ 1 \in 1..Len(frags) /\ k \in 0..Len(frags[1].data) /\ k <= want /\ want \in Nat
         /\ at[1] + k \in Nat /\ at[1] + k <= Len(stream)
         /\ Peek(frags[1], 0, k) \in Seq(Byte) /\ Len(Peek(frags[1], 0, k)) = k
         /\ Peek(frags[1], 0, k) = SubSeq(stream, at[1] + 1, at[1] + k)
<1>1. /\ 1 \in 1..Len(frags) /\ want \in Nat /\ stream \in Seq(Byte) /\ Len(stream) \in Nat
      /\ frags[1] \in Fragment /\ at[1] \in Nat /\ Holds(frags[1], at[1], stream)
  BY SafeLaid DEF ReadSome, Laid, SafeInv, TypeOK
<1>2. /\ Len(frags[1].data) \in Nat /\ at[1] + Len(frags[1].data) <= Len(stream)
      /\ \A l \in 1..Len(frags[1].data) : frags[1].data[l] = stream[at[1] + l]
  BY <1>1, FragmentFields DEF Holds
<1>3. k \in 0..Len(frags[1].data) /\ k <= want /\ Smaller(k, Len(frags[1].data)) = k
  BY <1>1, <1>2 DEF Smaller
<1>4. at[1] + k \in Nat /\ at[1] + k <= Len(stream) /\ at[1] <= at[1] + k /\ (at[1] + k) - at[1] = k
  <2> DEFINE a == at[1]
             d == Len(frags[1].data)
             l == Len(stream)
  <2>1. a \in Nat /\ d \in Nat /\ l \in Nat /\ k \in 0..d /\ a + d <= l
    BY <1>1, <1>2, <1>3
  <2> HIDE DEF a, d, l
  <2>2. a + k \in Nat /\ a + k <= l /\ a <= a + k /\ (a + k) - a = k
    BY <2>1, Within
  <2> QED
    BY <2>2 DEF a, l
<1> DEFINE p == Peek(frags[1], 0, k)
           b == at[1] + k
           q == SubSeq(stream, at[1] + 1, b)
<1>5. p \in Seq(Byte) /\ Len(p) = k /\ \A l \in 1..k : p[l] = frags[1].data[l]
  BY <1>1, <1>3, PeekShows
<1>0. b \in Nat /\ b <= Len(stream) /\ at[1] <= b /\ b - at[1] = k
  BY <1>4
<1> HIDE DEF b
<1>6. q \in Seq(Byte) /\ Len(q) = k /\ \A l \in 1..k : q[l] = stream[at[1] + l]
  <2> DEFINE a == at[1]
  <2>1. a \in Nat /\ b \in Nat /\ b <= Len(stream) /\ a <= b /\ b - a = k /\ stream \in Seq(Byte)
    BY <1>0, <1>1
  <2> HIDE DEF a
  <2>2. /\ SubSeq(stream, a + 1, b) \in Seq(Byte)
        /\ Len(SubSeq(stream, a + 1, b)) = IF a <= b THEN b - a ELSE 0
        /\ \A l \in 1..Len(SubSeq(stream, a + 1, b)) : SubSeq(stream, a + 1, b)[l] = stream[a + l]
    BY <2>1, Piece
  <2>3. /\ SubSeq(stream, a + 1, b) \in Seq(Byte) /\ Len(SubSeq(stream, a + 1, b)) = k
        /\ \A l \in 1..k : SubSeq(stream, a + 1, b)[l] = stream[a + l]
    BY <2>1, <2>2
  <2> QED
    BY <2>3 DEF a
<1> HIDE DEF p, q
<1>7. \A l \in 1..k : l \in 1..Len(frags[1].data)
  BY <1>2, <1>3
<1>8. p = q
  BY <1>2, <1>5, <1>6, <1>7, SeqEqual
<1> QED
  BY <1>1, <1>3, <1>4, <1>5, <1>8 DEF p, q, b

LEMMA SafeReadSome ==
  ASSUME SafeInv, ReadSome
  PROVE  SafeInv'
<1> DEFINE k == Smaller(want, Len(frags[1].data))
           part == Peek(frags[1], 0, k)
           b == at[1] + k
           last == Len(frags)
<1>1. /\ 1 \in 1..last /\ k \in 0..Len(frags[1].data) /\ k <= want /\ want \in Nat
      /\ b \in Nat /\ b <= Len(stream) /\ part \in Seq(Byte) /\ Len(part) = k
  BY PieceRead
<1>2. /\ got' = got \o part /\ frags' = [frags EXCEPT ![1] = Drop(frags[1], k)]
      /\ want' = want - k
      /\ stream' = SubSeq(stream, b + 1, Len(stream))
      /\ at' = [j \in DOMAIN at |-> IF j = 1 THEN 0 ELSE at[j] - b]
      /\ pc = "read" /\ UNCHANGED <<cache, ret, out, pc, n, i, from, skip, needSkip>>
  BY DEF ReadSome
<1>3. /\ last \in Nat /\ DOMAIN at = 1..last /\ Len(stream) \in Nat /\ stream \in Seq(Byte)
      /\ frags \in Seq(Fragment) /\ frags[1] \in Fragment /\ at[1] \in Nat
      /\ \A j \in 1..last : frags[j] \in Fragment /\ at[j] \in Nat /\ Holds(frags[j], at[j], stream)
      /\ \A j, l \in 1..last : j < l => at[j] + Len(frags[j].data) <= at[l]
  BY <1>1, SafeLaid DEF Laid
<1>4. Len(frags[1].data) \in Nat /\ k \in Nat
  BY <1>1, <1>3, FragmentFields
<1>0. at[1] \in Nat /\ b \in Nat
  BY <1>1, <1>3
<1>5. Holds(Drop(frags[1], k), 0, stream') /\ Len(Drop(frags[1], k).data) = Len(frags[1].data) - k
      /\ Drop(frags[1], k) \in Fragment /\ GetFree(Drop(frags[1], k)) = GetFree(frags[1])
  <2>1. Holds(Drop(frags[1], k), 0, SubSeq(stream, at[1] + k + 1, Len(stream)))
    BY <1>1, <1>3, HoldsDropped
  <2>2. /\ Drop(frags[1], k) \in Fragment
        /\ Drop(frags[1], k).cap = frags[1].cap /\ Drop(frags[1], k).off = frags[1].off + k
        /\ Len(Drop(frags[1], k).data) = Len(frags[1].data) - k
    BY <1>1, <1>3, DropMoves
  <2>3. frags[1].cap \in Nat /\ frags[1].off \in Nat
    BY <1>3, FragmentFields
  <2>4. GetFree(Drop(frags[1], k)) = GetFree(frags[1])
    BY <1>4, <2>2, <2>3 DEF GetFree
  <2> QED
    BY <1>2, <2>1, <2>2, <2>4
<1> DEFINE d == Drop(frags[1], k)
<1>6. /\ frags' \in Seq(Fragment) /\ Len(frags') = last /\ frags'[1] = d
      /\ \A j \in 1..last : j # 1 => frags'[j] = frags[j]
  <2>1. d \in Fragment /\ frags' = [frags EXCEPT ![1] = d]
    BY <1>2, <1>5
  <2> HIDE DEF d
  <2> QED
    BY <2>1, <1>1, <1>3, ExceptSeq
<1>7. k <= Len(frags[1].data) /\ at[1] + Len(frags[1].data) <= Len(stream)
      /\ b <= at[1] + Len(frags[1].data)
  BY <1>1, <1>3, <1>4 DEF Holds
<1> HIDE DEF k, part, d, b, last
<1>8. ASSUME NEW j \in 1..last, j # 1 PROVE b <= at[j] /\ at[j] - b \in Nat /\ b \in 0..at[j]
  <2>1. 1 < j /\ at[j] \in Nat /\ at[1] + Len(frags[1].data) <= at[j]
    BY <1>1, <1>3, <1>8
  <2>2. b <= at[j]
    <3>1. at[1] + Len(frags[1].data) \in Nat
      BY <1>0, <1>4
    <3> QED
      BY <3>1, <1>0, <1>7, <2>1
  <2> QED
    BY <1>1, <2>1, <2>2
<1>9. \A j \in 1..last : at'[j] \in Nat /\ at'[j] = IF j = 1 THEN 0 ELSE at[j] - b
  BY <1>2, <1>3, <1>8
<1>10. at' \in Seq(Nat) /\ Len(at') = last
  <2>1. at' = [j \in 1..last |-> IF j = 1 THEN 0 ELSE at[j] - b]
    BY <1>2, <1>3
  <2>2. at' \in [1..last -> Nat]
    BY <2>1, <1>9
  <2>3. at' \in Seq(Nat)
    BY <2>2, <1>3, SeqDef
  <2> QED
    BY <2>2, <2>3, <1>3, LenProperties
<1>11. stream' \in Seq(Byte) /\ Len(stream') = Len(stream) - b
  <2>1. b \in Nat /\ b <= Len(stream) /\ Len(stream) \in Nat
    BY <1>1, <1>3
  <2>2. /\ SubSeq(stream, b + 1, Len(stream)) \in Seq(Byte)
        /\ Len(SubSeq(stream, b + 1, Len(stream))) = IF b <= Len(stream) THEN Len(stream) - b ELSE 0
    BY <2>1, <1>3, Piece
  <2> QED
    BY <2>1, <2>2, <1>2
<1>12. ASSUME NEW j \in 1..last PROVE Holds(frags'[j], at'[j], stream')
  <2>1. CASE j = 1
    BY <2>1, <1>5, <1>6, <1>9 DEF d
  <2>2. CASE j # 1
    <3>1. at[j] \in Nat /\ b \in 0..at[j] /\ Holds(frags[j], at[j], stream)
      BY <2>2, <1>3, <1>8
    <3>2. Holds(frags[j], at[j] - b, SubSeq(stream, b + 1, Len(stream)))
      BY <3>1, <1>3, HoldsShifted
    <3> QED
      BY <2>2, <3>2, <1>2, <1>6, <1>9
  <2> QED
    BY <2>1, <2>2
<1>13. ASSUME NEW j \in 1..last PROVE at'[j] + Len(frags'[j].data) = (at[j] + Len(frags[j].data)) - b
                                      /\ at[j] \in Nat /\ Len(frags[j].data) \in Nat
  <2>1. at[j] \in Nat /\ Len(frags[j].data) \in Nat /\ b \in Nat
    BY <1>1, <1>3, FragmentFields
  <2>2. CASE j = 1
    <3>1. at'[1] = 0 /\ Len(frags'[1].data) = Len(frags[1].data) - k
      BY <2>2, <1>5, <1>6, <1>9 DEF d
    <3>2. b = at[1] + k
      BY DEF b
    <3>3. at[1] \in Nat /\ k \in Nat /\ Len(frags[1].data) \in Nat
      BY <1>3, <1>4
    <3>4. 0 + (Len(frags[1].data) - k) = (at[1] + Len(frags[1].data)) - (at[1] + k)
      BY <3>3
    <3> QED
      BY <2>1, <2>2, <3>1, <3>2, <3>4
  <2>3. CASE j # 1
    BY <2>1, <2>3, <1>6, <1>9
  <2> QED
    BY <2>1, <2>2, <2>3
<1>14. ASSUME NEW j \in 1..last, NEW l \in 1..last, j < l PROVE at'[j] + Len(frags'[j].data) <= at'[l]
  <2>1. l # 1 /\ at[l] \in Nat /\ b \in Nat
    BY <1>14, <1>1, <1>3
  <2>2. at[j] + Len(frags[j].data) <= at[l]
    BY <1>14, <1>3
  <2>3. at'[l] = at[l] - b
    BY <2>1, <1>9
  <2>4. at'[j] + Len(frags'[j].data) = (at[j] + Len(frags[j].data)) - b
        /\ at[j] \in Nat /\ Len(frags[j].data) \in Nat
    BY <1>13
  <2>5. (at[j] + Len(frags[j].data)) - b <= at[l] - b
    <3> DEFINE a == at[j]
               e == Len(frags[j].data)
               c == at[l]
    <3>1. a \in Nat /\ e \in Nat /\ b \in Nat /\ c \in Nat /\ a + e <= c
      BY <2>1, <2>2, <2>4
    <3> HIDE DEF a, e, c
    <3>2. (a + e) - b <= c - b
      BY <3>1, BothShifted
    <3> QED
      BY <3>2 DEF a, e, c
  <2> QED
    BY ZenonT(30), <2>3, <2>4, <2>5
<1>15. Laid'
  BY <1>6, <1>10, <1>11, <1>12, <1>14 DEF Laid
<1>16. Inside' /\ Genuine' /\ Ordered'
  BY <1>2, <1>15, LaidSafe DEF SafeInv, Inside
<1>17. RoomAtEnd'
  <2>1. frags # <<>> /\ frags' # <<>> /\ last \in 1..last
    BY <1>1, <1>3, <1>6, EmptySeq DEF last
  <2>2. GetFree(frags'[last]) = GetFree(frags[last])
    <3>1. CASE last = 1
      BY <3>1, <1>5, <1>6 DEF d
    <3>2. CASE last # 1
      BY <2>1, <3>2, <1>6
    <3> QED
      BY <3>1, <3>2
  <2>3. Room' = Room
    BY <2>1, <2>2, <1>6 DEF Room, last
  <2>4. ASSUME Room > 0 PROVE at'[last] + Len(frags'[last].data) = Len(stream')
    <3>1. at[last] + Len(frags[last].data) = Len(stream)
      BY <2>4 DEF SafeInv, RoomAtEnd, last
    <3>2. at'[last] + Len(frags'[last].data) = (at[last] + Len(frags[last].data)) - b
      BY <2>1, <1>13
    <3>3. Len(stream') = Len(stream) - b
      BY <1>11
    <3> DEFINE e == at[last] + Len(frags[last].data)
    <3>4. e = Len(stream)
      BY <3>1
    <3>5. at'[last] + Len(frags'[last].data) = e - b
      BY <3>2
    <3> HIDE DEF e
    <3> QED
      BY <3>3, <3>4, <3>5
  <2> QED
    BY <2>3, <2>4, <1>6 DEF RoomAtEnd
<1>18. got' \in Seq(Byte) /\ Len(got') = Len(got) + k /\ Len(got) \in Nat
  <2>1. got \o part \in Seq(Byte) /\ Len(got \o part) = Len(got) + Len(part) /\ Len(got) \in Nat
    BY <1>1, SafeLaid, ConcatProperties
  <2> QED
    BY <2>1, <1>1, <1>2
<1>19. TypeOK'
  <2>1. want' \in Nat
    BY <1>1, <1>2, <1>4
  <2>2. /\ cache \in Fragment \cup {Null} /\ ret \in Nat /\ out \in Seq(Byte)
        /\ pc \in {"ready", "read", "copy"} /\ n \in Nat /\ i \in Nat \ {0}
        /\ from \in Nat /\ skip \in Nat /\ needSkip \in Nat
    BY DEF SafeInv, TypeOK
  <2> QED
    BY <1>2, <1>6, <1>10, <1>11, <1>18, <2>1, <2>2 DEF TypeOK
<1>20. Locals'
  BY <1>1, <1>2, <1>4, <1>18 DEF SafeInv, Locals, TypeOK
<1> QED
  BY <1>16, <1>17, <1>19, <1>20 DEF SafeInv

LEMMA SafePopFront ==
  ASSUME SafeInv, PopFront
  PROVE  SafeInv'
<1> DEFINE last == Len(frags)
<1>1. /\ pc = "read" /\ frags # <<>>
      /\ frags' = Tail(frags) /\ at' = Tail(at) /\ cache' = Cached(frags[1])
      /\ UNCHANGED <<ret, out, pc, n, want, got, i, from, skip, needSkip, stream>>
  BY DEF PopFront, localVars
<1>2. /\ last \in Nat /\ last >= 1 /\ 1 \in 1..last /\ frags \in Seq(Fragment) /\ at \in Seq(Nat)
      /\ Len(at) = last /\ stream \in Seq(Byte) /\ frags[1] \in Fragment
      /\ \A j \in 1..last : Holds(frags[j], at[j], stream)
      /\ \A j, l \in 1..last : j < l => at[j] + Len(frags[j].data) <= at[l]
  BY <1>1, SafeLaid DEF Laid
<1>3. \A j \in 1..(last - 1) : j + 1 \in 1..last
  BY <1>2
<1>4. /\ frags' \in Seq(Fragment) /\ Len(frags') = last - 1
      /\ \A j \in 1..(last - 1) : frags'[j] = frags[j + 1]
  BY <1>1, <1>2, HeadTailProperties
<1>5. /\ at' \in Seq(Nat) /\ Len(at') = last - 1
      /\ \A j \in 1..(last - 1) : at'[j] = at[j + 1]
  <2>1. at # <<>>
    BY <1>2, EmptySeq
  <2> QED
    BY <2>1, <1>1, <1>2, HeadTailProperties
<1>6. cache' \in Fragment \cup {Null} /\ (cache' # Null => GetFree(cache') >= 0)
  <2>1. GetFree(frags[1]) >= 0
    BY <1>2 DEF Holds
  <2>2. cache' = frags[1] \/ cache' = cache
    BY <1>1 DEF Cached
  <2>3. cache \in Fragment \cup {Null} /\ (cache # Null => GetFree(cache) >= 0)
    BY DEF SafeInv, TypeOK, Inside
  <2>4. CASE cache' = frags[1]
    BY <2>1, <2>4, <1>2 DEF GetFree
  <2>5. CASE cache' = cache
    BY <2>3, <2>5 DEF GetFree
  <2> QED
    BY <2>2, <2>4, <2>5
<1> HIDE DEF last
<1>7. Laid'
  <2>1. ASSUME NEW j \in 1..(last - 1) PROVE Holds(frags'[j], at'[j], stream')
    <3>1. Holds(frags[j + 1], at[j + 1], stream)
      BY <1>2, <1>3
    <3> QED
      BY <3>1, <1>1, <1>4, <1>5
  <2>2. ASSUME NEW j \in 1..(last - 1), NEW l \in 1..(last - 1), j < l
        PROVE  at'[j] + Len(frags'[j].data) <= at'[l]
    <3>1. j + 1 \in 1..last /\ l + 1 \in 1..last /\ j + 1 < l + 1
      BY <2>2, <1>2, <1>3
    <3>2. at[j + 1] + Len(frags[j + 1].data) <= at[l + 1]
      BY <3>1, <1>2
    <3> QED
      BY <3>2, <1>4, <1>5
  <2> QED
    BY <2>1, <2>2, <1>1, <1>2, <1>4, <1>5 DEF Laid
<1>8. Inside' /\ Genuine' /\ Ordered'
  BY <1>6, <1>7, LaidSafe
<1>9. RoomAtEnd'
  <2>1. CASE last = 1
    <3>1. frags' = <<>>
      BY <2>1, <1>4, EmptySeq, SeqEqual
    <3>2. Room' = 0
      BY <3>1 DEF Room
    <3> QED
      BY <3>2 DEF RoomAtEnd
  <2>2. CASE last # 1
    <3>1. last - 1 \in 1..(last - 1) /\ (last - 1) + 1 = last /\ frags' # <<>>
      BY <2>2, <1>2, <1>4, EmptySeq
    <3>2. frags'[Len(frags')] = frags[last] /\ at'[Len(frags')] = at[last]
      BY <3>1, <1>4, <1>5
    <3>3. Room' = Room
      BY <3>1, <3>2, <1>1 DEF Room, last
    <3>4. Room > 0 => at[last] + Len(frags[last].data) = Len(stream)
      BY DEF SafeInv, RoomAtEnd, last
    <3> QED
      BY <3>2, <3>3, <3>4, <1>1 DEF RoomAtEnd
  <2> QED
    BY <2>1, <2>2
<1>10. TypeOK'
  BY <1>1, <1>4, <1>5, <1>6 DEF SafeInv, TypeOK
<1>11. Locals'
  BY <1>1 DEF SafeInv, Locals
<1> QED
  BY <1>8, <1>9, <1>10, <1>11 DEF SafeInv

LEMMA SafeReset ==
  ASSUME SafeInv, NEW clearcache \in BOOLEAN, Reset(clearcache)
  PROVE  SafeInv'
<1>1. cache' \in Fragment \cup {Null} /\ (cache' # Null => GetFree(cache') >= 0)
  <2>1. frags # <<>> => frags[Len(frags)] \in Fragment /\ GetFree(frags[Len(frags)]) >= 0
    BY SafeLaid DEF Laid, Holds
  <2>2. cache \in Fragment \cup {Null} /\ (cache # Null => GetFree(cache) >= 0)
    BY DEF SafeInv, TypeOK, Inside
  <2>3. cache' = Null \/ (frags # <<>> /\ cache' = frags[Len(frags)]) \/ cache' = cache
    BY DEF Reset
  <2>4. CASE cache' = Null
    BY <2>4
  <2>5. CASE frags # <<>> /\ cache' = frags[Len(frags)]
    BY <2>1, <2>5 DEF GetFree
  <2>6. CASE cache' = cache
    BY <2>2, <2>6 DEF GetFree
  <2> QED
    BY <2>3, <2>4, <2>5, <2>6
<1>2. /\ frags' = <<>> /\ at' = <<>> /\ stream' = <<>>
      /\ UNCHANGED <<ret, out, pc, n, want, got, i, from, skip, needSkip>>
  BY DEF Reset, localVars
<1>3. TypeOK' /\ Locals'
  BY <1>1, <1>2, EmptySeq DEF SafeInv, TypeOK, Locals
<1>4. Inside' /\ Genuine' /\ Ordered' /\ RoomAtEnd'
  BY <1>1, <1>2 DEF Inside, Genuine, Ordered, RoomAtEnd, Room, GetFree
<1> QED
  BY <1>3, <1>4 DEF SafeInv

\* create_fragmentation gives a fragment without data, with or without room.
LEMMA CreateIsSafe ==
  ASSUME cache \in Fragment \cup {Null}, cache # Null => GetFree(cache) >= 0,
         NEW size \in Nat, NEW c \in Create(size)
  PROVE  /\ c[2] \in Fragment \cup {Null}
         /\ c[2] # Null => GetFree(c[2]) >= 0
         /\ c[1] # Null => c[1] \in Fragment /\ c[1].data = <<>> /\ GetFree(c[1]) >= 0
<1>1. ASSUME NEW z \in Nat
      PROVE  NewFragment(z) \in Fragment /\ NewFragment(z).data = <<>> /\ GetFree(NewFragment(z)) >= 0
  <2>1. NewFragment(z).cap = z /\ NewFragment(z).off = 0 /\ Len(NewFragment(z).data) = 0
        /\ NewFragment(z).data = <<>>
    BY EmptySeq DEF NewFragment
  <2>2. NewFragment(z) \in Fragment
    BY EmptySeq DEF NewFragment, Fragment
  <2> QED
    BY <2>1, <2>2 DEF GetFree
<1>2. CASE cache # Null /\ cache.cap >= size
  <2>1. cache \in Fragment /\ c = <<Reinit(cache), Null>>
    BY <1>2 DEF Create
  <2>2. /\ Reinit(cache) \in Fragment /\ Reinit(cache).off = 0 /\ Reinit(cache).data = <<>>
        /\ Reinit(cache).cap = cache.cap
    BY <2>1, EmptySeq DEF Reinit, Fragment
  <2>3. GetFree(Reinit(cache)) >= 0
    <3>1. cache.cap \in Nat /\ Len(Reinit(cache).data) = 0
      BY <2>1, <2>2, FragmentFields, EmptySeq
    <3> QED
      BY <2>2, <3>1 DEF GetFree
  <2> QED
    BY <2>1, <2>2, <2>3
<1>3. CASE ~(cache # Null /\ cache.cap >= size)
  <2>1. c = <<NewFragment(size), cache>> \/ c = <<NewFragment(0), cache>> \/ c = <<Null, cache>>
    BY <1>3 DEF Create
  <2>2. c[2] = cache
    BY <2>1
  <2>3. c[1] = Null \/ \E z \in Nat : c[1] = NewFragment(z)
    BY <2>1
  <2> QED
    BY <1>1, <2>2, <2>3
<1> QED
  BY <1>2, <1>3

\* The list once the fragment at the back has taken m of the bytes.
LEMMA SafeFilled ==
  ASSUME SafeInv, NEW bytes \in Seq(Byte), NEW m \in Nat, m = Smaller(Len(bytes), Room)
  PROVE  /\ Filled(bytes) \in Seq(Fragment) /\ Len(Filled(bytes)) = Len(frags)
         /\ \A j \in 1..Len(frags) :
              /\ Holds(Filled(bytes)[j], at[j], stream \o bytes)
              /\ at[j] + Len(Filled(bytes)[j].data) <= Len(stream) + m
              /\ \A k \in 1..Len(frags) : j < k => at[j] + Len(Filled(bytes)[j].data) <= at[k]
         /\ frags # <<>> => LET f == Filled(bytes)[Len(frags)]
                            IN  /\ GetFree(f) = Room - m
                                /\ Room > 0 => at[Len(frags)] + Len(f.data) = Len(stream) + m
<1> DEFINE last == Len(frags)
           fb == Filled(bytes)
<1>0. /\ last \in Nat /\ frags \in Seq(Fragment) /\ stream \in Seq(Byte) /\ Len(stream) \in Nat
      /\ (frags = <<>>) <=> (last = 0)
      /\ \A j \in 1..last : /\ Holds(frags[j], at[j], stream) /\ frags[j] \in Fragment /\ at[j] \in Nat
                            /\ \A k \in 1..last : j < k => at[j] + Len(frags[j].data) <= at[k]
  BY SafeLaid DEF Laid
<1>1. CASE frags = <<>>
  <2>1. Filled(bytes) = <<>> /\ Len(frags) = 0
    BY <1>0, <1>1 DEF Filled
  <2> QED
    BY <1>1, <2>1, EmptySeq
<1>2. CASE frags # <<>>
  <2> DEFINE f == frags[last]
             g == Put(f, bytes)
  <2>1. /\ last \in 1..last /\ f \in Fragment /\ at[last] \in Nat /\ Holds(f, at[last], stream)
        /\ Room \in Nat /\ Room = GetFree(f) /\ m = Smaller(Len(bytes), GetFree(f))
        /\ Room > 0 => at[last] + Len(f.data) = Len(stream)
    BY <1>0, <1>2, SafeRoom
  <2>2. m = 0 \/ at[last] + Len(f.data) = Len(stream)
    <3>1. Len(bytes) \in Nat
      BY LenProperties
    <3>2. Room = 0 => m = 0
      BY <3>1 DEF Smaller
    <3> QED
      BY <2>1, <3>2
  <2>3. /\ Holds(g, at[last], stream \o bytes)
        /\ at[last] + Len(g.data) <= Len(stream) + m
        /\ GetFree(g) = GetFree(f) - m
        /\ Len(g.data) = Len(f.data) + m
    <3> HIDE DEF f, last
    <3> USE DEF g
    <3> DEFINE a == at[last]
    <3>1. /\ a \in Nat /\ f \in Fragment /\ stream \in Seq(Byte)
          /\ m = Smaller(Len(bytes), GetFree(f))
          /\ Holds(f, a, stream) /\ (m = 0 \/ a + Len(f.data) = Len(stream))
      BY <1>0, <2>1, <2>2
    <3> HIDE DEF a
    <3>2. /\ Holds(Put(f, bytes), a, stream \o bytes)
          /\ a + Len(Put(f, bytes).data) <= Len(stream) + m
          /\ GetFree(Put(f, bytes)) = GetFree(f) - m
          /\ Len(Put(f, bytes).data) = Len(f.data) + m
      BY SMTT(40), <3>1, HoldsFilled
    <3> QED
      BY <3>2 DEF a
  <2>4. fb = [frags EXCEPT ![last] = g]
    BY <1>2 DEF Filled
  <2>5. g \in Fragment
    BY <2>3 DEF Holds
  <2>6. Len(f.data) \in Nat
    BY <2>1, FragmentFields
  <2> HIDE DEF g, fb, f
  <2>7. /\ fb \in Seq(Fragment) /\ Len(fb) = last /\ fb[last] = g
        /\ \A j \in 1..last : j # last => fb[j] = frags[j]
    BY <1>0, <2>1, <2>4, <2>5, ExceptSeq
  <2>8. ASSUME NEW j \in 1..last
        PROVE  /\ Holds(fb[j], at[j], stream \o bytes)
               /\ at[j] + Len(fb[j].data) <= Len(stream) + m
               /\ \A k \in 1..last : j < k => at[j] + Len(fb[j].data) <= at[k]
    <3>1. CASE j = last
      <4>1. \A k \in 1..last : ~(j < k)
        BY <3>1, <1>0
      <4> QED
        BY <3>1, <4>1, <2>3, <2>7
    <3>2. CASE j # last
      <4>1. Holds(frags[j], at[j], stream) /\ fb[j] = frags[j] /\ at[j] \in Nat
        BY <3>2, <1>0, <2>7
      <4>2. Holds(frags[j], at[j], stream \o bytes)
        BY <4>1, <1>0, HoldsLonger
      <4>3. at[j] + Len(frags[j].data) <= Len(stream) + m
        <5>1. at[j] + Len(frags[j].data) <= Len(stream) /\ Len(frags[j].data) \in Nat
          BY <4>1, <1>0, FragmentFields DEF Holds
        <5>2. at[j] \in Nat /\ Len(stream) \in Nat /\ m \in Nat
          BY <4>1, <1>0
        <5> DEFINE a == at[j]
                   d == Len(frags[j].data)
                   l == Len(stream)
        <5>3. a \in Nat /\ d \in Nat /\ l \in Nat /\ a + d <= l
          BY <5>1, <5>2
        <5> HIDE DEF a, d, l
        <5>4. a + d <= l + m
          BY <5>3, LessThanSum
        <5> QED
          BY <5>4 DEF a, d, l
      <4> QED
        BY <4>1, <4>2, <4>3, <1>0
    <3> QED
      BY <3>1, <3>2
  <2>9. GetFree(fb[last]) = Room - m
    BY <2>1, <2>3, <2>7
  <2>10. ASSUME Room > 0 PROVE at[last] + Len(fb[last].data) = Len(stream) + m
    <3>1. at[last] + Len(f.data) = Len(stream) /\ Len(fb[last].data) = Len(f.data) + m
      BY <2>10, <2>1, <2>3, <2>7
    <3>2. at[last] \in Nat /\ Len(f.data) \in Nat /\ m \in Nat
      BY <2>1, <2>6
    <3>3. at[last] + (Len(f.data) + m) = (at[last] + Len(f.data)) + m
      BY <3>2
    <3> QED
      BY ZenonT(30), <3>1, <3>3
  <2> QED
    BY <2>7, <2>8, <2>9, <2>10 DEF fb
<1> QED
  BY <1>1, <1>2

LEMMA SafeWriteBack ==
  ASSUME SafeInv, NEW bytes \in Seq(Byte), WriteBack(bytes), out' = <<>>, UNCHANGED localVars
  PROVE  SafeInv'
<1> DEFINE last == Len(frags)
           m == Len(bytes)
<1>1. /\ frags # <<>> /\ Room >= m /\ frags' = Filled(bytes)
      /\ ret' = m /\ stream' = stream \o bytes
      /\ UNCHANGED <<cache, at, pc, n, want, got, i, from, skip, needSkip>>
  BY DEF WriteBack, Accepted, localVars
<1>2. /\ m \in Nat /\ last \in Nat /\ Room \in Nat /\ last \in 1..last
      /\ at \in Seq(Nat) /\ Len(at) = last /\ Len(stream) \in Nat
  BY <1>1, LenProperties, SafeLaid, SafeRoom DEF Laid
<1>3. m = Smaller(Len(bytes), Room)
  BY <1>1, <1>2 DEF Smaller
<1>4. stream' \in Seq(Byte) /\ Len(stream') = Len(stream) + m
  <2>1. stream \o bytes \in Seq(Byte) /\ Len(stream \o bytes) = Len(stream) + Len(bytes)
    BY SafeLaid, ConcatProperties DEF Laid
  <2> QED
    BY <1>1, <2>1
<1>5. /\ Filled(bytes) \in Seq(Fragment) /\ Len(Filled(bytes)) = last
      /\ \A j \in 1..last :
           /\ Holds(Filled(bytes)[j], at[j], stream \o bytes)
           /\ \A k \in 1..last : j < k => at[j] + Len(Filled(bytes)[j].data) <= at[k]
      /\ GetFree(Filled(bytes)[last]) = Room - m
      /\ Room > 0 => at[last] + Len(Filled(bytes)[last].data) = Len(stream) + m
  <2> HIDE DEF m
  <2> QED
    BY <1>1, <1>2, <1>3, SafeFilled
<1> HIDE DEF last, m
<1>6. Laid'
  BY <1>1, <1>2, <1>4, <1>5 DEF Laid
<1>7. Inside' /\ Genuine' /\ Ordered'
  BY <1>1, <1>6, LaidSafe DEF SafeInv, Inside
<1>8. RoomAtEnd'
  <2>1. Len(frags') = last /\ frags' # <<>>
    BY <1>1, <1>2, <1>5, EmptySeq
  <2>2. Room' = Room - m
    BY <2>1, <1>1, <1>5 DEF Room
  <2>3. Room' > 0 => Room > 0
    BY <2>2, <1>2
  <2> QED
    BY <2>1, <2>3, <1>1, <1>4, <1>5 DEF RoomAtEnd
<1>9. TypeOK'
  BY <1>1, <1>2, <1>4, <1>5, EmptySeq DEF SafeInv, TypeOK
<1>10. Locals'
  BY <1>1 DEF SafeInv, Locals
<1> QED
  BY <1>7, <1>8, <1>9, <1>10 DEF SafeInv

\* The write that needs another fragment, whether its array could be had or not.
LEMMA SafeGrow ==
  ASSUME SafeInv, NEW bytes \in Seq(Byte), frags = <<>> \/ Room < Len(bytes),
         NEW f \in Fragment, f.data = <<>>, GetFree(f) >= 0,
         cache' \in Fragment \cup {Null}, cache' # Null => GetFree(cache') >= 0,
         frags' = Append(Filled(bytes), Put(f, SubSeq(bytes, Room + 1, Len(bytes)))),
         Accepted(bytes), at' = Append(at, Len(stream) + Room),
         out' = <<>>, UNCHANGED localVars
  PROVE  SafeInv'
<1> DEFINE last == Len(frags)
           fb == Filled(bytes)
           new == Put(f, SubSeq(bytes, Room + 1, Len(bytes)))
<1>1. /\ ret' = Len(bytes) /\ stream' = stream \o bytes
      /\ UNCHANGED <<pc, n, want, got, i, from, skip, needSkip>>
  BY DEF Accepted, localVars
<1>2. /\ Len(bytes) \in Nat /\ last \in Nat /\ Room \in Nat /\ at \in Seq(Nat) /\ Len(at) = last
      /\ Len(stream) \in Nat /\ stream \in Seq(Byte) /\ \A j \in 1..last : at[j] \in Nat
  BY LenProperties, SafeLaid, SafeRoom DEF Laid
<1>3. Room \in 0..Len(bytes) /\ Room = Smaller(Len(bytes), Room)
  <2>1. frags = <<>> => Room = 0
    BY DEF Room
  <2> QED
    BY <1>2, <2>1 DEF Smaller
<1>4. stream' \in Seq(Byte) /\ Len(stream') = Len(stream) + Len(bytes)
  <2>1. stream \o bytes \in Seq(Byte) /\ Len(stream \o bytes) = Len(stream) + Len(bytes)
    BY <1>2, ConcatProperties
  <2> QED
    BY <1>1, <2>1
<1>5. /\ fb \in Seq(Fragment) /\ Len(fb) = last
      /\ \A j \in 1..last :
           /\ Holds(fb[j], at[j], stream')
           /\ at[j] + Len(fb[j].data) <= Len(stream) + Room
           /\ \A k \in 1..last : j < k => at[j] + Len(fb[j].data) <= at[k]
  <2> DEFINE m == Room
  <2>1. m \in Nat /\ m = Smaller(Len(bytes), Room)
    BY <1>2, <1>3
  <2> HIDE DEF m
  <2>2. /\ fb \in Seq(Fragment) /\ Len(fb) = last
        /\ \A j \in 1..last :
             /\ Holds(fb[j], at[j], stream \o bytes)
             /\ at[j] + Len(fb[j].data) <= Len(stream) + m
             /\ \A k \in 1..last : j < k => at[j] + Len(fb[j].data) <= at[k]
    BY <2>1, SafeFilled
  <2> QED
    BY <2>2, <1>1 DEF m
<1>6. /\ Holds(new, Len(stream) + Room, stream')
      /\ GetFree(new) > 0 => (Len(stream) + Room) + Len(new.data) = Len(stream')
  <2> DEFINE r == Room
  <2>1. r \in 0..Len(bytes)
    BY <1>3
  <2> HIDE DEF r
  <2>2. /\ Holds(Put(f, SubSeq(bytes, r + 1, Len(bytes))), Len(stream) + r, stream \o bytes)
        /\ GetFree(Put(f, SubSeq(bytes, r + 1, Len(bytes)))) > 0 =>
             (Len(stream) + r) + Len(Put(f, SubSeq(bytes, r + 1, Len(bytes))).data)
               = Len(stream) + Len(bytes)
    BY <2>1, <1>2, HoldsNew
  <2> QED
    BY <2>2, <1>1, <1>4 DEF r
<1>7. new \in Fragment /\ Len(stream) + Room \in Nat
  BY <1>2, <1>6 DEF Holds
<1>8. frags' = Append(fb, new)
  OBVIOUS
<1> HIDE DEF fb, new
<1>9. /\ frags' \in Seq(Fragment) /\ Len(frags') = last + 1 /\ frags' # <<>>
      /\ frags'[last + 1] = new /\ \A j \in 1..last : frags'[j] = fb[j]
  <2>1. fb \in Seq(Fragment) /\ new \in Fragment /\ Len(fb) = last
    BY <1>5, <1>7
  <2> HIDE DEF last
  <2>2. /\ Append(fb, new) \in Seq(Fragment) /\ Append(fb, new) # <<>>
        /\ Len(Append(fb, new)) = Len(fb) + 1
        /\ \A j \in 1..Len(fb) : Append(fb, new)[j] = fb[j]
        /\ Append(fb, new)[Len(fb) + 1] = new
    BY SMTT(40), <2>1, AppendProperties
  <2> QED
    BY <2>1, <2>2, <1>8
<1>10. /\ at' \in Seq(Nat) /\ Len(at') = last + 1
       /\ at'[last + 1] = Len(stream) + Room /\ \A j \in 1..last : at'[j] = at[j]
  <2> DEFINE b == Len(stream) + Room
  <2>1. b \in Nat /\ at' = Append(at, b)
    BY <1>7
  <2> HIDE DEF b
  <2>2. /\ at' \in Seq(Nat) /\ Len(at') = last + 1
        /\ at'[last + 1] = b /\ \A j \in 1..last : at'[j] = at[j]
    BY <2>1, <1>2, AppendProperties
  <2> QED
    BY <2>2 DEF b
<1> HIDE DEF last
<1>11. \A j \in 1..(last + 1) : j \in 1..last \/ j = last + 1
  BY <1>2
<1>12. Laid'
  <2>1. ASSUME NEW j \in 1..(last + 1) PROVE Holds(frags'[j], at'[j], stream')
    <3>1. CASE j \in 1..last
      BY <3>1, <1>5, <1>9, <1>10
    <3>2. CASE j = last + 1
      BY <3>2, <1>6, <1>9, <1>10
    <3> QED
      BY <3>1, <3>2, <1>11
  <2>2. ASSUME NEW j \in 1..(last + 1), NEW k \in 1..(last + 1), j < k
        PROVE  at'[j] + Len(frags'[j].data) <= at'[k]
    <3>1. j \in 1..last
      BY <2>2, <1>2
    <3>2. CASE k \in 1..last
      BY <2>2, <3>1, <3>2, <1>5, <1>9, <1>10
    <3>3. CASE k = last + 1
      BY <3>1, <3>3, <1>5, <1>9, <1>10
    <3> QED
      BY <3>2, <3>3, <1>11
  <2> QED
    BY <2>1, <2>2, <1>4, <1>9, <1>10 DEF Laid
<1>13. Inside' /\ Genuine' /\ Ordered'
  BY <1>12, LaidSafe
<1>14. RoomAtEnd'
  <2>1. Room' = GetFree(new)
    BY <1>9 DEF Room
  <2> QED
    BY <2>1, <1>6, <1>9, <1>10 DEF RoomAtEnd
<1>15. TypeOK'
  BY <1>1, <1>2, <1>4, <1>9, <1>10, EmptySeq DEF SafeInv, TypeOK
<1>16. Locals'
  BY <1>1 DEF SafeInv, Locals
<1> QED
  BY <1>13, <1>14, <1>15, <1>16 DEF SafeInv

LEMMA SafeWrite ==
  ASSUME SafeInv, NEW bytes \in Inputs, Write(bytes)
  PROVE  SafeInv'
<1>1. out' = <<>> /\ UNCHANGED localVars /\ bytes \in Seq(Byte)
  BY InputsAreBytes DEF Write
<1>2. CASE WriteBack(bytes)
  BY <1>1, <1>2, SafeWriteBack
<1>3. CASE WriteGrow(bytes)
  <2>1. frags = <<>> \/ Room < Len(bytes)
    BY <1>3 DEF WriteGrow
  <2>2. PICK c \in Create(GrowBy(Len(bytes))) :
          /\ cache' = c[2]
          /\ \/ /\ c[1] # Null
                /\ frags' = Append(FillBack(bytes), Put(c[1], SubSeq(bytes, Room + 1, Len(bytes))))
                /\ Accepted(bytes)
                /\ at' = Append(at, Len(stream) + Room)
             \/ /\ c[1] = Null \/ "node" \in Fails
                /\ ret' = 0
                /\ UNCHANGED <<frags, historyVars>>
    BY <1>3 DEF WriteGrow
  <2>3. GrowBy(Len(bytes)) \in Nat
    <3>1. Len(bytes) \in Nat /\ Room \in Nat /\ Capacity \in Nat /\ (frags = <<>> => Room = 0)
      BY <1>1, LenProperties, SafeRoom, BufferAssumption DEF Room
    <3> QED
      BY <2>1, <3>1 DEF GrowBy
  <2>4. /\ c[2] \in Fragment \cup {Null} /\ (c[2] # Null => GetFree(c[2]) >= 0)
        /\ c[1] # Null => c[1] \in Fragment /\ c[1].data = <<>> /\ GetFree(c[1]) >= 0
    <3>1. cache \in Fragment \cup {Null} /\ (cache # Null => GetFree(cache) >= 0)
      BY DEF SafeInv, TypeOK, Inside
    <3> QED
      BY <2>2, <2>3, <3>1, CreateIsSafe
  <2>5. cache' \in Fragment \cup {Null} /\ (cache' # Null => GetFree(cache') >= 0)
    BY <2>2, <2>4 DEF GetFree
  <2>6. CASE c[1] # Null /\ Accepted(bytes) /\ at' = Append(at, Len(stream) + Room)
             /\ frags' = Append(Filled(bytes), Put(c[1], SubSeq(bytes, Room + 1, Len(bytes))))
    BY <1>1, <2>1, <2>4, <2>5, <2>6, SafeGrow
  <2>7. CASE ret' = 0 /\ UNCHANGED <<frags, historyVars>>
    <3>1. Inside' /\ Genuine' /\ Ordered' /\ RoomAtEnd'
      BY <2>5, <2>7, SafeListKept DEF historyVars
    <3>2. TypeOK' /\ Locals'
      BY <1>1, <2>5, <2>7, EmptySeq DEF SafeInv, TypeOK, Locals, localVars, historyVars
    <3> QED
      BY <3>1, <3>2 DEF SafeInv
  <2> QED
    BY <2>2, <2>6, <2>7 DEF FillBack
<1> QED
  BY <1>2, <1>3 DEF Write

LEMMA SafeNext ==
  ASSUME SafeInv, [Next]_vars
  PROVE  SafeInv'
<1>1. ASSUME NEW bytes \in Inputs, Write(bytes) PROVE SafeInv'
  BY <1>1, SafeWrite
<1>2. ASSUME NEW len \in 0..MaxLen, ReadCall(len) PROVE SafeInv'
  BY <1>2, SafeCalls
<1>3. ASSUME NEW len \in 0..MaxLen, NEW s \in Skips, CopyCall(s, len) PROVE SafeInv'
  BY <1>3, SafeCalls
<1>4. CASE ReadSome
  BY <1>4, SafeReadSome
<1>5. CASE PopFront
  BY <1>5, SafePopFront
<1>6. CASE ReadReturn
  BY <1>6, SafeCalls DEF ReadReturn
<1>7. CASE CopyStep
  BY <1>7, SafeCopyStep
<1>8. CASE CopyReturn
  BY <1>8, SafeCalls DEF CopyReturn
<1>9. ASSUME NEW clearcache \in BOOLEAN, Reset(clearcache) PROVE SafeInv'
  BY <1>9, SafeReset
<1>10. CASE ResetCache
  BY <1>10, SafeCalls
<1>11. CASE UNCHANGED vars
  BY <1>11, SafeCalls
<1> QED
  BY <1>1, <1>2, <1>3, <1>4, <1>5, <1>6, <1>7, <1>8, <1>9, <1>10, <1>11 DEF Next

\* SafeInv holds always, whichever allocation fails.
THEOREM BufferSafety == Spec => []SafeInv
<1>1. Init => SafeInv
  BY SafeInit
<1>2. SafeInv /\ [Next]_vars => SafeInv'
  BY SafeNext
<1> QED
  BY <1>1, <1>2, PTL DEF Spec

\* The state keeps its types, whichever allocation fails: no size falls below zero.
THEOREM BufferTypeCorrect == Spec => []TypeOK
<1>1. SafeInv => TypeOK
  BY DEF SafeInv
<1> QED
  BY <1>1, BufferSafety, PTL

\* No fragment holds more than its array, the one in the cache included, and no call gives
\* its caller more than it asked for, whichever allocation fails and whatever copy_to skips:
\* no memcpy of fragmentation.hpp leaves an array.
THEOREM BufferStaysInside == Spec => [](Inside /\ CallerInside)
<1>1. SafeInv => Inside
  BY DEF SafeInv
<1>2. SafeInv => CallerInside
  <2>1. ASSUME SafeInv, pc # "ready" PROVE Len(got) <= n
    <3>1. n = want + Len(got) /\ want \in Nat /\ Len(got) \in Nat
      BY <2>1, SafeLaid DEF SafeInv, Locals, TypeOK
    <3> QED
      BY <3>1
  <2> QED
    BY <2>1 DEF CallerInside
<1> QED
  BY <1>1, <1>2, BufferSafety, PTL

\* Every byte that can be read was written, and the bytes are in the order of the writes,
\* whichever allocation fails: what a refused array loses is missing, never replaced.
THEOREM BufferIsGenuine == Spec => [](Genuine /\ Ordered)
<1>1. SafeInv => Genuine /\ Ordered
  BY DEF SafeInv
<1> QED
  BY <1>1, BufferSafety, PTL

LEMMA ReadSomeAPiece ==
  ASSUME SafeInv, ReadSome
  PROVE  \E a, b \in 0..Len(stream) :
           /\ a <= b
           /\ got' = got \o SubSeq(stream, a + 1, b)
           /\ stream' = SubSeq(stream, b + 1, Len(stream))
<1> DEFINE k == Smaller(want, Len(frags[1].data))
           a == at[1]
           b == at[1] + k
<1>1. /\ 1 \in 1..Len(frags) /\ k \in 0..Len(frags[1].data)
      /\ b \in Nat /\ b <= Len(stream)
      /\ Peek(frags[1], 0, k) = SubSeq(stream, a + 1, b)
  BY PieceRead
<1>2. frags[1] \in Fragment /\ a \in Nat /\ Len(stream) \in Nat
  BY <1>1, SafeLaid
<1>3. Len(frags[1].data) \in Nat
  BY <1>2, FragmentFields
<1>4. a \in 0..Len(stream) /\ b \in 0..Len(stream) /\ a <= b
  <2>1. k \in Nat /\ b = a + k /\ a \in Nat /\ b \in Nat /\ b <= Len(stream) /\ Len(stream) \in Nat
    BY <1>1, <1>2, <1>3
  <2> HIDE DEF a, b, k
  <2> QED
    BY <2>1
<1>5. got' = got \o SubSeq(stream, a + 1, b) /\ stream' = SubSeq(stream, b + 1, Len(stream))
  BY <1>1 DEF ReadSome
<1> HIDE DEF a, b, k
<1> QED
  BY <1>4, <1>5

\* What a step of a read delivers is a piece of the stream, and the stream goes on after
\* that piece, whichever allocation fails.
THEOREM BufferReadsAPiece == Spec => ReadsAPiece
<1> DEFINE A == got' # got /\ pc = "read" /\ pc' = "read" =>
                  \E a, b \in 0..Len(stream) :
                    /\ a <= b
                    /\ got' = got \o SubSeq(stream, a + 1, b)
                    /\ stream' = SubSeq(stream, b + 1, Len(stream))
<1>1. SafeInv /\ [Next]_vars => [A]_vars
  <2> SUFFICES ASSUME SafeInv, Next, got' # got, pc = "read", pc' = "read" PROVE ReadSome
    BY ReadSomeAPiece
  <2> QED
    BY DEF Next, Write, ReadCall, CopyCall, PopFront, ReadReturn, Return, CopyStep, CopyReturn,
           Reset, ResetCache, localVars
<1> QED
  BY <1>1, BufferSafety, PTL DEF Spec, ReadsAPiece

\* Two places at most d after a.
LEMMA Places ==
  ASSUME NEW a \in Nat, NEW d \in Nat, NEW l \in Nat, a + d <= l, NEW x \in 0..d, NEW y \in 0..d,
         x <= y
  PROVE  /\ a + x \in Nat /\ a + y \in Nat /\ a + x \in 0..l /\ a + y \in 0..l
         /\ a <= a + x /\ a + x <= a + y /\ a + y <= a + d /\ a + y <= l
         /\ (a + y) - (a + x) = y - x /\ y - x \in Nat
         /\ \A j \in 1..(y - x) : (a + x) + j = a + (x + j) /\ x + j \in 1..d
OBVIOUS

\* Where in a fragment what copy_to shows of it begins and ends.
ShownTo(f, ns, k) == Smaller(ns + k, Len(f.data))
ShownFrom(f, ns, k) == Smaller(ns, ShownTo(f, ns, k))

\* p is what the fragment f has between x and y.
PartOf(p, f, x, y) ==
  /\ x \in 0..Len(f.data) /\ y \in 0..Len(f.data) /\ x <= y
  /\ p \in Seq(Byte) /\ Len(p) = y - x
  /\ \A j \in 1..Len(p) : p[j] = f.data[x + j]

LEMMA PeekIsPiece ==
  ASSUME NEW f \in Fragment, NEW ns \in Nat, NEW k \in Nat
  PROVE  PartOf(Peek(f, ns, k), f, ShownFrom(f, ns, k), ShownTo(f, ns, k))
<1> DEFINE d == Len(f.data)
           y == ShownTo(f, ns, k)
           x == ShownFrom(f, ns, k)
           p == Peek(f, ns, k)
<1>1. f.data \in Seq(Byte) /\ d \in Nat
  BY FragmentFields
<1>2. y \in 0..d /\ x \in 0..d /\ x <= y /\ (ns <= y => x = ns) /\ (~(ns <= y) => x = y)
  <2> HIDE DEF d
  <2> QED
    BY <1>1 DEF Smaller, ShownTo, ShownFrom, d
<1>3. p = SubSeq(f.data, ns + 1, y)
  BY DEF Peek, ShownTo
<1> HIDE DEF x, y, p
<1>4. /\ p \in Seq(Byte) /\ Len(p) = IF ns <= y THEN y - ns ELSE 0
      /\ \A j \in 1..Len(p) : p[j] = f.data[ns + j]
  <2>1. y \in Nat /\ y <= Len(f.data)
    BY <1>1, <1>2
  <2>2. /\ SubSeq(f.data, ns + 1, y) \in Seq(Byte)
        /\ Len(SubSeq(f.data, ns + 1, y)) = IF ns <= y THEN y - ns ELSE 0
        /\ \A j \in 1..Len(SubSeq(f.data, ns + 1, y)) : SubSeq(f.data, ns + 1, y)[j] = f.data[ns + j]
    BY <1>1, <2>1, Piece
  <2> QED
    BY <1>3, <2>2
<1> HIDE DEF d
<1>5. Len(p) = y - x /\ (ns = x \/ Len(p) = 0)
  BY <1>1, <1>2, <1>4
<1>6. ASSUME NEW j \in 1..Len(p) PROVE p[j] = f.data[x + j]
  <2>1. ns = x
    <3>1. Len(p) # 0
      OBVIOUS
    <3> QED
      BY <1>5, <3>1
  <2> QED
    BY <2>1, <1>4
<1>7. PartOf(p, f, x, y)
  BY <1>2, <1>4, <1>5, <1>6 DEF PartOf, d
<1> QED
  BY <1>7 DEF x, y, p

\* It is a piece of what the fragment holds of s.
LEMMA PieceShown ==
  ASSUME NEW f \in Fragment, NEW a \in Nat, NEW s \in Seq(Byte), Holds(f, a, s),
         NEW x \in Nat, NEW y \in Nat, NEW p, PartOf(p, f, x, y)
  PROVE  /\ a + x \in 0..Len(s) /\ a + y \in 0..Len(s)
         /\ a <= a + x /\ a + x <= a + y /\ a + y <= a + Len(f.data)
         /\ p = SubSeq(s, (a + x) + 1, a + y)
<1> DEFINE d == Len(f.data)
           l == Len(s)
           b == a + x
           c == a + y
           q == SubSeq(s, b + 1, c)
<1>1. d \in Nat /\ l \in Nat /\ a + d <= l /\ \A j \in 1..d : f.data[j] = s[a + j]
  BY FragmentFields, LenProperties DEF Holds
<1>2. /\ x \in 0..d /\ y \in 0..d /\ x <= y /\ p \in Seq(Byte) /\ Len(p) = y - x
      /\ \A j \in 1..(y - x) : p[j] = f.data[x + j]
  BY DEF PartOf
<1> HIDE DEF d, l
<1>3. /\ b \in Nat /\ c \in Nat /\ b \in 0..l /\ c \in 0..l /\ a <= b /\ b <= c /\ c <= a + d
      /\ c <= l /\ c - b = y - x /\ y - x \in Nat
      /\ \A j \in 1..(y - x) : b + j = a + (x + j) /\ x + j \in 1..d
  BY <1>1, <1>2, Places
<1> HIDE DEF b, c
<1>4. q \in Seq(Byte) /\ Len(q) = y - x /\ \A j \in 1..(y - x) : q[j] = s[b + j]
  <2>1. /\ SubSeq(s, b + 1, c) \in Seq(Byte)
        /\ Len(SubSeq(s, b + 1, c)) = IF b <= c THEN c - b ELSE 0
        /\ \A j \in 1..Len(SubSeq(s, b + 1, c)) : SubSeq(s, b + 1, c)[j] = s[b + j]
    BY <1>3, Piece DEF l
  <2> HIDE DEF q
  <2>2. q = SubSeq(s, b + 1, c)
    BY DEF q
  <2> QED
    BY <1>3, <2>1, <2>2
<1> HIDE DEF q
<1>5. ASSUME NEW j \in 1..(y - x) PROVE p[j] = q[j]
  <2>1. p[j] = f.data[x + j]
    BY <1>2
  <2>2. f.data[x + j] = s[a + (x + j)]
    BY <1>1, <1>3
  <2>3. q[j] = s[a + (x + j)]
    BY <1>3, <1>4
  <2> QED
    BY <2>1, <2>2, <2>3
<1>6. p = q
  BY <1>2, <1>4, <1>5, SeqEqual
<1> QED
  BY <1>3, <1>6 DEF q, b, c, d, l

LEMMA CopyStepAPiece ==
  ASSUME SafeInv, CopyStep
  PROVE  \E a, b \in 0..Len(stream) :
           /\ at[i] <= a /\ a <= b /\ (i < Len(frags) => b <= at[i + 1])
           /\ got' = got \o SubSeq(stream, a + 1, b)
<1> DEFINE f == frags[i]
           o == at[i]
           ns == needSkip'
           next == at[i + 1]
<1>1. /\ i \in 1..Len(frags) /\ f \in Fragment /\ o \in Nat /\ Holds(f, o, stream)
      /\ want \in Nat /\ Len(frags) \in Nat /\ stream \in Seq(Byte) /\ Len(stream) \in Nat
  BY SafeLaid DEF CopyStep, CopyDone, SafeInv, TypeOK, Laid
<1>2. ns \in Nat
  <2>1. Smaller(skip, Len(f.data)) \in Nat
    BY <1>1, FragmentFields DEF Smaller, SafeInv, TypeOK
  <2> QED
    BY <2>1 DEF CopyStep, SafeInv, TypeOK
<1>3. got' = got \o Peek(f, ns, want)
  BY DEF CopyStep
<1>4. i < Len(frags) => o + Len(f.data) <= next /\ next \in Nat
  BY <1>1, SafeLaid DEF Laid
<1>5. o + Len(f.data) \in Nat
  BY <1>1, FragmentFields
<1> HIDE DEF f, o, ns, next
<1> DEFINE x == ShownFrom(f, ns, want)
           y == ShownTo(f, ns, want)
           p == Peek(f, ns, want)
           b == o + x
           c == o + y
<1>9. PartOf(p, f, x, y) /\ x \in Nat /\ y \in Nat
  <2>1. PartOf(p, f, x, y)
    BY <1>1, <1>2, PeekIsPiece
  <2>2. Len(f.data) \in Nat
    BY <1>1, FragmentFields
  <2> HIDE DEF x, y, p
  <2> QED
    BY <2>1, <2>2 DEF PartOf
<1> HIDE DEF x, y, p
<1>6. /\ b \in 0..Len(stream) /\ c \in 0..Len(stream)
      /\ o <= b /\ b <= c /\ c <= o + Len(f.data)
      /\ p = SubSeq(stream, b + 1, c)
  <2>1. f \in Fragment /\ o \in Nat /\ stream \in Seq(Byte) /\ Holds(f, o, stream)
    BY <1>1
  <2> QED
    BY <2>1, <1>9, PieceShown
<1> HIDE DEF b, c
<1>7. i < Len(frags) => c <= next
  <2> DEFINE end == o + Len(f.data)
  <2>1. end \in Nat /\ c \in Nat /\ c <= end
    BY <1>1, <1>5, <1>6
  <2>2. i < Len(frags) => end <= next /\ next \in Nat
    BY <1>4
  <2> HIDE DEF end
  <2> QED
    BY <2>1, <2>2
<1>8. got' = got \o SubSeq(stream, b + 1, c)
  BY <1>3, <1>6 DEF p
<1> QED
  BY <1>6, <1>7, <1>8 DEF o, next

\* What a step of copy_to delivers is a piece of the stream that lies in the fragment the
\* loop is at, whatever is skipped and whichever allocation fails: bytes may be left out,
\* none is repeated, reordered or made up.
THEOREM BufferCopiesAPiece == Spec => CopiesAPiece
<1> DEFINE A == pc = "copy" /\ pc' = "copy" =>
                  \E a, b \in 0..Len(stream) :
                    /\ at[i] <= a /\ a <= b /\ (i < Len(frags) => b <= at[i + 1])
                    /\ got' = got \o SubSeq(stream, a + 1, b)
<1>1. SafeInv /\ [Next]_vars => [A]_vars
  <2> SUFFICES ASSUME SafeInv, Next, pc = "copy", pc' = "copy" PROVE CopyStep
    BY CopyStepAPiece
  <2> QED
    BY DEF Next, Write, ReadCall, CopyCall, ReadSome, PopFront, ReadReturn, Return, CopyReturn,
           Reset, ResetCache
<1> QED
  BY <1>1, BufferSafety, PTL DEF Spec, CopiesAPiece

-----------------------------------------------------------------------------
\* The only fragment holds the stream.
LEMMA OneHoldsAll ==
  ASSUME IInv, Len(frags) = 1
  PROVE  frags[1] \in Fragment /\ frags[1].data = stream
<1>1. frags # <<>> /\ 1 \in DOMAIN frags /\ frags[1] \in Fragment /\ stream \in Seq(Byte)
  BY Domains, EmptySeq DEF IInv, TypeOK
<1>2. at[1] = 0 /\ at[1] + Len(frags[1].data) = Len(stream)
      /\ \A j \in DOMAIN frags[1].data : frags[1].data[j] = stream[at[1] + j]
  BY <1>1 DEF IInv, Fifo, End
<1>3. /\ frags[1].data \in Seq(Byte) /\ Len(frags[1].data) \in Nat
      /\ DOMAIN frags[1].data = 1..Len(frags[1].data)
  BY <1>1, FragmentFields
<1>4. Len(frags[1].data) = Len(stream) /\ \A j \in 1..Len(frags[1].data) : frags[1].data[j] = stream[j]
  BY <1>2, <1>3
<1> QED
  BY <1>1, <1>3, <1>4, SeqEqual

\* A skip beyond the end of a fragment ends up at its end; either way nothing is shown.
LEMMA PastTheEnd ==
  ASSUME NEW f \in Fragment, NEW s \in Nat, NEW k \in Nat
  PROVE  Peek(f, Smaller(s, Len(f.data)), k) = SubSeq(f.data, s + 1, Smaller(s + k, Len(f.data)))
<1> DEFINE d == Len(f.data)
<1>1. d \in Nat /\ f.data \in Seq(Byte)
  BY FragmentFields
<1>2. CASE s <= d
  <2>1. Smaller(s, d) = s
    BY <1>1, <1>2 DEF Smaller
  <2> QED
    BY <2>1 DEF Peek
<1>3. CASE ~(s <= d)
  <2>1. Smaller(s, d) = d /\ Smaller(d + k, d) = d /\ Smaller(s + k, d) = d
    <3> HIDE DEF d
    <3> QED
      BY <1>1, <1>3 DEF Smaller
  <2>2. Peek(f, Smaller(s, d), k) = SubSeq(f.data, d + 1, d)
    BY <2>1 DEF Peek
  <2>3. SubSeq(f.data, d + 1, d) \in Seq(Byte) /\ Len(SubSeq(f.data, d + 1, d)) = 0
    BY <1>1, Piece
  <2>4. SubSeq(f.data, s + 1, d) \in Seq(Byte) /\ Len(SubSeq(f.data, s + 1, d)) = 0
    BY <1>1, <1>3, Piece
  <2> HIDE DEF d
  <2>5. SubSeq(f.data, d + 1, d) = <<>> /\ SubSeq(f.data, s + 1, d) = <<>>
    BY <2>3, <2>4, EmptySeq
  <2>6. SubSeq(f.data, s + 1, Smaller(s + k, d)) = <<>>
    BY <2>1, <2>5
  <2> QED
    BY <2>2, <2>5, <2>6 DEF d
<1> QED
  BY <1>2, <1>3

LEMMA CopyStepOnce ==
  ASSUME IInv, CopyOnce, CopyStep
  PROVE  CopyOnce'
<1> SUFFICES ASSUME Len(frags) = 1
             PROVE  i' > 1 /\ got' = SubSeq(stream, from + 1, Smaller(from + n, Len(stream)))
  BY DEF CopyStep, objectVars, historyVars, CopyOnce
<1>1. /\ frags[1] \in Fragment /\ frags[1].data = stream /\ from \in Nat /\ n \in Nat
      /\ Len(stream) \in Nat
  BY OneHoldsAll, Domains DEF IInv, TypeOK
<1>2. i = 1 /\ got = <<>> /\ skip = from /\ want = n /\ needSkip = 0
  BY DEF CopyStep, CopyDone, CopyOnce
<1>3. needSkip' = Smaller(from, Len(frags[1].data))
  BY <1>1, <1>2 DEF CopyStep, Smaller
<1>4. got' = <<>> \o Peek(frags[1], Smaller(from, Len(frags[1].data)), n) /\ i' = 2
  BY <1>2, <1>3 DEF CopyStep
<1>5. Peek(frags[1], Smaller(from, Len(frags[1].data)), n)
        = SubSeq(stream, from + 1, Smaller(from + n, Len(stream)))
  BY <1>1, PastTheEnd
<1>6. SubSeq(stream, from + 1, Smaller(from + n, Len(stream))) \in Seq(Byte)
  <2> DEFINE b == Smaller(from + n, Len(stream))
  <2>1. b \in Nat /\ b <= Len(stream) /\ stream \in Seq(Byte)
    BY <1>1, FragmentFields DEF Smaller
  <2> HIDE DEF b
  <2>2. SubSeq(stream, from + 1, b) \in Seq(Byte)
    BY <1>1, <2>1, Piece
  <2> QED
    BY <2>2 DEF b
<1> QED
  BY <1>4, <1>5, <1>6, ConcatEmptySeq

LEMMA CopyOnceNext ==
  ASSUME IInv, CopyOnce, [Next]_vars
  PROVE  CopyOnce'
<1>1. ASSUME NEW bytes \in Inputs, Write(bytes) PROVE CopyOnce'
  BY <1>1 DEF Write, localVars, CopyOnce
<1>2. ASSUME NEW len \in 0..MaxLen, ReadCall(len) PROVE CopyOnce'
  BY <1>2 DEF ReadCall, CopyOnce
<1>3. ASSUME NEW len \in 0..MaxLen, NEW s \in Skips, CopyCall(s, len) PROVE CopyOnce'
  <2>1. i = 1 /\ got = <<>> /\ needSkip = 0
    BY <1>3 DEF CopyCall, IInv, Locals
  <2> QED
    BY <1>3, <2>1 DEF CopyCall, objectVars, historyVars, CopyOnce
<1>4. CASE ReadSome
  BY <1>4 DEF ReadSome, CopyOnce
<1>5. CASE PopFront
  BY <1>5 DEF PopFront, localVars, CopyOnce
<1>6. CASE ReadReturn
  BY <1>6 DEF ReadReturn, Return, CopyOnce
<1>7. CASE CopyStep
  BY <1>7, CopyStepOnce
<1>8. CASE CopyReturn
  BY <1>8 DEF CopyReturn, Return, CopyOnce
<1>9. ASSUME NEW clearcache \in BOOLEAN, Reset(clearcache) PROVE CopyOnce'
  BY <1>9 DEF Reset, localVars, CopyOnce
<1>10. CASE ResetCache
  BY <1>10 DEF ResetCache, localVars, CopyOnce
<1>11. CASE UNCHANGED vars
  BY <1>11 DEF vars, objectVars, localVars, historyVars, CopyOnce
<1> QED
  BY <1>1, <1>2, <1>3, <1>4, <1>5, <1>6, <1>7, <1>8, <1>9, <1>10, <1>11 DEF Next

\* As long as one fragment holds the stream, copy_to with a skip delivers what buffer.hpp
\* says it does: the bytes after the first skip ones, all there are or n.
THEOREM BufferOneFragmentSkips == ASSUME "array" \notin Fails PROVE Spec => OneFragmentSkips
<1> DEFINE A == pc = "copy" /\ pc' = "ready" /\ Len(frags) = 1 =>
                  out' = SubSeq(stream, from + 1, Smaller(from + n, Len(stream)))
<1>1. Init => CopyOnce
  BY DEF Init, CopyOnce
<1>2. IInv /\ CopyOnce /\ [Next]_vars => CopyOnce'
  BY CopyOnceNext
<1>3. IInv /\ CopyOnce /\ [Next]_vars => [A]_vars
  <2> SUFFICES ASSUME IInv, CopyOnce, Next, pc = "copy", pc' = "ready", Len(frags) = 1
               PROVE  out' = SubSeq(stream, from + 1, Smaller(from + n, Len(stream)))
    OBVIOUS
  <2>1. CopyReturn
    BY DEF Next, Write, ReadCall, CopyCall, ReadSome, PopFront, ReadReturn, CopyStep, Reset,
           ResetCache
  <2>2. i # 1
    <3>1. i \in Nat
      BY DEF IInv, TypeOK
    <3> QED
      BY <2>1, <3>1 DEF CopyReturn, CopyDone
  <2> QED
    BY <2>1, <2>2 DEF CopyReturn, Return, CopyOnce
<1> QED
  BY <1>1, <1>2, <1>3, BufferInvariance, PTL DEF Spec, OneFragmentSkips
=============================================================================
