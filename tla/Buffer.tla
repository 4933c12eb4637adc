------------------------------- MODULE Buffer -------------------------------
(***************************************************************************)
(* buffer_t and the basic_fragmentation_t it is made of (src/include/kg/   *)
(* bytes/buffer.hpp, fragmentation.hpp): a byte stream kept in a list of   *)
(* fragments, with one emptied fragment cached for the next write.         *)
(*                                                                         *)
(* A fragment is its capacity, its offset and the bytes between _offset    *)
(* and _offset + _size.  write is one step; the loops of read and copy_to  *)
(* take one step per fragment.  The object is used by one thread.          *)
(***************************************************************************)
EXTENDS Integers, Sequences, Functions

CONSTANTS
  Byte,      \* the bytes
  Capacity,  \* _capacity, the size a fragment is made with
  Skips,     \* the skips copy_to is called with; 0 is the overload without one
  Fails,     \* allocations that may fail: "object", "array", "node"
  MaxLen,    \* bound on the length of one call
  MaxSize,   \* bound on the bytes in the stream
  Null

ASSUME BufferAssumption ==
  /\ Capacity \in Nat /\ MaxLen \in Nat /\ MaxSize \in Nat
  /\ Skips \subseteq Nat
  /\ Fails \subseteq {"object", "array", "node"}
  /\ Null \notin [cap : Nat, off : Nat, data : Seq(Byte)]

VARIABLES
  frags,   \* _fragmentations
  cache,   \* _cache
  ret,     \* what the last call returned
  out      \* the bytes the last call left in its caller's memory

\* the locals of read and copy_to
VARIABLES
  pc,      \* "ready", or the loop that is running: "read", "copy"
  n,       \* the length the call was given
  want,    \* n of the code: bytes still to deliver
  got,     \* bytes delivered so far; their number is sum
  i,       \* the fragment the loop of copy_to is at
  from,    \* the skip the call was given
  skip, needSkip  \* skip and need_skip of the code

\* history: the bytes write has accepted that are not yet read or discarded, and the
\* number of them before each fragment
VARIABLES stream, at

objectVars  == <<frags, cache>>
localVars   == <<pc, n, want, got, i, from, skip, needSkip>>
historyVars == <<stream, at>>
vars == <<objectVars, ret, out, localVars, historyVars>>

Fragment == [cap : Nat, off : Nat, data : Seq(Byte)]

Smaller(a, b) == IF a <= b THEN a ELSE b

Init ==
  /\ frags = <<>> /\ cache = Null
  /\ ret = 0 /\ out = <<>>
  /\ pc = "ready" /\ n = 0 /\ want = 0 /\ got = <<>>
  /\ i = 1 /\ from = 0 /\ skip = 0 /\ needSkip = 0
  /\ stream = <<>> /\ at = <<>>

-----------------------------------------------------------------------------
(* basic_fragmentation_t                                                    *)

\* The constructor, when the array can be had.
NewFragment(size) == [cap |-> size, off |-> 0, data |-> <<>>]
GetFree(f) == f.cap - f.off - Len(f.data)

\* variant: the bytes stay
Rewind(f) == [f EXCEPT !.off = 0]
Reinit(f) == [f EXCEPT !.off = 0, !.data = <<>>]

\* write: as many of the bytes as there is room for.
Put(f, bytes) == [f EXCEPT !.data = @ \o SubSeq(bytes, 1, Smaller(Len(bytes), GetFree(f)))]

\* read: what is left when k bytes are taken from the front.
Drop(f, k) == [f EXCEPT !.off = @ + k, !.data = SubSeq(@, k + 1, Len(@))]

\* variant: the room the caller has is not looked at
PeekAll(f, s, k) == SubSeq(f.data, s + 1, Len(f.data))
\* copy_to: the bytes from s on, at most k of them.
Peek(f, s, k) == SubSeq(f.data, s + 1, Smaller(s + k, Len(f.data)))

\* size: the bytes that can be read.
Size == FoldFunction(+, 0, [k \in DOMAIN frags |-> Len(frags[k].data)])

-----------------------------------------------------------------------------
(* write                                                                    *)

\* create_fragmentation: the fragment and what is cached afterwards.  An array that
\* cannot be had leaves a fragment without room.
Create(size) ==
  IF cache # Null /\ cache.cap >= size
  THEN {<<Reinit(cache), Null>>}
  ELSE {<<NewFragment(size), cache>>}
       \cup {<<NewFragment(0), cache>> : x \in Fails \cap {"array"}}
       \cup {<<Null, cache>> : x \in Fails \cap {"object"}}

Room == IF frags = <<>> THEN 0 ELSE GetFree(frags[Len(frags)])

\* The size asked for by a write that does not fit.
GrowBy(len) ==
  IF frags # <<>> /\ Capacity > len - Room THEN Capacity ELSE len - Room

Accepted(bytes) ==
  /\ ret' = Len(bytes)
  /\ stream' = stream \o bytes

\* The last fragment takes as many of the bytes as it can.
Filled(bytes) == IF frags = <<>> THEN frags ELSE [frags EXCEPT ![Len(frags)] = Put(@, bytes)]

WriteBack(bytes) ==
  /\ frags # <<>> /\ Room >= Len(bytes)
  /\ frags' = Filled(bytes)
  /\ Accepted(bytes)
  /\ UNCHANGED <<cache, at>>

\* variant: the fragment at the back is left as it is
SkipBack(bytes) == frags
\* The first of the two writes of a write that does not fit.
FillBack(bytes) == Filled(bytes)

WriteGrow(bytes) ==
  /\ frags = <<>> \/ Room < Len(bytes)
  /\ \E c \in Create(GrowBy(Len(bytes))) :
       /\ cache' = c[2]
       /\ \/ /\ c[1] # Null
             /\ frags' = Append(FillBack(bytes), Put(c[1], SubSeq(bytes, Room + 1, Len(bytes))))
             /\ Accepted(bytes)
             /\ at' = Append(at, Len(stream) + Room)
          \/ /\ c[1] = Null \/ "node" \in Fails
             /\ ret' = 0
             /\ UNCHANGED <<frags, historyVars>>

Write(bytes) ==
  /\ pc = "ready" /\ bytes # <<>>
  /\ WriteBack(bytes) \/ WriteGrow(bytes)
  /\ out' = <<>>
  /\ UNCHANGED localVars

-----------------------------------------------------------------------------
(* read                                                                     *)

ReadCall(len) ==
  /\ pc = "ready"
  /\ pc' = "read" /\ n' = len /\ want' = len
  /\ UNCHANGED <<objectVars, ret, out, got, i, from, skip, needSkip, historyVars>>

\* get_read_fragmentation finds data: take what is wanted of it.  Bytes that were lost
\* before it (at[1] of them) are passed over.
ReadSome ==
  /\ pc = "read" /\ want > 0 /\ frags # <<>> /\ frags[1].data # <<>>
  /\ LET k == Smaller(want, Len(frags[1].data)) IN
       /\ got' = got \o Peek(frags[1], 0, k)
       /\ frags' = [frags EXCEPT ![1] = Drop(@, k)]
       /\ want' = want - k
       /\ stream' = SubSeq(stream, at[1] + k + 1, Len(stream))
       /\ at' = [j \in DOMAIN at |-> IF j = 1 THEN 0 ELSE at[j] - (at[1] + k)]
  /\ UNCHANGED <<cache, ret, out, pc, n, i, from, skip, needSkip>>

\* cache_fragmentation
Cached(f) == IF cache = Null \/ Len(cache.data) < Len(f.data) THEN f ELSE cache

\* An empty fragment at the front is cached and removed, by get_read_fragmentation
\* or by remove_no_read_fragmentation.
PopFront ==
  /\ pc = "read" /\ frags # <<>> /\ frags[1].data = <<>>
  /\ cache' = Cached(frags[1])
  /\ frags' = Tail(frags)
  /\ at' = Tail(at)
  /\ UNCHANGED <<ret, out, localVars, stream>>

\* The call returns what it has delivered; its locals are gone.
Return ==
  /\ ret' = Len(got) /\ out' = got
  /\ pc' = "ready" /\ n' = 0 /\ want' = 0 /\ got' = <<>>
  /\ i' = 1 /\ from' = 0 /\ skip' = 0 /\ needSkip' = 0
  /\ UNCHANGED <<objectVars, historyVars>>

\* variant: a fragment that has been read to its end ends the call
OneFragment == frags # <<>> => want = 0 \/ frags[1].data = <<>>
\* The loop is at its end, and the front of the list has been cleaned up.
ReadDone == frags # <<>> => want = 0 /\ frags[1].data # <<>>

ReadReturn == pc = "read" /\ ReadDone /\ Return

-----------------------------------------------------------------------------
(* copy_to                                                                  *)

CopyCall(s, len) ==
  /\ pc = "ready"
  /\ pc' = "copy" /\ n' = len /\ want' = len /\ from' = s /\ skip' = s
  /\ UNCHANGED <<objectVars, ret, out, got, i, needSkip, historyVars>>

\* The loop is at its end, or broken off when nothing more is wanted.
CopyDone == i > Len(frags) \/ (i > 1 /\ want = 0)

\* need_skip keeps its value when nothing is left to skip.
CopyStep ==
  /\ pc = "copy" /\ ~CopyDone
  /\ needSkip' = IF skip > 0 THEN Smaller(skip, Len(frags[i].data)) ELSE needSkip
  /\ skip' = IF skip > 0 THEN skip - needSkip' ELSE 0
  /\ LET part == Peek(frags[i], needSkip', want) IN
       /\ got' = got \o part
       /\ want' = want - Len(part)
  /\ i' = i + 1
  /\ UNCHANGED <<objectVars, ret, out, pc, n, from, historyVars>>

CopyReturn == pc = "copy" /\ CopyDone /\ Return

-----------------------------------------------------------------------------
(* reset, reset_cache                                                       *)

Reset(clearcache) ==
  /\ pc = "ready"
  /\ cache' = IF clearcache THEN Null
              ELSE IF cache = Null /\ frags # <<>> THEN frags[Len(frags)] ELSE cache
  /\ frags' = <<>>
  /\ stream' = <<>> /\ at' = <<>>
  /\ UNCHANGED <<ret, out, localVars>>

ResetCache ==
  /\ pc = "ready"
  /\ cache' = Null
  /\ UNCHANGED <<frags, ret, out, localVars, historyVars>>

-----------------------------------------------------------------------------
\* Bounds: MaxLen on a call, MaxSize on the stream.
Inputs == {bytes \in UNION {[1..len -> Byte] : len \in 1..MaxLen} : Len(stream) + Len(bytes) <= MaxSize}

Next ==
  \/ \E bytes \in Inputs : Write(bytes)
  \/ \E len \in 0..MaxLen : ReadCall(len) \/ \E s \in Skips : CopyCall(s, len)
  \/ ReadSome \/ PopFront \/ ReadReturn \/ CopyStep \/ CopyReturn
  \/ \E clearcache \in BOOLEAN : Reset(clearcache)
  \/ ResetCache

Spec == Init /\ [][Next]_vars

-----------------------------------------------------------------------------
(* Properties                                                               *)

TypeOK ==
  /\ frags \in Seq(Fragment) /\ cache \in Fragment \cup {Null}
  /\ ret \in Nat /\ out \in Seq(Byte)
  /\ pc \in {"ready", "read", "copy"}
  /\ n \in Nat /\ want \in Nat /\ got \in Seq(Byte)
  /\ i \in Nat \ {0} /\ from \in Nat /\ skip \in Nat /\ needSkip \in Nat
  /\ stream \in Seq(Byte) /\ at \in Seq(Nat)

\* A fragment never holds more than its array does (every memcpy of fragmentation.hpp
\* stays inside it), every fragment but the last is full to the end, and between calls
\* none is empty: a write finds all the free room in the last one, and read and copy_to
\* find data in every fragment they look at.
Packed ==
  /\ \A k \in DOMAIN frags :
       /\ GetFree(frags[k]) >= 0
       /\ k < Len(frags) => GetFree(frags[k]) = 0
       /\ k = 1 => (pc # "read" => frags[k].data # <<>>)
       /\ k > 1 => frags[k].data # <<>>

\* The fragments, in the order of the list, are exactly the bytes written and neither
\* read nor reset: nothing is lost, repeated or reordered when a write is split between
\* two fragments or fails half-way, or when a fragment is reused from the cache.
End(k) == IF k = Len(frags) THEN Len(stream) ELSE at[k + 1]
Fifo ==
  /\ Len(at) = Len(frags)
  /\ IF frags = <<>> THEN stream = <<>> ELSE at[1] = 0
  /\ \A k \in DOMAIN frags :
       /\ at[k] + Len(frags[k].data) = End(k)
       /\ \A j \in DOMAIN frags[k].data : frags[k].data[j] = stream[at[k] + j]

\* What makes Packed and Fifo inductive: the fragments lie one after the other in the
\* stream, not only each after the one before it; the locals of a call.
Ordered ==
  /\ \A j, k \in DOMAIN at : j < k => at[j] + Len(frags[j].data) <= at[k]
  /\ \A k \in DOMAIN at : at[k] + Len(frags[k].data) <= Len(stream)
Locals ==
  /\ pc = "ready" => want = 0 /\ got = <<>> /\ i = 1 /\ needSkip = 0
  /\ n = want + Len(got) \/ pc = "ready"
  /\ n <= MaxLen /\ skip <= from
  /\ IF pc = "copy" THEN from \in Skips ELSE from = 0
CopyLoop == pc = "copy" /\ from = 0 =>
  /\ needSkip = 0
  /\ Len(got) <= Len(stream)
  /\ \A j \in DOMAIN got : got[j] = stream[j]
  /\ IF CopyDone THEN want = 0 \/ Len(got) = Len(stream) ELSE Len(got) = at[i]
IInv == TypeOK /\ Packed /\ Fifo /\ Ordered /\ Locals /\ CopyLoop

\* Whatever allocation fails, the array of a fragment too: no fragment, the cached one
\* included, holds more than its array does.
Inside ==
  /\ \A k \in DOMAIN frags : GetFree(frags[k]) >= 0
  /\ cache # Null => GetFree(cache) >= 0

\* Whatever allocation fails and whatever is skipped, a call has put no more into its
\* caller's memory than there is room for.
CallerInside == pc # "ready" => Len(got) <= n

\* Whatever allocation fails, every byte that can be read is a byte that was written, and
\* (with Ordered) the bytes are in the order of the writes, none twice: what a refused
\* array loses is missing, never replaced.
Genuine ==
  /\ Len(at) = Len(frags)
  /\ \A k \in DOMAIN frags :
       \A j \in DOMAIN frags[k].data : frags[k].data[j] = stream[at[k] + j]

\* What makes Inside and Genuine inductive: a fragment that bytes can be added to ends
\* where the stream ends.
RoomAtEnd == Room > 0 => at[Len(frags)] + Len(frags[Len(frags)].data) = Len(stream)
SafeInv == TypeOK /\ Inside /\ Genuine /\ Ordered /\ RoomAtEnd /\ Locals

\* What one step of a read delivers is a piece of the stream, and no byte before the end
\* of that piece is delivered later.
ReadsAPiece ==
  [][got' # got /\ pc = "read" /\ pc' = "read" =>
       \E a, b \in 0..Len(stream) :
         /\ a <= b
         /\ got' = got \o SubSeq(stream, a + 1, b)
         /\ stream' = SubSeq(stream, b + 1, Len(stream))]_vars

\* What one step of copy_to delivers is a piece of the stream, from the fragment it is at:
\* a skip leaves bytes out, and does not reorder or repeat any.
CopiesAPiece ==
  [][pc = "copy" /\ pc' = "copy" =>
       \E a, b \in 0..Len(stream) :
         /\ at[i] <= a /\ a <= b /\ (i < Len(frags) => b <= at[i + 1])
         /\ got' = got \o SubSeq(stream, a + 1, b)]_vars

\* buffer_t is the byte stream of ByteStream: its bytes are those not yet read, together
\* with those a read in progress has taken, and every call returns and delivers what a
\* stream would, whatever the fragments look like and whichever allocation fails.
Stream == INSTANCE ByteStream WITH stream <- IF pc = "read" THEN got \o stream ELSE stream,
                                   call <- pc, asked <- n, past <- from
StreamSpec == Stream!Spec

\* "On any error nothing is written and 0 is returned" (buffer.hpp:100): what write
\* said it had written can be read.
NothingLost == Size = Len(stream)

\* "skip: leave out the first skip bytes of the buffer; copy all there is, or n"
\* (buffer.hpp:238-247).
CopySkips ==
  [][pc = "copy" /\ pc' = "ready" =>
       out' = SubSeq(stream, from + 1, Smaller(from + n, Len(stream)))]_vars

\* It is true as long as one fragment holds the stream.
OneFragmentSkips ==
  [][pc = "copy" /\ pc' = "ready" /\ Len(frags) = 1 =>
       out' = SubSeq(stream, from + 1, Smaller(from + n, Len(stream)))]_vars

\* What makes it so: the one step of copy_to's loop has been taken, or not.
CopyOnce ==
  pc = "copy" /\ Len(frags) = 1 =>
    \/ i = 1 /\ got = <<>> /\ skip = from /\ want = n /\ needSkip = 0
    \/ i > 1 /\ got = SubSeq(stream, from + 1, Smaller(from + n, Len(stream)))
=============================================================================
