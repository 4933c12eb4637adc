---------------------------- MODULE SliceProofs ----------------------------
(***************************************************************************)
(* Proofs about Slice, for every set of variables and elements and for     *)
(* every way of calling it: slices keep their types and stay inside their  *)
(* arrays; when no copy begins inside its source, append and copy_from of  *)
(* a slice deliver the elements they were called with; and when no single  *)
(* value is appended to a slice behind its array's start, slice_t is the   *)
(* slice of GoSlices.                                                      *)
(***************************************************************************)
EXTENDS Slice, TLAPS

Element == T \cup {Unset}
Safe == TypeOK /\ InBounds

\* A slice ends where its array does.
Fitting(s, m) ==
  /\ s \in SliceImpl
  /\ s.size <= s.cap
  /\ IF s.arr = None THEN s.pos + s.cap = 0 ELSE s.pos + s.cap = Len(m[s.arr])

\* The arrays in use keep their lengths.
SameLengths(m) ==
  /\ m \in [Arrays -> Seq(Element)]
  /\ \A x \in Names : slices[x].arr # None => Len(m[slices[x].arr]) = Len(mem[slices[x].arr])

-----------------------------------------------------------------------------
(* Lemmas about the operators                                               *)

\* Overwriting elements of an array leaves it as long as it was.
LEMMA OverlayKeeps ==
  ASSUME NEW array \in Seq(Element), NEW at \in Nat, NEW values \in Seq(Element)
  PROVE  /\ Overlay(array, at, values) \in Seq(Element)
         /\ Len(Overlay(array, at, values)) = Len(array)
<1> DEFINE o == Overlay(array, at, values)
<1>1. DOMAIN o = 1..Len(array)
  BY DEF Overlay
<1>2. \A i \in 1..Len(array) : o[i] \in Element
  <2> SUFFICES ASSUME NEW i \in 1..Len(array) PROVE o[i] \in Element
    OBVIOUS
  <2>1. o[i] = IF i - at \in DOMAIN values THEN values[i - at] ELSE array[i]
    BY DEF Overlay
  <2> QED BY <2>1
<1>3. o \in [1..Len(array) -> Element]
  BY <1>1, <1>2 DEF Overlay
<1> QED BY <1>3

\* What a slice shows is a sequence of elements, as long as the slice.
LEMMA ElementsOf ==
  ASSUME Safe, NEW x \in Names
  PROVE  View(x) \in Seq(Element) /\ Len(View(x)) = slices[x].size
<1> DEFINE s == slices[x]
<1>1. s \in SliceImpl /\ s.size \in Nat /\ s.pos \in Nat /\ s.cap \in Nat
  BY DEF Safe, TypeOK, SliceImpl
<1>2. \A i \in 1..s.size : mem[s.arr][s.pos + i] \in Element
  <2> SUFFICES ASSUME NEW i \in 1..s.size PROVE mem[s.arr][s.pos + i] \in Element
    OBVIOUS
  <2>1. s.arr # None /\ s.pos + s.cap = Len(mem[s.arr]) /\ s.size <= s.cap
    <3>1. /\ s.size <= s.cap
          /\ IF s.arr = None THEN s.pos + s.cap = 0 ELSE s.pos + s.cap = Len(mem[s.arr])
      BY DEF Safe, InBounds
    <3>2. i \in 1..s.size
      OBVIOUS
    <3> HIDE DEF s
    <3> QED BY <1>1, <3>1, <3>2
  <2>2. mem[s.arr] \in Seq(Element)
    BY <1>1, <2>1 DEF Safe, TypeOK, SliceImpl, Element
  <2>3. s.pos + i \in 1..Len(mem[s.arr])
    BY <1>1, <2>1
  <2> HIDE DEF s
  <2> QED BY <2>2, <2>3
<1>3. View(x) \in [1..s.size -> Element]
  BY <1>2 DEF View, Elements
<1> QED BY <1>1, <1>3

\* Assigning a slice that fits, on arrays as long as before, keeps everything in bounds.
LEMMA AssignKeeps ==
  ASSUME Safe, NEW d \in Names, NEW s, NEW m, Fitting(s, m), SameLengths(m), Assign(d, s, m)
  PROVE  Safe'
<1>1. slices' = [slices EXCEPT ![d] = s] /\ slices' \in [Names -> SliceImpl]
  BY DEF Assign, Fitting, Safe, TypeOK
<1>2. mem' = [a \in Arrays |-> IF \E x \in Names : slices'[x].arr = a THEN m[a] ELSE <<>>]
  BY DEF Assign
<1>3. mem' \in [Arrays -> Seq(Element)]
  BY <1>2 DEF SameLengths
<1>4. ASSUME NEW x \in Names
      PROVE  /\ slices'[x].size <= slices'[x].cap
             /\ IF slices'[x].arr = None THEN slices'[x].pos + slices'[x].cap = 0
                ELSE slices'[x].pos + slices'[x].cap = Len(mem'[slices'[x].arr])
  <2>1. slices'[x].arr # None => slices'[x].arr \in Arrays /\ mem'[slices'[x].arr] = m[slices'[x].arr]
    BY <1>1, <1>2 DEF SliceImpl
  <2>2. CASE x = d
    <3>1. slices'[x] = s
      BY <1>1, <2>2 DEF Safe, TypeOK
    <3> QED BY <2>1, <3>1 DEF Fitting
  <2>3. CASE x # d
    <3>1. slices'[x] = slices[x]
      BY <1>1, <2>3 DEF Safe, TypeOK
    <3> QED BY <2>1, <3>1 DEF Safe, InBounds, SameLengths
  <2> QED BY <2>2, <2>3
<1> QED BY <1>1, <1>3, <1>4 DEF Safe, TypeOK, InBounds, Element

\* Writing into the array of a slice keeps every length.
LEMMA WriteKeeps ==
  ASSUME Safe, NEW x \in Names, slices[x].arr # None,
         NEW array \in Seq(Element), Len(array) = Len(mem[slices[x].arr])
  PROVE  SameLengths([mem EXCEPT ![slices[x].arr] = array])
<1>1. slices[x].arr \in Arrays
  BY DEF Safe, TypeOK, SliceImpl
<1> QED BY <1>1 DEF Safe, TypeOK, SameLengths, Element

\* A slice on an array of its own fits.
LEMMA NewArrayKeeps ==
  ASSUME Safe, NEW d \in Names, NEW size \in Nat, NEW elements \in Seq(Element),
         size <= Len(elements), NewArray(d, size, elements)
  PROVE  Safe'
<1>1. PICK a \in Arrays \ InUse :
        Assign(d, [arr |-> a, pos |-> 0, size |-> size, cap |-> Len(elements)],
                  [mem EXCEPT ![a] = elements])
  BY DEF NewArray
<1> DEFINE s == [arr |-> a, pos |-> 0, size |-> size, cap |-> Len(elements)]
           m == [mem EXCEPT ![a] = elements]
<1>2. m \in [Arrays -> Seq(Element)] /\ m[a] = elements
  BY DEF Safe, TypeOK, Element
<1>3. Fitting(s, m)
  <2>1. Len(elements) \in Nat /\ a # None
    BY SliceAssumption
  <2> QED BY <1>2, <2>1 DEF Fitting, SliceImpl
<1>4. SameLengths(m)
  <2>1. \A x \in Names : slices[x].arr # a
    BY DEF InUse
  <2> QED BY <1>2, <2>1 DEF SameLengths, Safe, TypeOK, SliceImpl
<1> HIDE DEF s, m
<1> QED BY <1>1, <1>3, <1>4, AssignKeeps DEF s, m

\* What append and range return for a slice is on the slice's array and fits.
LEMMA SubFits ==
  ASSUME Safe, NEW x \in Names, NEW begin \in Nat, NEW size \in Nat,
         begin <= slices[x].cap, size <= slices[x].cap - begin
  PROVE  Fitting(Sub(slices[x], begin, size), mem)
BY DEF Safe, TypeOK, InBounds, SliceImpl, Sub, RestCap, Fitting

LEMMA LongerFits ==
  ASSUME Safe, NEW x \in Names, NEW n \in Nat, Fits(slices[x], n), NEW m, SameLengths(m)
  PROVE  Fitting(Longer(slices[x], n), m)
BY DEF Safe, TypeOK, InBounds, SliceImpl, Longer, Fits, Fitting, SameLengths

LEMMA MemKept == ASSUME Safe PROVE SameLengths(mem)
BY DEF Safe, TypeOK, SameLengths, Element

\* The new capacity has room for the old elements and the values.
LEMMA GrowRoom ==
  ASSUME Safe, NEW x \in Names, NEW values \in Seq(Element)
  PROVE  LET cap == GrowTo(slices[x], Len(values))
         IN  cap \in Nat /\ Len(View(x) \o values) <= cap
<1> DEFINE s == slices[x]
           n == Len(values)
           cap == GrowTo(s, n)
           twice == IF s.cap = 0 THEN 1 ELSE 2 * s.cap
<1>1. View(x) \in Seq(Element) /\ Len(View(x)) = s.size /\ s.size \in Nat /\ s.cap \in Nat
  BY ElementsOf DEF Safe, TypeOK, SliceImpl
<1>2. Len(View(x) \o values) = s.size + n
  BY <1>1
<1>3. n \in Nat /\ twice \in Nat /\ s.size + n \in Nat
  <2>1. n \in Nat
    OBVIOUS
  <2> HIDE DEF s, n
  <2> QED BY <1>1, <2>1
<1>4. cap = IF twice < s.size + n THEN s.size + n ELSE twice
  BY DEF GrowTo
<1> HIDE DEF s, n, cap, twice
<1>5. cap \in Nat /\ s.size + n <= cap
  BY <1>3, <1>4
<1> QED BY <1>2, <1>5 DEF s, n, cap

\* Growing copies the old elements and the values to an array with room for both.
LEMMA GrowKeeps ==
  ASSUME Safe, NEW d \in Names, NEW x \in Names, NEW values \in Seq(Element),
         Grow(d, slices[x], values)
  PROVE  Safe'
<1> DEFINE s == slices[x]
           whole == View(x) \o values
           cap == GrowTo(s, Len(values))
           elements == [i \in 1..cap |-> IF i \in DOMAIN whole THEN whole[i] ELSE Unset]
<1>1. View(x) \in Seq(Element) /\ Len(View(x)) = s.size /\ s.size \in Nat /\ s.cap \in Nat
  BY ElementsOf DEF Safe, TypeOK, SliceImpl
<1>2. whole \in Seq(Element) /\ Len(whole) = s.size + Len(values) /\ Len(values) \in Nat
  BY <1>1
<1>3. cap \in Nat /\ Len(whole) <= cap
  BY GrowRoom
<1>4. \A i \in 1..cap : elements[i] \in Element
  BY <1>2 DEF Element
<1>5. elements \in [1..cap -> Element]
  BY <1>4
<1>6. elements \in Seq(Element) /\ Len(elements) = cap
  BY <1>3, <1>5
<1>7. NewArray(d, Len(whole), elements)
  BY DEF Grow, View
<1>8. Len(whole) \in Nat
  BY <1>1, <1>2
<1> HIDE DEF whole, cap, elements
<1> QED BY <1>3, <1>6, <1>7, <1>8, NewArrayKeeps

-----------------------------------------------------------------------------
(* One lemma per action                                                     *)

LEMMA MakeStep ==
  ASSUME Safe, NEW d \in Names, NEW size \in Nat, NEW capacity \in Nat, Make(d, size, capacity)
  PROVE  Safe'
<1> DEFINE cap == IF capacity < size THEN size ELSE capacity
<1>1. CASE cap = 0 /\ Assign(d, Empty, mem)
  <2>1. Fitting(Empty, mem)
    BY DEF Fitting, Empty, SliceImpl
  <2> QED BY <1>1, <2>1, MemKept, AssignKeeps
<1>2. CASE NewArray(d, size, [i \in 1..cap |-> Unset])
  <2>1. [i \in 1..cap |-> Unset] \in Seq(Element) /\ Len([i \in 1..cap |-> Unset]) = cap
    BY DEF Element
  <2> QED BY <1>2, <2>1, NewArrayKeeps
<1> QED BY <1>1, <1>2 DEF Make

LEMMA RangeStep ==
  ASSUME Safe, NEW d \in Names, NEW x \in Names, NEW begin \in Nat, NEW end \in Nat,
         RangeFrom(d, x, begin) \/ RangeTo(d, x, begin, end)
  PROVE  Safe'
<1> DEFINE s == slices[x]
           e == IF end > s.cap THEN s.cap ELSE end
           size == IF begin < e THEN e - begin ELSE 0
<1>1. s.size \in Nat /\ s.cap \in Nat /\ s.size <= s.cap
  BY DEF Safe, TypeOK, SliceImpl, InBounds
<1>2. CASE RangeFrom(d, x, begin)
  <2>1. begin <= s.cap /\ s.size - begin \in Nat /\ s.size - begin <= s.cap - begin
    BY <1>1, <1>2 DEF RangeFrom, ValidBegin
  <2>2. Fitting(Sub(s, begin, s.size - begin), mem)
    BY <2>1, SubFits
  <2> QED BY <1>2, <2>2, MemKept, AssignKeeps DEF RangeFrom
<1>3. CASE RangeTo(d, x, begin, end)
  <2>1. begin <= s.cap /\ size \in Nat /\ size <= s.cap - begin
    BY <1>1, <1>3 DEF RangeTo
  <2>2. Fitting(Sub(s, begin, size), mem)
    BY <2>1, SubFits
  <2>3. Assign(d, Sub(s, begin, size), mem)
    BY <1>3 DEF RangeTo
  <2> QED BY <2>2, <2>3, MemKept, AssignKeeps
<1> QED BY <1>2, <1>3

\* The array of a slice that shows something, or has room for more.
LEMMA HasArray ==
  ASSUME Safe, NEW x \in Names, slices[x].cap > 0
  PROVE  slices[x].arr # None /\ slices[x].arr \in Arrays /\ mem[slices[x].arr] \in Seq(Element)
BY DEF Safe, TypeOK, SliceImpl, InBounds, Element

LEMMA AppendValueStep ==
  ASSUME Safe, NEW d \in Names, NEW x \in Names, NEW v \in T, AppendValue(d, x, v)
  PROVE  Safe'
<1> DEFINE s == slices[x]
<1>1. <<v>> \in Seq(Element) /\ Len(<<v>>) = 1 /\ s.size \in Nat /\ s.cap \in Nat
  BY DEF Element, Safe, TypeOK, SliceImpl
<1>2. CASE Fits(s, 1) /\ Assign(d, Longer(s, 1), [mem EXCEPT ![s.arr] = Overlay(@, s.size, <<v>>)])
  <2>1. s.arr # None /\ s.arr \in Arrays /\ mem[s.arr] \in Seq(Element)
    BY <1>1, <1>2, HasArray DEF Fits
  <2> DEFINE array == Overlay(mem[s.arr], s.size, <<v>>)
             m == [mem EXCEPT ![s.arr] = array]
  <2>2. array \in Seq(Element) /\ Len(array) = Len(mem[s.arr])
    BY <1>1, <2>1, OverlayKeeps
  <2>3. SameLengths(m)
    BY <2>1, <2>2, WriteKeeps
  <2>4. Fitting(Longer(s, 1), m)
    BY <1>2, <2>3, LongerFits
  <2>5. Assign(d, Longer(s, 1), m)
    BY <1>2
  <2> HIDE DEF m
  <2> QED BY <2>3, <2>4, <2>5, AssignKeeps
<1>3. CASE Grow(d, s, <<v>>)
  BY <1>1, <1>3, GrowKeeps
<1> QED BY <1>2, <1>3 DEF AppendValue

LEMMA ExtendKeeps ==
  ASSUME Safe, NEW d \in Names, NEW x \in Names, NEW values \in Seq(Element), Extend(d, x, values)
  PROVE  Safe'
<1> DEFINE s == slices[x]
           n == Len(values)
<1>1. n \in Nat /\ s.size \in Nat /\ s.cap \in Nat /\ s.pos \in Nat /\ EndOf(s) \in Nat
  BY DEF Safe, TypeOK, SliceImpl, EndOf
<1>2. CASE values = <<>> /\ Fits(s, n) /\ Assign(d, Longer(s, n), mem)
  BY <1>1, <1>2, MemKept, LongerFits, AssignKeeps
<1>3. CASE values # <<>> /\ Fits(s, n)
           /\ Assign(d, Longer(s, n), [mem EXCEPT ![s.arr] = Overlay(@, EndOf(s), values)])
  <2>1. s.arr # None /\ s.arr \in Arrays /\ mem[s.arr] \in Seq(Element)
    <3>1. n > 0
      BY <1>3
    <3> QED BY <1>1, <1>3, <3>1, HasArray DEF Fits
  <2> DEFINE array == Overlay(mem[s.arr], EndOf(s), values)
             m == [mem EXCEPT ![s.arr] = array]
  <2>2. array \in Seq(Element) /\ Len(array) = Len(mem[s.arr])
    BY <1>1, <2>1, OverlayKeeps
  <2>3. SameLengths(m)
    BY <2>1, <2>2, WriteKeeps
  <2>4. Fitting(Longer(s, n), m)
    BY <1>1, <1>3, <2>3, LongerFits
  <2>5. Assign(d, Longer(s, n), m)
    BY <1>3
  <2> HIDE DEF m
  <2> QED BY <2>3, <2>4, <2>5, AssignKeeps
<1>4. CASE Grow(d, s, values)
  BY <1>4, GrowKeeps
<1> QED BY <1>2, <1>3, <1>4 DEF Extend

\* Whatever an overlapping copy leaves, it leaves elements and the array's length.
LEMMA CopyKeeps ==
  ASSUME NEW array \in Seq(Element), NEW from \in Nat, NEW at \in Nat, NEW n \in Nat,
         from + n <= Len(array), NEW r \in CopyResults(array, from, at, n)
  PROVE  r \in Seq(Element) /\ Len(r) = Len(array)
<1> DEFINE block == SubSeq(array, from + 1, from + n)
           each == [i \in 1..n |-> array[from + 1 + ((i - 1) % (at - from))]]
<1>1. CASE r = Overlay(array, at, block)
  <2>1. block \in Seq(Element)
    OBVIOUS
  <2> HIDE DEF block
  <2> QED BY <1>1, <2>1, OverlayKeeps
<1>2. CASE InsideSource(from, at, n) /\ r = Overlay(array, at, each)
  <2>1. at - from \in Nat /\ 0 < at - from /\ at - from < n
    BY <1>2 DEF InsideSource
  <2>2. ASSUME NEW i \in 1..n PROVE array[from + 1 + ((i - 1) % (at - from))] \in Element
    <3> DEFINE k == (i - 1) % (at - from)
    <3>1. k \in 0..(at - from - 1)
      BY <2>1
    <3> HIDE DEF k
    <3>2. from + 1 + k \in 1..Len(array)
      BY <2>1, <3>1
    <3>3. array[from + 1 + k] \in Element
      BY <3>2
    <3> QED BY <3>3 DEF k
  <2>3. each \in [1..n -> Element]
    BY <2>2
  <2>4. each \in Seq(Element)
    BY <2>3
  <2> HIDE DEF each
  <2> QED BY <1>2, <2>4, OverlayKeeps
<1> QED BY <1>1, <1>2 DEF CopyResults

LEMMA AppendSliceStep ==
  ASSUME Safe, NEW d \in Names, NEW x \in Names, NEW y \in Names, AppendSlice(d, x, y)
  PROVE  Safe'
<1> DEFINE s == slices[x]
           t == slices[y]
<1>1. /\ s.size \in Nat /\ s.cap \in Nat /\ s.pos \in Nat /\ EndOf(s) \in Nat
      /\ t.size \in Nat /\ t.cap \in Nat /\ t.pos \in Nat /\ t.size <= t.cap
  BY DEF Safe, TypeOK, SliceImpl, InBounds, EndOf
<1>2. ASSUME Fits(s, t.size), t.size > 0, s.arr = t.arr,
             NEW r \in CopyResults(mem[s.arr], t.pos, EndOf(s), t.size),
             Assign(d, Longer(s, t.size), [mem EXCEPT ![s.arr] = r])
      PROVE  Safe'
  <2>1. s.arr # None /\ s.arr \in Arrays /\ mem[s.arr] \in Seq(Element)
    BY <1>1, <1>2, HasArray DEF Fits
  <2>2. t.pos + t.size <= Len(mem[s.arr])
    BY <1>1, <1>2, <2>1 DEF Safe, InBounds
  <2>3. r \in Seq(Element) /\ Len(r) = Len(mem[s.arr])
    BY <1>1, <1>2, <2>1, <2>2, CopyKeeps
  <2> DEFINE m == [mem EXCEPT ![s.arr] = r]
  <2>4. SameLengths(m)
    BY <2>1, <2>3, WriteKeeps
  <2>5. Fitting(Longer(s, t.size), m)
    BY <1>1, <1>2, <2>4, LongerFits
  <2>6. Assign(d, Longer(s, t.size), m)
    BY <1>2
  <2> HIDE DEF m
  <2> QED BY <2>4, <2>5, <2>6, AssignKeeps
<1>3. CASE Extend(d, x, View(y))
  BY <1>3, ElementsOf, ExtendKeeps
<1> QED BY <1>2, <1>3 DEF AppendSlice

\* A write that changes one array and no slice keeps everything in bounds.
LEMMA ArrayWritten ==
  ASSUME Safe, NEW x \in Names, slices[x].arr # None, UNCHANGED slices,
         NEW array \in Seq(Element), Len(array) = Len(mem[slices[x].arr]),
         mem' = [mem EXCEPT ![slices[x].arr] = array]
  PROVE  Safe'
<1>1. SameLengths(mem')
  BY WriteKeeps
<1> QED BY <1>1 DEF Safe, TypeOK, InBounds, SameLengths, Element

LEMMA SetStep ==
  ASSUME Safe, NEW x \in Names, NEW i \in Nat, NEW v \in T, Set(x, i, v)
  PROVE  Safe'
<1> DEFINE s == slices[x]
           array == Overlay(mem[s.arr], s.pos + i, <<v>>)
<1>1. <<v>> \in Seq(Element) /\ s.size \in Nat /\ s.cap \in Nat /\ s.pos + i \in Nat /\ s.cap > 0
  BY DEF Element, Safe, TypeOK, InBounds, SliceImpl, Set
<1>2. s.arr # None /\ mem[s.arr] \in Seq(Element)
  BY <1>1, HasArray
<1>3. array \in Seq(Element) /\ Len(array) = Len(mem[s.arr])
  BY <1>1, <1>2, OverlayKeeps
<1>4. mem' = [mem EXCEPT ![s.arr] = array] /\ UNCHANGED slices
  BY DEF Set
<1> HIDE DEF array
<1> QED BY <1>2, <1>3, <1>4, ArrayWritten

LEMMA OverwriteKeeps ==
  ASSUME Safe, NEW x \in Names, NEW values \in Seq(Element), Overwrite(x, values)
  PROVE  Safe'
<1> DEFINE s == slices[x]
           n == CopyLength(x, Len(values))
           array == Overlay(mem[s.arr], s.pos, SubSeq(values, 1, n))
<1>1. /\ s.size \in Nat /\ s.cap \in Nat /\ s.pos \in Nat /\ s.size <= s.cap
      /\ n \in Nat /\ n > 0 /\ n <= s.size /\ n <= Len(values)
  BY DEF Safe, TypeOK, InBounds, SliceImpl, Overwrite, CopyLength
<1>2. s.arr # None /\ mem[s.arr] \in Seq(Element)
  BY <1>1, HasArray
<1>3. SubSeq(values, 1, n) \in Seq(Element)
  BY <1>1
<1>4. array \in Seq(Element) /\ Len(array) = Len(mem[s.arr])
  BY <1>1, <1>2, <1>3, OverlayKeeps
<1>5. mem' = [mem EXCEPT ![s.arr] = array] /\ UNCHANGED slices
  BY DEF Overwrite
<1> HIDE DEF array
<1> QED BY <1>2, <1>4, <1>5, ArrayWritten

LEMMA CopySliceStep ==
  ASSUME Safe, NEW x \in Names, NEW y \in Names, CopySlice(x, y)
  PROVE  Safe'
<1> DEFINE s == slices[x]
           t == slices[y]
           n == CopyLength(x, t.size)
<1>1. /\ s.size \in Nat /\ s.cap \in Nat /\ s.pos \in Nat /\ s.size <= s.cap
      /\ t.size \in Nat /\ t.cap \in Nat /\ t.pos \in Nat /\ t.size <= t.cap
      /\ n \in Nat /\ n > 0 /\ n <= s.size /\ n <= t.size
  BY DEF Safe, TypeOK, InBounds, SliceImpl, CopySlice, CopyLength
<1>2. ASSUME s.arr = t.arr, NEW r \in CopyResults(mem[s.arr], t.pos, s.pos, n),
             mem' = [mem EXCEPT ![s.arr] = r], UNCHANGED slices
      PROVE  Safe'
  <2>1. s.arr # None /\ mem[s.arr] \in Seq(Element)
    BY <1>1, HasArray
  <2>2. t.pos + n <= Len(mem[s.arr])
    <3>1. t.pos + t.cap = Len(mem[s.arr])
      BY <1>2, <2>1 DEF Safe, InBounds
    <3> HIDE DEF n
    <3> QED BY <1>1, <3>1
  <2>3. r \in Seq(Element) /\ Len(r) = Len(mem[s.arr])
    BY <1>1, <1>2, <2>1, <2>2, CopyKeeps
  <2> QED BY <1>2, <2>1, <2>3, ArrayWritten
<1>3. CASE Overwrite(x, View(y))
  BY <1>3, ElementsOf, OverwriteKeeps
<1> QED BY <1>2, <1>3 DEF CopySlice

-----------------------------------------------------------------------------
(* The theorems                                                             *)

LEMMA InitSafe == Init => Safe
BY DEF Init, Safe, TypeOK, InBounds, SliceImpl, Empty

LEMMA NextSafe ==
  ASSUME Safe, [Next]_vars
  PROVE  Safe'
<1>1. CASE Next
  <2>1. Values \subseteq Seq(Element) /\ 0..MaxLen \subseteq Nat /\ 0..MaxCap \subseteq Nat
    BY SliceAssumption DEF Values, Element
  <2>2. PICK x \in Names :
          \/ \E size, capacity \in 0..MaxLen : Make(x, size, capacity)
          \/ \E d \in Names :
               \/ \E begin \in 0..MaxCap :
                    RangeFrom(d, x, begin) \/ \E end \in 0..MaxCap : RangeTo(d, x, begin, end)
               \/ \E v \in T : AppendValue(d, x, v)
               \/ \E values \in Values : AppendArray(d, x, values)
               \/ \E y \in Names : AppendSlice(d, x, y)
          \/ \E i \in 0..MaxCap, v \in T : Set(x, i, v)
          \/ \E values \in Values : CopyArray(x, values)
          \/ \E y \in Names : CopySlice(x, y)
    BY <1>1 DEF Next
  <2>3. CASE \E size, capacity \in 0..MaxLen : Make(x, size, capacity)
    BY <2>1, <2>3, MakeStep
  <2>4. ASSUME NEW d \in Names, NEW begin \in 0..MaxCap, RangeFrom(d, x, begin)
        PROVE  Safe'
    BY <2>1, <2>4, RangeStep
  <2>5. ASSUME NEW d \in Names, NEW begin \in 0..MaxCap, NEW end \in 0..MaxCap,
               RangeTo(d, x, begin, end)
        PROVE  Safe'
    BY <2>1, <2>5, RangeStep
  <2>6. ASSUME NEW d \in Names, NEW v \in T, AppendValue(d, x, v) PROVE Safe'
    BY <2>6, AppendValueStep
  <2>7. ASSUME NEW d \in Names, NEW values \in Values, AppendArray(d, x, values) PROVE Safe'
    BY <2>1, <2>7, ExtendKeeps DEF AppendArray
  <2>8. ASSUME NEW d \in Names, NEW y \in Names, AppendSlice(d, x, y) PROVE Safe'
    BY <2>8, AppendSliceStep
  <2>9. CASE \E i \in 0..MaxCap, v \in T : Set(x, i, v)
    BY <2>1, <2>9, SetStep
  <2>10. CASE \E values \in Values : CopyArray(x, values)
    BY <2>1, <2>10, OverwriteKeeps DEF CopyArray
  <2>11. CASE \E y \in Names : CopySlice(x, y)
    BY <2>11, CopySliceStep
  <2> QED BY <2>2, <2>3, <2>4, <2>5, <2>6, <2>7, <2>8, <2>9, <2>10, <2>11
<1>2. CASE UNCHANGED vars
  BY <1>2 DEF vars, Safe, TypeOK, InBounds
<1> QED BY <1>1, <1>2

\* Both are invariants, for every sequence of calls.
THEOREM SliceSafe == Spec => []Safe
<1>1. Safe /\ [Next]_vars => Safe'
  BY NextSafe
<1> QED BY InitSafe, <1>1, PTL DEF Spec

\* Sizes, positions and capacities are never negative: every subtraction of range and
\* append is of a smaller number.
THEOREM SliceTypeCorrect == Spec => []TypeOK
<1>1. Safe => TypeOK
  BY DEF Safe
<1> QED BY SliceSafe, <1>1, PTL

\* No slice ever reaches out of its array.
THEOREM SlicesInBounds == Spec => []InBounds
<1>1. Safe => InBounds
  BY DEF Safe
<1> QED BY SliceSafe, <1>1, PTL
-----------------------------------------------------------------------------
(* What the copies leave behind                                             *)

\* Sequences of one length with the same elements are the same.
LEMMA SameElements ==
  ASSUME NEW S, NEW a \in Seq(S), NEW b \in Seq(S), Len(a) = Len(b),
         \A i \in 1..Len(a) : a[i] = b[i]
  PROVE  a = b
<1>1. a = [i \in 1..Len(a) |-> a[i]] /\ b = [i \in 1..Len(b) |-> b[i]]
  OBVIOUS
<1> QED BY <1>1

\* Element j of an array when values have been written from position at on.
LEMMA OverlayShows ==
  ASSUME NEW array \in Seq(Element), NEW at \in Nat, NEW values \in Seq(Element),
         NEW j \in 1..Len(array)
  PROVE  Overlay(array, at, values)[j] =
           IF at < j /\ j <= at + Len(values) THEN values[j - at] ELSE array[j]
<1>1. Overlay(array, at, values)[j] = IF j - at \in DOMAIN values THEN values[j - at] ELSE array[j]
  BY DEF Overlay
<1>2. j - at \in DOMAIN values <=> at < j /\ j <= at + Len(values)
  <2>1. j \in Nat /\ Len(values) \in Nat /\ DOMAIN values = 1..Len(values)
    OBVIOUS
  <2> QED BY <2>1
<1> QED BY <1>1, <1>2

\* What a slice shows is in its array.
LEMMA ViewOf ==
  ASSUME Safe, NEW x \in Names
  PROVE  \A i \in 1..slices[x].size :
           /\ slices[x].arr # None
           /\ slices[x].pos + i \in 1..Len(mem[slices[x].arr])
           /\ View(x)[i] = mem[slices[x].arr][slices[x].pos + i]
<1> SUFFICES ASSUME NEW i \in 1..slices[x].size
             PROVE  /\ slices[x].arr # None
                    /\ slices[x].pos + i \in 1..Len(mem[slices[x].arr])
                    /\ View(x)[i] = mem[slices[x].arr][slices[x].pos + i]
  OBVIOUS
<1> DEFINE s == slices[x]
<1>1. s.size \in Nat /\ s.pos \in Nat /\ s.cap \in Nat /\ s.size <= s.cap
  BY DEF Safe, TypeOK, SliceImpl, InBounds
<1>2. s.arr # None /\ s.pos + s.cap = Len(mem[s.arr])
  BY <1>1 DEF Safe, InBounds
<1>3. View(x)[i] = mem[s.arr][s.pos + i]
  BY DEF View, Elements
<1> HIDE DEF s
<1>4. i \in 1..s.size
  BY DEF s
<1>5. s.pos + i \in 1..Len(mem[s.arr])
  BY <1>1, <1>2, <1>4
<1> QED BY <1>2, <1>3, <1>5 DEF s

\* A variable shows what the slice it is assigned has in its array.
LEMMA AssignShows ==
  ASSUME Safe, NEW d \in Names, NEW s \in SliceImpl, NEW m, Assign(d, s, m),
         s.size > 0 => s.arr # None
  PROVE  View(d)' = Elements(m, s)
<1>1. slices'[d] = s
  BY DEF Assign, Safe, TypeOK
<1>2. View(d)' = Elements(mem', s)
  BY <1>1 DEF View, Elements
<1>3. CASE s.size > 0
  <2>1. s.arr \in Arrays
    BY <1>3 DEF SliceImpl
  <2>2. mem'[s.arr] = m[s.arr]
    BY <1>1, <2>1 DEF Assign
  <2> QED BY <1>2, <2>2 DEF Elements
<1>4. CASE s.size = 0
  <2>1. 1..s.size = {}
    BY <1>4
  <2> QED BY <1>2, <2>1 DEF Elements
<1> QED BY <1>3, <1>4 DEF SliceImpl

\* Values written behind the last element of a slice are what the longer slice shows more.
LEMMA LongerShows ==
  ASSUME Safe, NEW x \in Names, NEW values \in Seq(Element), Fits(slices[x], Len(values)),
         NEW m, slices[x].arr # None =>
                  m[slices[x].arr] = Overlay(mem[slices[x].arr], EndOf(slices[x]), values)
  PROVE  Elements(m, Longer(slices[x], Len(values))) = View(x) \o values
<1> DEFINE s == slices[x]
           n == Len(values)
           now == Elements(m, Longer(s, n))
           old == View(x)
<1>1. /\ s.size \in Nat /\ s.pos \in Nat /\ s.cap \in Nat /\ n \in Nat /\ s.size + n <= s.cap
      /\ s.arr \in Arrays \cup {None}
  BY DEF Safe, TypeOK, SliceImpl, Fits
<1>2. old \in Seq(Element) /\ Len(old) = s.size
  BY ElementsOf
<1>3. now = [i \in 1..(s.size + n) |-> m[s.arr][s.pos + i]]
  BY DEF Elements, Longer
<1>4. ASSUME NEW i \in 1..(s.size + n)
      PROVE  now[i] = (old \o values)[i] /\ now[i] \in Element
  <2> HIDE DEF now
  <2>1. s.arr # None /\ s.arr \in Arrays /\ mem[s.arr] \in Seq(Element)
    BY <1>1, HasArray
  <2>2. s.pos + s.cap = Len(mem[s.arr])
    BY <2>1 DEF Safe, InBounds
  <2>3. s.pos + i \in 1..Len(mem[s.arr])
    <3> HIDE DEF s, n
    <3> QED BY <1>1, <2>2
  <2> DEFINE at == s.pos + s.size
             j == s.pos + i
  <2>4. now[i] = IF at < j /\ j <= at + n THEN values[j - at] ELSE mem[s.arr][j]
    <3>1. now[i] = Overlay(mem[s.arr], at, values)[j]
      BY <1>3, <2>1 DEF EndOf
    <3>2. at \in Nat /\ j \in 1..Len(mem[s.arr])
      BY <1>1, <2>3
    <3> HIDE DEF at, j, s
    <3>3. Overlay(mem[s.arr], at, values)[j] =
            IF at < j /\ j <= at + n THEN values[j - at] ELSE mem[s.arr][j]
      BY <2>1, <3>2, OverlayShows
    <3> QED BY <3>1, <3>3
  <2>5. i \in Nat /\ j - at = i - s.size /\ (at < j <=> s.size < i) /\ j <= at + n
    <3> HIDE DEF s, n
    <3> QED BY <1>1
  <2> HIDE DEF at
  <2>6. CASE i <= s.size
    <3>1. now[i] = mem[s.arr][s.pos + i]
      <4> HIDE DEF j
      <4>1. ~(at < j)
        BY <1>1, <2>5, <2>6
      <4> QED BY <2>4, <4>1 DEF j
    <3>2. i \in 1..s.size /\ old[i] = mem[s.arr][s.pos + i]
      BY <2>5, <2>6, ViewOf
    <3>3. (old \o values)[i] = old[i] /\ old[i] \in Element
      <4> HIDE DEF old, s, n
      <4> QED BY <1>2, <3>2
    <3> QED BY <3>1, <3>2, <3>3
  <2>7. CASE s.size < i
    <3>1. now[i] = values[i - s.size]
      <4> HIDE DEF j
      <4> QED BY <2>4, <2>5, <2>7
    <3>2. i - s.size \in 1..n
      <4> HIDE DEF s, n
      <4> QED BY <1>1, <2>7
    <3>3. (old \o values)[i] = values[i - s.size] /\ values[i - s.size] \in Element
      <4> HIDE DEF old, s
      <4> QED BY <1>1, <1>2, <2>7, <3>2
    <3> QED BY <3>1, <3>3
  <2>8. i <= s.size \/ s.size < i
    <3> HIDE DEF s, n
    <3> QED BY <1>1, <2>5
  <2> QED BY <2>6, <2>7, <2>8
<1>5. now \in Seq(Element) /\ Len(now) = s.size + n
  <2>1. now \in [1..(s.size + n) -> Element]
    BY <1>3, <1>4
  <2>2. s.size + n \in Nat
    BY <1>1
  <2> HIDE DEF now, s, n
  <2> QED BY <2>1, <2>2
<1>6. old \o values \in Seq(Element) /\ Len(old \o values) = s.size + n
  BY <1>2
<1> HIDE DEF now, old, s, n
<1>7. now = old \o values
  BY <1>4, <1>5, <1>6, SameElements
<1> QED BY <1>7 DEF now, old, s, n

\* The new array of an append that does not fit shows the old elements and the values.
LEMMA GrowShows ==
  ASSUME Safe, NEW d \in Names, NEW x \in Names, NEW values \in Seq(Element),
         Grow(d, slices[x], values)
  PROVE  View(d)' = View(x) \o values
<1> DEFINE whole == View(x) \o values
           cap == GrowTo(slices[x], Len(values))
           elements == [i \in 1..cap |-> IF i \in DOMAIN whole THEN whole[i] ELSE Unset]
<1>1. whole \in Seq(Element) /\ Len(whole) \in Nat
  BY ElementsOf
<1>2. cap \in Nat /\ Len(whole) <= cap
  BY GrowRoom
<1>3. NewArray(d, Len(whole), elements)
  BY DEF Grow, View
<1>4. Len(elements) = cap /\ \A i \in 1..Len(whole) : elements[i] = whole[i]
  <2>1. \A i \in 1..Len(whole) : i \in 1..cap /\ i \in DOMAIN whole
    <3> HIDE DEF whole, cap
    <3> QED BY <1>1, <1>2
  <2>2. Len(elements) = cap
    BY <1>2
  <2> HIDE DEF whole, cap
  <2> QED BY <2>1, <2>2
<1> HIDE DEF whole, cap, elements
<1>5. PICK a \in Arrays :
        Assign(d, [arr |-> a, pos |-> 0, size |-> Len(whole), cap |-> Len(elements)],
                  [mem EXCEPT ![a] = elements])
  BY <1>3 DEF NewArray
<1> DEFINE s == [arr |-> a, pos |-> 0, size |-> Len(whole), cap |-> Len(elements)]
           m == [mem EXCEPT ![a] = elements]
<1>6. s \in SliceImpl /\ s.arr # None /\ m[a] = elements
  BY <1>1, <1>2, <1>4, SliceAssumption DEF SliceImpl, Safe, TypeOK
<1>7. View(d)' = Elements(m, s)
  <2> HIDE DEF s, m
  <2> QED BY <1>5, <1>6, AssignShows DEF s, m
<1>8. Elements(m, s) = [i \in 1..Len(whole) |-> whole[i]]
  BY <1>1, <1>4, <1>6 DEF Elements
<1>9. whole = [i \in 1..Len(whole) |-> whole[i]]
  BY <1>1
<1> QED BY <1>7, <1>8, <1>9 DEF whole

\* append(arrs, size), in place or not.
LEMMA ExtendShows ==
  ASSUME Safe, NEW d \in Names, NEW x \in Names, NEW values \in Seq(Element), Extend(d, x, values)
  PROVE  View(d)' = View(x) \o values
<1> DEFINE s == slices[x]
           n == Len(values)
           m == IF values = <<>> THEN mem
                ELSE [mem EXCEPT ![s.arr] = Overlay(mem[s.arr], EndOf(s), values)]
<1>1. CASE Fits(s, n) /\ Assign(d, Longer(s, n), m)
  <2>1. s \in SliceImpl /\ n \in Nat /\ s.size \in Nat /\ s.cap \in Nat /\ s.size <= s.cap
    BY DEF Safe, TypeOK, InBounds, SliceImpl
  <2>2. Longer(s, n) \in SliceImpl /\ Longer(s, n).arr = s.arr /\ Longer(s, n).size = s.size + n
    BY <2>1 DEF Longer, SliceImpl
  <2>3. s.size + n > 0 => s.arr # None
    <3>1. s.size + n <= s.cap
      BY <1>1, <2>1 DEF Fits
    <3>2. s.size + n > 0 => s.cap > 0
      <4> HIDE DEF s, n
      <4> QED BY <2>1, <3>1
    <3> QED BY <3>2, HasArray
  <2>4. s.arr # None => m[s.arr] = Overlay(mem[s.arr], EndOf(s), values)
    <3> SUFFICES ASSUME s.arr # None PROVE m[s.arr] = Overlay(mem[s.arr], EndOf(s), values)
      OBVIOUS
    <3>1. s.arr \in Arrays /\ mem[s.arr] \in Seq(Element)
      BY <2>1 DEF SliceImpl, Safe, TypeOK, Element
    <3>2. CASE values = <<>>
      <4>1. mem[s.arr] = [i \in 1..Len(mem[s.arr]) |-> mem[s.arr][i]]
        BY <3>1
      <4>2. Overlay(mem[s.arr], EndOf(s), values) = [i \in 1..Len(mem[s.arr]) |-> mem[s.arr][i]]
        BY <3>1, <3>2 DEF Overlay
      <4> QED BY <3>2, <4>1, <4>2
    <3>3. CASE values # <<>>
      BY <3>1, <3>3 DEF Safe, TypeOK
    <3> QED BY <3>2, <3>3
  <2>5. View(d)' = Elements(m, Longer(s, n))
    <3> HIDE DEF m, s, n
    <3> QED BY <1>1, <2>2, <2>3, AssignShows
  <2>6. Elements(m, Longer(s, n)) = View(x) \o values
    <3> HIDE DEF m
    <3> QED BY <1>1, <2>4, LongerShows
  <2> HIDE DEF m, s, n
  <2> QED BY <2>5, <2>6
<1>2. CASE Grow(d, s, values)
  BY <1>2, GrowShows
<1> QED BY <1>1, <1>2 DEF Extend

\* A copy inside one array that does not begin inside its source.
LEMMA CopyIsBlock ==
  ASSUME "overlap" \notin Uses, NEW array, NEW from, NEW at, NEW n,
         MayCopy(from, at, n), NEW r \in CopyResults(array, from, at, n)
  PROVE  r = Overlay(array, at, SubSeq(array, from + 1, from + n))
BY DEF MayCopy, CopyResults

LEMMA BlockOf ==
  ASSUME NEW array \in Seq(Element), NEW p \in Nat, NEW n \in Nat, p + n <= Len(array)
  PROVE  LET b == SubSeq(array, p + 1, p + n)
         IN  b \in Seq(Element) /\ Len(b) = n /\ \A i \in 1..n : b[i] = array[p + i]
<1> DEFINE b == SubSeq(array, p + 1, p + n)
<1>1. b = [i \in 1..(p + n - (p + 1) + 1) |-> array[i + (p + 1) - 1]]
  BY SMTT(30)
<1>2. p + n - (p + 1) + 1 = n
  OBVIOUS
<1>3. \A i \in 1..n : i + (p + 1) - 1 = p + i /\ p + i \in 1..Len(array)
  OBVIOUS
<1>4. b = [i \in 1..n |-> array[i + (p + 1) - 1]]
  BY <1>1, <1>2
<1> HIDE DEF b
<1>5. b = [i \in 1..n |-> array[p + i]]
  BY <1>3, <1>4
<1>6. \A i \in 1..n : b[i] = array[p + i] /\ b[i] \in Element
  BY <1>3, <1>5
<1>7. b \in [1..n -> Element]
  BY <1>5, <1>6
<1>8. b \in Seq(Element) /\ Len(b) = n
  BY <1>7
<1> QED BY <1>6, <1>8 DEF b

\* The first elements of a slice are a block of its array.
LEMMA BlockIsView ==
  ASSUME Safe, NEW y \in Names, NEW n \in Nat, n <= slices[y].size, slices[y].arr # None
  PROVE  LET block == SubSeq(mem[slices[y].arr], slices[y].pos + 1, slices[y].pos + n)
         IN  /\ block \in Seq(Element) /\ Len(block) = n
             /\ \A i \in 1..n : block[i] = View(y)[i]
<1> DEFINE t == slices[y]
           array == mem[t.arr]
           block == SubSeq(array, t.pos + 1, t.pos + n)
<1>1. /\ t.pos \in Nat /\ t.size \in Nat /\ t.cap \in Nat /\ t.size <= t.cap
      /\ array \in Seq(Element) /\ t.pos + t.cap = Len(array)
  BY DEF Safe, TypeOK, InBounds, SliceImpl, Element
<1>2. \A i \in 1..n : i \in 1..t.size
  <2> HIDE DEF t
  <2> QED BY <1>1 DEF t
<1>3. \A i \in 1..n : View(y)[i] = array[t.pos + i]
  BY <1>2, ViewOf
<1> HIDE DEF t, array
<1>4. t.pos + n <= Len(array) /\ Len(array) \in Nat
  BY <1>1 DEF t
<1> DEFINE p == t.pos
<1>5. p \in Nat /\ array \in Seq(Element) /\ p + n <= Len(array)
  BY <1>1, <1>4
<1> HIDE DEF p
<1>6. LET b == SubSeq(array, p + 1, p + n)
      IN  b \in Seq(Element) /\ Len(b) = n /\ \A i \in 1..n : b[i] = array[p + i]
  BY <1>5, BlockOf
<1>7. block \in Seq(Element) /\ Len(block) = n /\ \A i \in 1..n : block[i] = array[t.pos + i]
  BY <1>6 DEF p
<1> HIDE DEF block
<1> QED BY <1>3, <1>7 DEF t, array, block

LEMMA AppendSliceShows ==
  ASSUME Safe, "overlap" \notin Uses, NEW d \in Names, NEW x \in Names, NEW y \in Names,
         AppendSlice(d, x, y)
  PROVE  View(d)' = View(x) \o View(y)
<1> DEFINE s == slices[x]
           t == slices[y]
           n == t.size
           block == SubSeq(mem[t.arr], t.pos + 1, t.pos + n)
<1>1. View(y) \in Seq(Element) /\ Len(View(y)) = n /\ n \in Nat
  BY ElementsOf DEF Safe, TypeOK, SliceImpl
<1>2. ASSUME Fits(s, n), n > 0, s.arr = t.arr, MayCopy(t.pos, EndOf(s), n),
             NEW r \in CopyResults(mem[s.arr], t.pos, EndOf(s), n),
             Assign(d, Longer(s, n), [mem EXCEPT ![s.arr] = r])
      PROVE  View(d)' = View(x) \o View(y)
  <2>1. s.arr # None /\ s.arr \in Arrays
    <3>1. s.cap > 0
      BY <1>1, <1>2 DEF Fits, Safe, TypeOK, SliceImpl
    <3> QED BY <3>1, HasArray
  <2>2. r = Overlay(mem[s.arr], EndOf(s), block)
    <3> HIDE DEF n
    <3> QED BY <1>2, CopyIsBlock
  <2>3. block = View(y)
    <3>1. block \in Seq(Element) /\ Len(block) = n /\ \A i \in 1..n : block[i] = View(y)[i]
      <4>1. n <= slices[y].size /\ slices[y].arr # None
        BY <1>1, <1>2, <2>1
      <4> QED BY <1>1, <4>1, BlockIsView
    <3> HIDE DEF block, n
    <3> QED BY <1>1, <3>1, SameElements
  <2> DEFINE m == [mem EXCEPT ![s.arr] = r]
  <2>4. m[s.arr] = Overlay(mem[s.arr], EndOf(s), View(y))
    BY <2>1, <2>2, <2>3 DEF Safe, TypeOK
  <2>5. Longer(s, n) \in SliceImpl /\ Longer(s, n).arr = s.arr
    BY <1>1 DEF Longer, Safe, TypeOK, SliceImpl
  <2>6. Assign(d, Longer(s, n), m)
    BY <1>2
  <2> HIDE DEF m
  <2>7. View(d)' = Elements(m, Longer(s, n))
    BY <2>1, <2>5, <2>6, AssignShows
  <2>8. Elements(m, Longer(s, n)) = View(x) \o View(y)
    BY <1>1, <1>2, <2>4, LongerShows
  <2> QED BY <2>7, <2>8
<1>3. CASE Extend(d, x, View(y))
  BY <1>1, <1>3, ExtendShows
<1> QED BY <1>2, <1>3 DEF AppendSlice

\* A write at the front of a slice replaces its first elements and leaves the others.
LEMMA FrontWritten ==
  ASSUME Safe, NEW x \in Names, NEW block \in Seq(Element), Len(block) <= slices[x].size,
         slices[x].arr # None, UNCHANGED slices,
         mem' = [mem EXCEPT ![slices[x].arr] = Overlay(mem[slices[x].arr], slices[x].pos, block)]
  PROVE  View(x)' = [i \in DOMAIN View(x) |-> IF i \in DOMAIN block THEN block[i] ELSE View(x)[i]]
<1> DEFINE s == slices[x]
           array == mem[s.arr]
<1>1. /\ s.pos \in Nat /\ s.size \in Nat /\ s.arr \in Arrays /\ array \in Seq(Element)
      /\ mem'[s.arr] = Overlay(array, s.pos, block)
  BY DEF Safe, TypeOK, SliceImpl, Element
<1>2. View(x)' = [i \in 1..s.size |-> Overlay(array, s.pos, block)[s.pos + i]]
  BY <1>1 DEF View, Elements
<1>3. DOMAIN View(x) = 1..s.size
  BY DEF View, Elements
<1>4. ASSUME NEW i \in 1..s.size
      PROVE  Overlay(array, s.pos, block)[s.pos + i] =
               IF i \in DOMAIN block THEN block[i] ELSE View(x)[i]
  <2> DEFINE j == s.pos + i
  <2>1. j \in 1..Len(array) /\ View(x)[i] = array[j]
    BY ViewOf
  <2>2. i \in Nat /\ i > 0
    OBVIOUS
  <2> HIDE DEF s, array
  <2>3. j - s.pos = i /\ s.pos < j /\ (j <= s.pos + Len(block) <=> i \in DOMAIN block)
    BY <1>1, <2>2
  <2> HIDE DEF j
  <2>4. Overlay(array, s.pos, block)[j] =
          IF s.pos < j /\ j <= s.pos + Len(block) THEN block[j - s.pos] ELSE array[j]
    BY <1>1, <2>1, OverlayShows
  <2>5. Overlay(array, s.pos, block)[j] = IF i \in DOMAIN block THEN block[i] ELSE View(x)[i]
    BY <2>1, <2>3, <2>4
  <2> QED BY <2>5 DEF j
<1> QED BY <1>2, <1>3, <1>4

LEMMA CopySliceShows ==
  ASSUME Safe, "overlap" \notin Uses, NEW x \in Names, NEW y \in Names, CopySlice(x, y)
  PROVE  View(x)' = [i \in DOMAIN View(x) |->
                       IF i \in DOMAIN View(y) THEN View(y)[i] ELSE View(x)[i]]
<1> DEFINE s == slices[x]
           t == slices[y]
           n == CopyLength(x, t.size)
<1>1. /\ s.size \in Nat /\ s.cap \in Nat /\ s.size <= s.cap /\ t.size \in Nat
      /\ n \in Nat /\ n > 0 /\ n = (IF s.size < t.size THEN s.size ELSE t.size)
  BY DEF Safe, TypeOK, InBounds, SliceImpl, CopySlice, CopyLength
<1>2. n <= s.size /\ n <= t.size /\ \A i \in 1..s.size : i \in 1..n <=> i \in 1..t.size
  <2> HIDE DEF s, t, n
  <2> QED BY <1>1
<1>3. View(y) \in Seq(Element) /\ Len(View(y)) = t.size /\ DOMAIN View(x) = 1..s.size
  BY ElementsOf DEF View, Elements
<1>4. s.arr # None
  <2>1. s.cap > 0
    <3> HIDE DEF s, t, n
    <3> QED BY <1>1, <1>2
  <2> QED BY <2>1, HasArray
<1>5. ASSUME NEW block \in Seq(Element), Len(block) = n, \A i \in 1..n : block[i] = View(y)[i],
             mem' = [mem EXCEPT ![s.arr] = Overlay(mem[s.arr], s.pos, block)]
      PROVE  View(x)' = [i \in DOMAIN View(x) |->
                           IF i \in DOMAIN View(y) THEN View(y)[i] ELSE View(x)[i]]
  <2>1. UNCHANGED slices
    BY DEF CopySlice, Overwrite
  <2>2. View(x)' = [i \in DOMAIN View(x) |-> IF i \in DOMAIN block THEN block[i] ELSE View(x)[i]]
    <3>1. Len(block) <= slices[x].size
      BY <1>2, <1>5
    <3> HIDE DEF n
    <3> QED BY <1>4, <1>5, <2>1, <3>1, FrontWritten
  <2>3. DOMAIN block = 1..n /\ DOMAIN View(y) = 1..t.size
    BY <1>3, <1>5
  <2> HIDE DEF s, t, n
  <2> QED BY <1>2, <1>3, <1>5, <2>2, <2>3
<1>6. ASSUME s.arr = t.arr, MayCopy(t.pos, s.pos, n),
             NEW r \in CopyResults(mem[s.arr], t.pos, s.pos, n), mem' = [mem EXCEPT ![s.arr] = r]
      PROVE  View(x)' = [i \in DOMAIN View(x) |->
                           IF i \in DOMAIN View(y) THEN View(y)[i] ELSE View(x)[i]]
  <2> DEFINE block == SubSeq(mem[t.arr], t.pos + 1, t.pos + n)
  <2>1. r = Overlay(mem[s.arr], s.pos, block)
    <3> HIDE DEF n
    <3> QED BY <1>6, CopyIsBlock
  <2>2. block \in Seq(Element) /\ Len(block) = n /\ \A i \in 1..n : block[i] = View(y)[i]
    <3> HIDE DEF n
    <3> QED BY <1>1, <1>2, <1>4, <1>6, BlockIsView
  <2> HIDE DEF block, n
  <2> QED BY <1>5, <1>6, <2>1, <2>2
<1>7. CASE Overwrite(x, View(y))
  <2> DEFINE block == SubSeq(View(y), 1, n)
  <2>1. mem' = [mem EXCEPT ![s.arr] = Overlay(mem[s.arr], s.pos, block)]
    BY <1>3, <1>7 DEF Overwrite
  <2>2. block \in Seq(Element) /\ Len(block) = n /\ \A i \in 1..n : block[i] = View(y)[i]
    <3> HIDE DEF s, t, n
    <3> QED BY <1>1, <1>2, <1>3
  <2> HIDE DEF block, n
  <2> QED BY <1>5, <2>1, <2>2
<1> QED BY <1>6, <1>7 DEF CopySlice

\* Appending a slice gives the elements of both and copying from one makes the first elements
\* the source's, for any slices that share arrays in any way, as long as no copy begins inside
\* its own source.
THEOREM SliceCallsDeliver ==
  ASSUME "overlap" \notin Uses
  PROVE  Spec => CallsDeliver
<1> DEFINE Delivered ==
      \A x, y \in Names :
        /\ \A d \in Names : AppendSlice(d, x, y) => View(d)' = View(x) \o View(y)
        /\ CopySlice(x, y) =>
             View(x)' = [i \in DOMAIN View(x) |->
                           IF i \in DOMAIN View(y) THEN View(y)[i] ELSE View(x)[i]]
<1>1. Safe => Delivered
  BY AppendSliceShows, CopySliceShows
<1>2. CallsDeliver <=> [][Delivered]_vars
  BY DEF CallsDeliver
<1> QED BY SliceSafe, <1>1, <1>2, PTL
-----------------------------------------------------------------------------
(* The cells of GoSlices                                                    *)

\* The cells of a slice from its first to the end of its array.
Cells(s) == [i \in 1..s.cap |-> Cell(s, i)]

LEMMA ConcatShows ==
  ASSUME NEW S, NEW a \in Seq(S), NEW b \in Seq(S), NEW i \in (Len(a) + 1)..(Len(a) + Len(b))
  PROVE  (a \o b)[i] = b[i - Len(a)]
OBVIOUS

LEMMA CellsOf ==
  ASSUME Safe, NEW x \in Names
  PROVE  Shown[x] \o Spare[x] = Cells(slices[x])
<1> DEFINE s == slices[x]
           S == (Arrays \cup {None}) \X Nat
           a == Shown[x]
           b == Spare[x]
<1>1. /\ s.size \in Nat /\ s.cap \in Nat /\ s.pos \in Nat /\ s.size <= s.cap
      /\ s.arr \in Arrays \cup {None}
  BY DEF Safe, TypeOK, InBounds, SliceImpl
<1> HIDE DEF s
<1>2. \A i \in 1..s.cap : Cell(s, i) \in S
  BY <1>1 DEF Cell
<1>3. /\ a = [i \in 1..s.size |-> Cell(s, i)]
      /\ b = [i \in 1..(s.cap - s.size) |-> Cell(s, s.size + i)]
  BY DEF Shown, Spare, s
<1> HIDE DEF a, b, S
<1>4. /\ \A i \in 1..s.size : i \in 1..s.cap
      /\ \A i \in 1..(s.cap - s.size) : s.size + i \in 1..s.cap
      /\ s.cap - s.size \in Nat
  BY <1>1
<1>5. a \in Seq(S) /\ Len(a) = s.size
  <2>1. a \in [1..s.size -> S]
    BY <1>2, <1>3, <1>4
  <2> QED BY <1>1, <2>1
<1>6. b \in Seq(S) /\ Len(b) = s.cap - s.size
  <2> DEFINE k == s.cap - s.size
  <2>1. b \in [1..k -> S] /\ k \in Nat
    BY <1>2, <1>3, <1>4
  <2> HIDE DEF k
  <2>2. b \in Seq(S) /\ Len(b) = k
    BY <2>1
  <2> QED BY <2>2 DEF k
<1>7. Cells(s) \in Seq(S) /\ Len(Cells(s)) = s.cap
  BY <1>1, <1>2 DEF Cells
<1>8. a \o b \in Seq(S) /\ Len(a \o b) = s.cap
  BY <1>1, <1>5, <1>6
<1>9. ASSUME NEW i \in 1..s.cap PROVE (a \o b)[i] = Cells(s)[i]
  <2>1. Cells(s)[i] = Cell(s, i)
    BY DEF Cells
  <2>2. CASE i <= s.size
    <3>1. i \in 1..s.size
      BY <1>1, <2>2
    <3>2. (a \o b)[i] = a[i]
      BY <1>5, <1>6, <3>1
    <3> QED BY <1>3, <2>1, <3>1, <3>2
  <2>3. CASE i > s.size
    <3>1. i - s.size \in 1..(s.cap - s.size) /\ s.size + (i - s.size) = i
      BY <1>1, <2>3
    <3>2. (a \o b)[i] = b[i - s.size]
      <4>1. i \in (Len(a) + 1)..(Len(a) + Len(b))
        BY <1>1, <1>5, <1>6, <2>3
      <4> QED BY <1>5, <1>6, <4>1, ConcatShows
    <3> QED BY <1>3, <2>1, <3>1, <3>2
  <2>4. i <= s.size \/ i > s.size
    BY <1>1
  <2> QED BY <2>2, <2>3, <2>4
<1>10. a \o b = Cells(s)
  BY <1>7, <1>8, <1>9, SameElements
<1> QED BY <1>10 DEF a, b, s

\* Shown and Spare are the cells up to the end of the array, for every slice.
AllCells == \A x \in Names : Shown[x] \o Spare[x] = Cells(slices[x])

\* The domain of val.
AllHeld == Go!Held = HeldCells

LEMMA CellsRange ==
  ASSUME NEW s, s.cap \in Nat
  PROVE  Go!Range(Cells(s)) = {Cell(s, i) : i \in 1..s.cap}
BY DEF Go!Range, Cells

LEMMA CellsHeld == Safe => AllCells /\ AllHeld
<1> SUFFICES ASSUME Safe PROVE AllCells /\ AllHeld
  OBVIOUS
<1>1. AllCells
  BY CellsOf DEF AllCells
<1>2. \A x \in Names :
        Go!Range(Shown[x] \o Spare[x]) = {Cell(slices[x], i) : i \in 1..slices[x].cap}
  <2> SUFFICES ASSUME NEW x \in Names
               PROVE Go!Range(Shown[x] \o Spare[x]) = {Cell(slices[x], i) : i \in 1..slices[x].cap}
    OBVIOUS
  <2>1. slices[x].cap \in Nat
    BY DEF Safe, TypeOK, SliceImpl
  <2> QED BY <1>1, <2>1, CellsRange DEF AllCells
<1>3. AllHeld
  BY <1>2 DEF AllHeld, Go!Held, Go!All, HeldCells
<1> QED BY <1>1, <1>3

LEMMA CellsHeldNext ==
  ASSUME Safe'
  PROVE  AllCells' /\ AllHeld'
<1>1. Safe' => AllCells' /\ AllHeld'
  BY CellsHeld, PTL
<1> QED BY <1>1

\* The cells somebody has, and where they are.
LEMMA CellHeld ==
  ASSUME Safe, NEW c
  PROVE  c \in HeldCells <=> \E x \in Names : \E i \in 1..slices[x].cap : c = Cell(slices[x], i)
BY DEF HeldCells

LEMMA CellIs ==
  ASSUME NEW s, NEW i
  PROVE  Cell(s, i)[1] = s.arr /\ Cell(s, i)[2] = s.pos + i
BY DEF Cell

\* What an assignment leaves to the other slices.
LEMMA Assigned ==
  ASSUME Safe, NEW d \in Names, NEW s, NEW m, Assign(d, s, m)
  PROVE  /\ slices'[d] = s
         /\ \A x \in Names \ {d} : slices'[x] = slices[x]
         /\ \A x \in Names : slices'[x].arr \in Arrays =>
                               mem'[slices'[x].arr] = m[slices'[x].arr]
         /\ Go!OthersKeep(d)
<1>1. slices' = [slices EXCEPT ![d] = s] /\ slices \in [Names -> SliceImpl]
  BY DEF Assign, Safe, TypeOK
<1>2. slices'[d] = s /\ \A x \in Names \ {d} : slices'[x] = slices[x]
  BY <1>1
<1>3. mem' = [a \in Arrays |-> IF \E x \in Names : slices'[x].arr = a THEN m[a] ELSE <<>>]
  BY DEF Assign
<1>4. \A x \in Names : slices'[x].arr \in Arrays => mem'[slices'[x].arr] = m[slices'[x].arr]
  BY <1>3
<1>5. \A x \in Names \ {d} : Shown'[x] = Shown[x] /\ Spare'[x] = Spare[x]
  BY <1>2 DEF Shown, Spare
<1> QED BY <1>2, <1>4, <1>5 DEF Go!OthersKeep

\* A cell is in the array of its slice, behind the slice's start.
LEMMA CellIn ==
  ASSUME Safe, NEW x \in Names, NEW i \in 1..slices[x].cap
  PROVE  /\ slices[x].arr \in Arrays /\ slices[x].arr \in InUse
         /\ Cell(slices[x], i) \in HeldCells
         /\ Cell(slices[x], i)[1] = slices[x].arr /\ Cell(slices[x], i)[2] = slices[x].pos + i
         /\ slices[x].pos + i \in Nat
<1>1. slices[x].cap \in Nat /\ slices[x].pos \in Nat /\ slices[x].cap > 0
  BY DEF Safe, TypeOK, SliceImpl
<1>2. slices[x].arr \in Arrays
  BY <1>1, HasArray
<1> QED BY <1>1, <1>2, CellIs, CellHeld DEF InUse

InHeld == \A x \in Names : \A i \in 1..slices[x].cap :
            /\ slices[x].arr \in Arrays /\ Cell(slices[x], i) \in HeldCells
            /\ Cell(slices[x], i)[1] = slices[x].arr
            /\ Cell(slices[x], i)[2] = slices[x].pos + i
            /\ slices[x].pos + i \in Nat

LEMMA AllInHeld == Safe => InHeld
BY CellIn DEF InHeld

LEMMA CellInNext ==
  ASSUME Safe'
  PROVE  InHeld'
<1>1. Safe' => InHeld'
  BY AllInHeld, PTL
<1> QED BY <1>1

\* A new array gives cells that nobody has.
LEMMA NewCells ==
  ASSUME Safe, Safe', NEW d \in Names, NEW size, NEW elements,
         NewArray(d, size, elements)
  PROVE  Go!Fresh(d)
<1>1. PICK a \in Arrays \ InUse :
        Assign(d, [arr |-> a, pos |-> 0, size |-> size, cap |-> Len(elements)],
                  [mem EXCEPT ![a] = elements])
  BY DEF NewArray
<1> DEFINE s == [arr |-> a, pos |-> 0, size |-> size, cap |-> Len(elements)]
           m == [mem EXCEPT ![a] = elements]
<1>2. Assign(d, s, m)
  BY <1>1
<1>3. s.arr = a /\ s.pos = 0 /\ \A b \in Arrays \ {a} : m[b] = mem[b]
  BY DEF Safe, TypeOK
<1> HIDE DEF s, m
<1>4. /\ slices'[d] = s /\ \A x \in Names \ {d} : slices'[x] = slices[x]
      /\ \A x \in Names : slices'[x].arr \in Arrays => mem'[slices'[x].arr] = m[slices'[x].arr]
      /\ Go!OthersKeep(d)
  BY <1>2, Assigned
<1>5. AllCells' /\ AllHeld' /\ InHeld'
  BY CellsHeldNext, CellInNext
<1>6. Shown'[d] \o Spare'[d] = Cells(s)
  BY <1>4, <1>5 DEF AllCells
<1>7. s.cap \in Nat
  BY <1>4 DEF Safe, TypeOK, SliceImpl
<1>8. /\ DOMAIN Cells(s) = 1..s.cap
      /\ \A i \in 1..s.cap : Cells(s)[i] = Cell(s, i) /\ Cell(s, i)[1] = a /\ Cell(s, i)[2] = i
  BY <1>3, <1>7, CellIs DEF Cells
<1>9. Go!IsInjective(Cells(s))
  BY <1>8 DEF Go!IsInjective
<1>10. \A c \in Go!Range(Cells(s)) : c[1] = a
  BY <1>8 DEF Go!Range
<1>11. \A x \in Names \ {d} : \A c \in Go!Range(Shown[x] \o Spare[x]) : c[1] # a
  <2> SUFFICES ASSUME NEW x \in Names \ {d}, NEW c \in Go!Range(Shown[x] \o Spare[x])
               PROVE  c[1] # a
    OBVIOUS
  <2>1. c \in Go!Range(Cells(slices[x])) /\ slices[x].cap \in Nat
    BY CellsOf DEF Safe, TypeOK, SliceImpl
  <2>2. PICK i \in 1..slices[x].cap : c = Cell(slices[x], i)
    BY <2>1, CellsRange
  <2> QED BY <1>1, <2>2, CellIn
<1>12. ASSUME NEW c \in HeldCells', c \notin Go!Range(Cells(s))
       PROVE  c \in HeldCells /\ mem'[c[1]][c[2]] = mem[c[1]][c[2]]
  <2>1. PICK x \in Names : \E i \in 1..slices'[x].cap : c = Cell(slices'[x], i)
    BY <1>12 DEF HeldCells
  <2>2. PICK i \in 1..slices'[x].cap : c = Cell(slices'[x], i)
    BY <2>1
  <2>3. x # d
    BY <1>4, <1>7, <1>12, <2>2, CellsRange
  <2>4. slices'[x] = slices[x]
    BY <1>4, <2>3
  <2>5. /\ c \in HeldCells /\ c[1] = slices[x].arr /\ c[1] \in Arrays /\ c[1] # a
    BY <1>1, <2>2, <2>4, CellIn
  <2>6. mem'[c[1]] = m[c[1]]
    BY <1>4, <2>4, <2>5
  <2> QED BY <1>3, <2>5, <2>6
<1>13. Go!OnlyChange(Go!Range(Go!AllNext(d)))
  BY <1>5, <1>6, <1>12 DEF Go!OnlyChange, Go!AllNext, AllHeld
<1>14. Go!Range(Go!AllNext(d)) \cap UNION {Go!Range(Go!All(x)) : x \in Names \ {d}} = {}
  BY <1>6, <1>10, <1>11 DEF Go!AllNext, Go!All
<1>15. Go!IsInjective(Go!AllNext(d))
  BY <1>6, <1>9 DEF Go!AllNext
<1> QED BY <1>4, <1>13, <1>14, <1>15 DEF Go!Fresh

\* A slice on the array of another, behind its start, has no cells of its own.
LEMMA NoneNew ==
  ASSUME Safe, Safe', NEW d \in Names, NEW x \in Names, NEW s, NEW m, Assign(d, s, m),
         s.arr = slices[x].arr, s.pos \in Nat, slices[x].pos <= s.pos,
         s.pos + s.cap = slices[x].pos + slices[x].cap
  PROVE  \A c \in HeldCells' : /\ c \in HeldCells /\ c[1] \in Arrays
                               /\ mem'[c[1]] = m[c[1]] /\ c[2] \in Nat
<1>1. /\ slices'[d] = s /\ \A y \in Names \ {d} : slices'[y] = slices[y]
      /\ \A y \in Names : slices'[y].arr \in Arrays => mem'[slices'[y].arr] = m[slices'[y].arr]
  BY Assigned
<1>2. s.cap \in Nat /\ slices[x].pos \in Nat /\ slices[x].cap \in Nat
  BY <1>1 DEF Safe, TypeOK, SliceImpl
<1> SUFFICES ASSUME NEW c \in HeldCells'
             PROVE  /\ c \in HeldCells /\ c[1] \in Arrays
                    /\ mem'[c[1]] = m[c[1]] /\ c[2] \in Nat
  OBVIOUS
<1>3. PICK y \in Names : \E i \in 1..slices'[y].cap : c = Cell(slices'[y], i)
  BY DEF HeldCells
<1>4. PICK i \in 1..slices'[y].cap : c = Cell(slices'[y], i)
  BY <1>3
<1>5. c[1] = slices'[y].arr /\ c[1] \in Arrays /\ c[2] \in Nat
  BY <1>4, CellInNext DEF InHeld
<1>6. CASE y # d
  BY <1>1, <1>4, <1>5, <1>6, CellIn
<1>7. CASE y = d
  <2> DEFINE j == s.pos - slices[x].pos + i
  <2>1. i \in 1..s.cap /\ c = Cell(s, i)
    BY <1>1, <1>4, <1>7
  <2>2. j \in 1..slices[x].cap /\ slices[x].pos + j = s.pos + i
    BY <1>2, <2>1
  <2>3. c = Cell(slices[x], j)
    BY <2>1, <2>2 DEF Cell
  <2>4. c \in HeldCells
    BY <2>2, <2>3, CellIn
  <2> QED BY <1>1, <1>5, <2>4
<1> QED BY <1>6, <1>7

LEMMA CellSeq ==
  ASSUME NEW s, s.cap \in Nat, s.pos \in Nat, s.arr \in Arrays \cup {None}
  PROVE  Cells(s) \in Seq((Arrays \cup {None}) \X Nat) /\ Len(Cells(s)) = s.cap
<1>1. \A i \in 1..s.cap : Cell(s, i) \in (Arrays \cup {None}) \X Nat
  BY DEF Cell
<1> QED BY <1>1 DEF Cells

\* Cutting a slice cuts its cells.
LEMMA CutCells ==
  ASSUME Safe, NEW x \in Names, NEW b \in 0..slices[x].cap, NEW size
  PROVE  Cells(Sub(slices[x], b, size)) = SubSeq(Cells(slices[x]), b + 1, slices[x].cap)
<1> DEFINE s == slices[x]
           u == Sub(s, b, size)
           S == (Arrays \cup {None}) \X Nat
           q == Cells(s)
           t == SubSeq(q, b + 1, s.cap)
<1>1. s.cap \in Nat /\ s.pos \in Nat /\ s.arr \in Arrays \cup {None} /\ b \in Nat /\ b <= s.cap
  BY DEF Safe, TypeOK, SliceImpl
<1>2. u.arr = s.arr /\ u.pos = s.pos + b /\ u.cap = s.cap - b
  BY DEF Sub, RestCap
<1> HIDE DEF s, u
<1>3. u.cap \in Nat /\ u.pos \in Nat /\ u.arr \in Arrays \cup {None}
  BY <1>1, <1>2
<1>4. q \in Seq(S) /\ Len(q) = s.cap
  BY <1>1, CellSeq
<1>5. Cells(u) \in Seq(S) /\ Len(Cells(u)) = u.cap
  BY <1>3, CellSeq
<1>6. /\ \A i \in 1..s.cap : q[i] = Cell(s, i)
      /\ \A i \in 1..u.cap : Cells(u)[i] = Cell(u, i)
  BY DEF Cells
<1> HIDE DEF S, q
<1>7. t \in Seq(S) /\ Len(t) = s.cap - b /\ \A i \in 1..(s.cap - b) : t[i] = q[b + i]
  <2>1. t = [i \in 1..(s.cap - (b + 1) + 1) |-> q[i + (b + 1) - 1]]
    BY <1>1, <1>4, SMTT(30)
  <2>2. s.cap - (b + 1) + 1 = s.cap - b /\ s.cap - b \in Nat
    BY <1>1
  <2>3. \A i \in 1..(s.cap - b) : i + (b + 1) - 1 = b + i /\ b + i \in 1..s.cap
    BY <1>1
  <2>4. t = [i \in 1..(s.cap - b) |-> q[b + i]]
    BY <2>1, <2>2, <2>3
  <2>5. \A i \in 1..(s.cap - b) : q[b + i] \in S
    BY <1>4, <2>3
  <2> HIDE DEF t
  <2> QED BY <2>2, <2>4, <2>5
<1> HIDE DEF t
<1>8. ASSUME NEW i \in 1..(s.cap - b) PROVE t[i] = Cells(u)[i]
  <2>1. b + i \in 1..s.cap /\ i \in 1..u.cap /\ s.pos + (b + i) = u.pos + i
    BY <1>1, <1>2
  <2> QED BY <1>2, <1>6, <1>7, <2>1 DEF Cell
<1>9. Cells(u) = t
  BY <1>2, <1>5, <1>7, <1>8, SameElements
<1> QED BY <1>9 DEF s, u, t, q

\* range gives a window into the same cells.
LEMMA RangeIsWindow ==
  ASSUME Safe, Safe', NEW d \in Names, NEW x \in Names, NEW b \in 0..slices[x].cap, NEW size,
         call' = <<"range">>, Assign(d, Sub(slices[x], b, size), mem)
  PROVE  Go!Window(d, x)
<1> DEFINE s == Sub(slices[x], b, size)
<1>1. /\ slices'[d] = s /\ Go!OthersKeep(d)
  BY Assigned
<1>2. /\ s.arr = slices[x].arr /\ s.pos = slices[x].pos + b /\ s.cap = slices[x].cap - b
      /\ slices[x].cap \in Nat /\ slices[x].pos \in Nat /\ b \in Nat /\ b <= slices[x].cap
      /\ slices[x].arr \in Arrays \cup {None}
  BY DEF Sub, RestCap, Safe, TypeOK, SliceImpl
<1>3. AllCells /\ AllCells' /\ AllHeld'
  BY CellsHeld, CellsHeldNext
<1>4. Cells(s) = SubSeq(Cells(slices[x]), b + 1, slices[x].cap)
  BY CutCells
<1>5. Assign(d, s, mem)
  OBVIOUS
<1> HIDE DEF s
<1>6. Shown'[d] \o Spare'[d] = Cells(s)
  BY <1>1, <1>3 DEF AllCells
<1>7. Shown[x] \o Spare[x] = Cells(slices[x]) /\ Len(Cells(slices[x])) = slices[x].cap
  BY <1>2, <1>3, CellSeq DEF AllCells
<1>8. Go!AllNext(d) = SubSeq(Go!All(x), b + 1, Len(Go!All(x))) /\ b \in 0..Len(Go!All(x))
  BY <1>2, <1>4, <1>6, <1>7 DEF Go!AllNext, Go!All
<1>9. s.pos \in Nat /\ slices[x].pos <= s.pos /\ s.pos + s.cap = slices[x].pos + slices[x].cap
  BY <1>2
<1>10. \A c \in HeldCells' : c \in HeldCells /\ mem'[c[1]] = mem[c[1]]
  BY <1>2, <1>5, <1>9, NoneNew
<1>11. Go!OnlyChange({})
  BY <1>3, <1>10 DEF Go!OnlyChange, AllHeld
<1> QED BY <1>1, <1>8, <1>11 DEF Go!Window

\* A slice without capacity has no cells.
LEMMA EmptyIsFresh ==
  ASSUME Safe, Safe', NEW d \in Names, Assign(d, Empty, mem)
  PROVE  Go!Fresh(d)
<1>1. /\ slices'[d] = Empty /\ \A x \in Names \ {d} : slices'[x] = slices[x]
      /\ \A x \in Names : slices'[x].arr \in Arrays => mem'[slices'[x].arr] = mem[slices'[x].arr]
      /\ Go!OthersKeep(d)
  BY Assigned
<1>2. AllCells' /\ AllHeld' /\ InHeld'
  BY CellsHeldNext, CellInNext
<1>3. Empty.cap = 0
  BY DEF Empty
<1>4. Shown'[d] \o Spare'[d] = Cells(Empty)
  BY <1>1, <1>2 DEF AllCells
<1>5. DOMAIN Cells(Empty) = {}
  BY <1>3 DEF Cells
<1>6. Go!IsInjective(Cells(Empty)) /\ Go!Range(Cells(Empty)) = {}
  BY <1>5 DEF Go!IsInjective, Go!Range
<1>7. ASSUME NEW c \in HeldCells'
      PROVE  c \in HeldCells /\ mem'[c[1]][c[2]] = mem[c[1]][c[2]]
  <2>1. PICK x \in Names : \E i \in 1..slices'[x].cap : c = Cell(slices'[x], i)
    BY DEF HeldCells
  <2>2. PICK i \in 1..slices'[x].cap : c = Cell(slices'[x], i)
    BY <2>1
  <2>3. x # d
    BY <1>1, <1>3, <2>2
  <2>4. slices'[x] = slices[x]
    BY <1>1, <2>3
  <2>5. c \in HeldCells /\ c[1] = slices[x].arr /\ c[1] \in Arrays
    BY <2>2, <2>4, CellIn
  <2> QED BY <1>1, <2>4, <2>5
<1>8. Go!OnlyChange(Go!Range(Go!AllNext(d)))
  BY <1>2, <1>7 DEF Go!OnlyChange, AllHeld
<1>9. /\ Go!Range(Go!AllNext(d)) \cap UNION {Go!Range(Go!All(x)) : x \in Names \ {d}} = {}
      /\ Go!IsInjective(Go!AllNext(d))
  BY <1>4, <1>6 DEF Go!AllNext
<1> QED BY <1>1, <1>8, <1>9 DEF Go!Fresh

LEMMA MakeIsMake ==
  ASSUME Safe, Safe', NEW d \in Names, NEW size, NEW capacity, Make(d, size, capacity)
  PROVE  Go!Make(d)
<1> DEFINE cap == IF capacity < size THEN size ELSE capacity
<1>1. call' = <<"make">>
  BY DEF Make
<1>2. CASE Assign(d, Empty, mem)
  BY <1>1, <1>2, EmptyIsFresh DEF Go!Make
<1>3. CASE NewArray(d, size, [i \in 1..cap |-> Unset])
  BY <1>1, <1>3, NewCells DEF Go!Make
<1> QED BY <1>2, <1>3 DEF Make

LEMMA RangeIsRange ==
  ASSUME Safe, Safe', NEW d \in Names, NEW x \in Names, NEW begin \in Nat, NEW end \in Nat,
         RangeFrom(d, x, begin) \/ RangeTo(d, x, begin, end)
  PROVE  Go!Window(d, x)
<1> DEFINE s == slices[x]
           e == IF end > s.cap THEN s.cap ELSE end
           size == IF begin < e THEN e - begin ELSE 0
<1>1. s.size \in Nat /\ s.cap \in Nat /\ s.size <= s.cap
  BY DEF Safe, TypeOK, SliceImpl, InBounds
<1>2. CASE RangeFrom(d, x, begin)
  <2>1. begin \in 0..s.cap
    BY <1>1, <1>2 DEF RangeFrom, ValidBegin
  <2>2. call' = <<"range">> /\ Assign(d, Sub(s, begin, s.size - begin), mem)
    BY <1>2 DEF RangeFrom
  <2> QED BY <2>1, <2>2, RangeIsWindow
<1>3. CASE RangeTo(d, x, begin, end)
  <2>1. begin \in 0..s.cap
    BY <1>1, <1>3 DEF RangeTo
  <2>2. call' = <<"range">> /\ Assign(d, Sub(s, begin, size), mem)
    BY <1>3 DEF RangeTo
  <2> HIDE DEF size
  <2> QED BY <2>1, <2>2, RangeIsWindow
<1> QED BY <1>2, <1>3

\* Values written into the array of a slice change the cells they are written to.
LEMMA OverlayLeaves ==
  ASSUME Safe, NEW x \in Names, NEW at \in Nat, NEW values \in Seq(Element),
         NEW m, m = [mem EXCEPT ![slices[x].arr] = Overlay(mem[slices[x].arr], at, values)],
         NEW c \in HeldCells,
         ~(c[1] = slices[x].arr /\ at < c[2] /\ c[2] <= at + Len(values))
  PROVE  m[c[1]][c[2]] = mem[c[1]][c[2]]
<1>1. PICK y \in Names : \E i \in 1..slices[y].cap : c = Cell(slices[y], i)
  BY CellHeld
<1>2. PICK i \in 1..slices[y].cap : c = Cell(slices[y], i)
  BY <1>1
<1>3. c[1] = slices[y].arr /\ c[1] \in Arrays /\ c[2] = slices[y].pos + i
  BY <1>2, CellIn
<1>4. c[2] \in 1..Len(mem[c[1]]) /\ mem[c[1]] \in Seq(Element)
  <2> DEFINE u == slices[y]
  <2>1. u.pos \in Nat /\ u.cap \in Nat /\ mem[u.arr] \in Seq(Element)
    BY <1>3 DEF Safe, TypeOK, SliceImpl, Element
  <2>2. u.pos + u.cap = Len(mem[u.arr])
    BY <1>3, SliceAssumption DEF Safe, InBounds
  <2>3. i \in 1..u.cap
    BY <1>2
  <2> HIDE DEF u
  <2>4. u.pos + i \in 1..Len(mem[u.arr])
    BY <2>1, <2>2, <2>3
  <2> QED BY <1>3, <2>1, <2>4 DEF u
<1>5. CASE c[1] = slices[x].arr
  <2>1. m[c[1]] = Overlay(mem[c[1]], at, values)
    BY <1>3, <1>5 DEF Safe, TypeOK
  <2>2. Overlay(mem[c[1]], at, values)[c[2]] =
          IF at < c[2] /\ c[2] <= at + Len(values) THEN values[c[2] - at] ELSE mem[c[1]][c[2]]
    BY <1>4, OverlayShows
  <2> QED BY <1>5, <2>1, <2>2
<1>6. CASE c[1] # slices[x].arr
  BY <1>3, <1>6 DEF Safe, TypeOK
<1> QED BY <1>5, <1>6

\* The cell of a slice at a place of its array.
LEMMA CellAt ==
  ASSUME Safe, NEW x \in Names, NEW c \in HeldCells, c[1] = slices[x].arr
  PROVE  c[2] \in Nat /\ c = Cell(slices[x], c[2] - slices[x].pos)
<1>1. PICK y \in Names : \E i \in 1..slices[y].cap : c = Cell(slices[y], i)
  BY CellHeld
<1>2. PICK i \in 1..slices[y].cap : c = Cell(slices[y], i)
  BY <1>1
<1>3. c[1] = slices[y].arr /\ c[2] = slices[y].pos + i /\ c[2] \in Nat /\ slices[x].pos \in Nat
  BY <1>2, CellIn DEF Safe, TypeOK, SliceImpl
<1>4. slices[x].pos + (c[2] - slices[x].pos) = slices[y].pos + i
  BY <1>3
<1> QED BY <1>2, <1>3, <1>4 DEF Cell

\* A write between the slice's first and last element.
LEMMA OverlayIsWrite ==
  ASSUME Safe, Safe', NEW x \in Names, UNCHANGED slices, call' = <<"write">>,
         NEW at \in Nat, NEW values \in Seq(Element),
         slices[x].pos <= at, at + Len(values) <= slices[x].pos + slices[x].size,
         mem' = [mem EXCEPT ![slices[x].arr] = Overlay(mem[slices[x].arr], at, values)]
  PROVE  Go!Write(x)
<1> DEFINE s == slices[x]
<1>1. s.pos \in Nat /\ s.size \in Nat /\ Len(values) \in Nat
  BY DEF Safe, TypeOK, SliceImpl
<1>2. Shown' = Shown /\ Spare' = Spare /\ HeldCells' = HeldCells
  BY DEF Shown, Spare, HeldCells
<1>3. AllHeld'
  BY CellsHeldNext
<1>4. ASSUME NEW c \in HeldCells, c \notin Go!Range(Shown[x])
      PROVE  mem'[c[1]][c[2]] = mem[c[1]][c[2]]
  <2>1. ~(c[1] = s.arr /\ at < c[2] /\ c[2] <= at + Len(values))
    <3> SUFFICES ASSUME c[1] = s.arr, at < c[2], c[2] <= at + Len(values) PROVE FALSE
      OBVIOUS
    <3> DEFINE k == c[2] - s.pos
    <3>1. c[2] \in Nat /\ c = Cell(s, k)
      BY CellAt
    <3>2. k \in 1..s.size
      <4> HIDE DEF s
      <4>1. s.pos <= at /\ at + Len(values) <= s.pos + s.size
        BY DEF s
      <4> QED BY <1>1, <3>1, <4>1
    <3> HIDE DEF k
    <3>3. DOMAIN Shown[x] = 1..s.size /\ Shown[x][k] = c
      BY <3>1, <3>2 DEF Shown
    <3> QED BY <1>4, <3>2, <3>3 DEF Go!Range
  <2> QED BY <1>4, <2>1, OverlayLeaves
<1>5. Go!OnlyChange(Go!Range(Shown[x]))
  BY <1>2, <1>3, <1>4 DEF Go!OnlyChange, AllHeld
<1> QED BY <1>2, <1>5 DEF Go!Write

LEMMA SetIsWrite ==
  ASSUME Safe, Safe', NEW x \in Names, NEW i \in Nat, NEW v \in T, Set(x, i, v)
  PROVE  Go!Write(x)
<1> DEFINE s == slices[x]
<1>1. <<v>> \in Seq(Element) /\ Len(<<v>>) = 1 /\ s.size \in Nat /\ s.pos \in Nat
  BY DEF Element, Safe, TypeOK, SliceImpl
<1>2. /\ i < s.size /\ call' = <<"write">> /\ UNCHANGED slices
      /\ mem' = [mem EXCEPT ![s.arr] = Overlay(mem[s.arr], s.pos + i, <<v>>)]
  BY DEF Set
<1>3. s.pos + i \in Nat /\ s.pos <= s.pos + i /\ s.pos + i + 1 <= s.pos + s.size
  BY <1>1, <1>2
<1> HIDE DEF s
<1>4. s.pos + i + Len(<<v>>) <= s.pos + s.size
  BY <1>1, <1>3
<1> DEFINE w == <<v>>
           at == s.pos + i
<1>5. /\ w \in Seq(Element) /\ at \in Nat /\ s.pos <= at /\ at + Len(w) <= s.pos + s.size
      /\ mem' = [mem EXCEPT ![s.arr] = Overlay(mem[s.arr], at, w)]
  BY <1>1, <1>2, <1>3, <1>4
<1> HIDE DEF w, at
<1> QED BY <1>2, <1>5, OverlayIsWrite DEF s

\* copy_from writes the slice's first elements.
LEMMA FrontIsWrite ==
  ASSUME Safe, Safe', NEW x \in Names, UNCHANGED slices, call' = <<"write">>,
         NEW block \in Seq(Element), Len(block) <= slices[x].size,
         mem' = [mem EXCEPT ![slices[x].arr] = Overlay(mem[slices[x].arr], slices[x].pos, block)]
  PROVE  Go!Write(x)
<1> DEFINE s == slices[x]
<1>1. s.size \in Nat /\ s.pos \in Nat /\ Len(block) \in Nat
  BY DEF Safe, TypeOK, SliceImpl
<1>2. s.pos <= s.pos /\ s.pos + Len(block) <= s.pos + s.size
  BY <1>1
<1> QED BY <1>1, <1>2, OverlayIsWrite

LEMMA OverwriteIsWrite ==
  ASSUME Safe, Safe', NEW x \in Names, NEW values \in Seq(Element), Overwrite(x, values),
         call' = <<"write">>
  PROVE  Go!Write(x)
<1> DEFINE n == CopyLength(x, Len(values))
           block == SubSeq(values, 1, n)
<1>1. n \in Nat /\ n <= slices[x].size /\ n <= Len(values)
  BY DEF Safe, TypeOK, SliceImpl, Overwrite, CopyLength
<1>2. block \in Seq(Element) /\ Len(block) = n
  <2> HIDE DEF n
  <2> QED BY <1>1
<1>3. /\ UNCHANGED slices
      /\ mem' = [mem EXCEPT ![slices[x].arr] = Overlay(mem[slices[x].arr], slices[x].pos, block)]
  BY DEF Overwrite
<1> HIDE DEF block, n
<1> QED BY <1>1, <1>2, <1>3, FrontIsWrite

\* However a copy inside one array comes out, it is values written from the destination on.
LEMMA CopyIsOverlay ==
  ASSUME NEW array \in Seq(Element), NEW from \in Nat, NEW at \in Nat, NEW n \in Nat,
         from + n <= Len(array), NEW r \in CopyResults(array, from, at, n)
  PROVE  \E values \in Seq(Element) : Len(values) = n /\ r = Overlay(array, at, values)
<1> DEFINE block == SubSeq(array, from + 1, from + n)
           each == [i \in 1..n |-> array[from + 1 + ((i - 1) % (at - from))]]
<1>1. CASE r = Overlay(array, at, block)
  <2>1. block \in Seq(Element) /\ Len(block) = n
    BY BlockOf
  <2> HIDE DEF block
  <2> QED BY <1>1, <2>1
<1>2. CASE InsideSource(from, at, n) /\ r = Overlay(array, at, each)
  <2>1. at - from \in Nat /\ 0 < at - from /\ at - from < n
    BY <1>2 DEF InsideSource
  <2>2. ASSUME NEW i \in 1..n PROVE array[from + 1 + ((i - 1) % (at - from))] \in Element
    <3> DEFINE k == (i - 1) % (at - from)
    <3>1. k \in 0..(at - from - 1)
      BY <2>1
    <3> HIDE DEF k
    <3>2. from + 1 + k \in 1..Len(array)
      BY <2>1, <3>1
    <3>3. array[from + 1 + k] \in Element
      BY <3>2
    <3> QED BY <3>3 DEF k
  <2>3. each \in [1..n -> Element]
    BY <2>2
  <2>4. each \in Seq(Element) /\ Len(each) = n
    BY <2>3
  <2> HIDE DEF each
  <2> QED BY <1>2, <2>4
<1> QED BY <1>1, <1>2 DEF CopyResults

LEMMA CopySliceIsWrite ==
  ASSUME Safe, Safe', NEW x \in Names, NEW y \in Names, CopySlice(x, y)
  PROVE  Go!Write(x)
<1> DEFINE s == slices[x]
           t == slices[y]
           n == CopyLength(x, t.size)
<1>1. /\ s.size \in Nat /\ s.cap \in Nat /\ s.pos \in Nat /\ s.size <= s.cap
      /\ t.size \in Nat /\ t.cap \in Nat /\ t.pos \in Nat /\ t.size <= t.cap
      /\ n \in Nat /\ n > 0 /\ n <= s.size /\ n <= t.size
  <2>1. /\ s.size \in Nat /\ s.cap \in Nat /\ s.pos \in Nat /\ s.size <= s.cap
        /\ t.size \in Nat /\ t.cap \in Nat /\ t.pos \in Nat /\ t.size <= t.cap
    BY DEF Safe, TypeOK, InBounds, SliceImpl
  <2>2. n > 0 /\ n = IF s.size < t.size THEN s.size ELSE t.size
    BY DEF CopySlice, CopyLength
  <2> HIDE DEF s, t, n
  <2> QED BY <2>1, <2>2
<1>2. call' = <<"write">>
  BY DEF CopySlice
<1>3. ASSUME s.arr = t.arr, NEW r \in CopyResults(mem[s.arr], t.pos, s.pos, n),
             mem' = [mem EXCEPT ![s.arr] = r], UNCHANGED slices
      PROVE  Go!Write(x)
  <2>1. s.arr # None /\ mem[s.arr] \in Seq(Element)
    BY <1>1, HasArray
  <2>2. t.pos + n <= Len(mem[s.arr])
    <3>1. t.pos + t.cap = Len(mem[s.arr])
      BY <1>3, <2>1 DEF Safe, InBounds
    <3> HIDE DEF n
    <3> QED BY <1>1, <3>1
  <2>3. PICK values \in Seq(Element) :
          Len(values) = n /\ r = Overlay(mem[s.arr], s.pos, values)
    <3> HIDE DEF n
    <3> QED BY <1>1, <1>3, <2>1, <2>2, CopyIsOverlay
  <2> HIDE DEF n
  <2> QED BY <1>2, <1>1, <1>3, <2>3, FrontIsWrite
<1>4. CASE Overwrite(x, View(y))
  BY <1>2, <1>4, ElementsOf, OverwriteIsWrite
<1> QED BY <1>3, <1>4 DEF CopySlice

\* The end of a sequence, by its elements.
LEMMA EndOfSeq ==
  ASSUME NEW S, NEW q \in Seq(S), NEW a \in Nat, a <= Len(q), NEW k \in (a + 1)..Len(q)
  PROVE  q[k] \in Go!Range(SubSeq(q, a + 1, Len(q)))
<1> DEFINE t == SubSeq(q, a + 1, Len(q))
           j == k - a
<1>1. t = [i \in 1..(Len(q) - (a + 1) + 1) |-> q[i + (a + 1) - 1]]
  BY SMTT(30)
<1>2. j \in 1..(Len(q) - (a + 1) + 1) /\ j + (a + 1) - 1 = k
  OBVIOUS
<1> HIDE DEF t, j
<1>3. j \in DOMAIN t /\ t[j] = q[k]
  BY <1>1, <1>2
<1> QED BY <1>3 DEF Go!Range, t

\* An append in place writes the cells behind the slice's last and gives them to the result.
LEMMA LongerIsAppend ==
  ASSUME Safe, Safe', NEW d \in Names, NEW x \in Names, NEW n \in Nat, Fits(slices[x], n),
         NEW m, Assign(d, Longer(slices[x], n), m), call' = <<"append", x>>,
         \A c \in HeldCells :
           \/ m[c[1]][c[2]] = mem[c[1]][c[2]]
           \/ c[1] = slices[x].arr /\ EndOf(slices[x]) < c[2] /\ c[2] <= EndOf(slices[x]) + n
  PROVE  Go!AppendTo(d, x)
<1> DEFINE s == slices[x]
           u == Longer(s, n)
           now == Shown'[d]
           more == SubSeq(now, s.size + 1, s.size + n)
           S == (Arrays \cup {None}) \X Nat
<1>1. /\ u.arr = s.arr /\ u.pos = s.pos /\ u.cap = s.cap /\ u.size = s.size + n
      /\ s.pos \in Nat /\ s.size \in Nat /\ s.cap \in Nat
      /\ s.arr \in Arrays \cup {None}
  BY DEF Longer, Safe, TypeOK, SliceImpl
<1>2. slices'[d] = u /\ Go!OthersKeep(d)
  BY Assigned
<1>3. AllCells /\ AllCells' /\ AllHeld'
  BY CellsHeld, CellsHeldNext
<1>4. Cells(u) = Cells(s)
  BY <1>1 DEF Cells, Cell
<1>5. Go!AllNext(d) = Go!All(x)
  BY <1>2, <1>3, <1>4 DEF AllCells, Go!AllNext, Go!All
<1>6. now = [i \in 1..(s.size + n) |-> Cell(s, i)]
  BY <1>1, <1>2 DEF Shown, Cell
<1>7. Shown[x] = [i \in 1..s.size |-> Cell(s, i)]
  BY DEF Shown
<1> HIDE DEF s, u, now
<1>8. now \in Seq(S) /\ Len(now) = s.size + n /\ Len(Shown[x]) = s.size
  <2>1. \A i \in 1..(s.size + n) : Cell(s, i) \in S
    BY <1>1 DEF Cell
  <2>2. Len(Shown[x]) = s.size
    BY <1>1, <1>7
  <2> DEFINE k == s.size + n
  <2>3. k \in Nat /\ now = [i \in 1..k |-> Cell(s, i)] /\ \A i \in 1..k : Cell(s, i) \in S
    BY <1>1, <1>6, <2>1
  <2> HIDE DEF S, k
  <2>4. now \in [1..k -> S]
    BY <2>3
  <2>5. now \in Seq(S) /\ Len(now) = k
    BY <2>3, <2>4
  <2> QED BY <2>2, <2>5 DEF k
<1> HIDE DEF S
<1>9. ASSUME NEW k \in (s.size + 1)..(s.size + n)
      PROVE  now[k] \in Go!Range(more)
  <2>1. s.size <= Len(now) /\ k \in (s.size + 1)..Len(now)
    BY <1>1, <1>8
  <2> QED BY <1>1, <1>8, <2>1, EndOfSeq
<1> HIDE DEF more
<1>10. ASSUME NEW c \in HeldCells', c \notin Go!Range(more)
       PROVE  c \in HeldCells /\ mem'[c[1]][c[2]] = mem[c[1]][c[2]]
  <2>1. c \in HeldCells /\ mem'[c[1]] = m[c[1]]
    <3>1. /\ u.pos \in Nat /\ u.arr = slices[x].arr /\ slices[x].pos <= u.pos
          /\ u.pos + u.cap = slices[x].pos + slices[x].cap
      BY <1>1 DEF s
    <3>2. Assign(d, u, m)
      BY DEF u, s
    <3> QED BY <3>1, <3>2, NoneNew
  <2>2. CASE c[1] = s.arr /\ EndOf(s) < c[2] /\ c[2] <= EndOf(s) + n
    <3> DEFINE k == c[2] - s.pos
    <3>1. c[2] \in Nat /\ c = Cell(s, k)
      BY <2>1, <2>2, CellAt DEF s
    <3>2. k \in (s.size + 1)..(s.size + n) /\ k \in 1..(s.size + n)
      BY <1>1, <2>2, <3>1 DEF EndOf
    <3> HIDE DEF k
    <3>3. now[k] = c
      BY <1>6, <3>1, <3>2
    <3> QED BY <1>9, <1>10, <3>2, <3>3
  <2> QED BY <2>1, <2>2 DEF s
<1>11. Go!OnlyChange(Go!Range(SubSeq(now, Len(Shown[x]) + 1, Len(now))))
  <2>1. SubSeq(now, Len(Shown[x]) + 1, Len(now)) = more
    BY <1>8 DEF more
  <2> QED BY <1>3, <1>10, <2>1 DEF Go!OnlyChange, AllHeld
<1>12. Len(now) >= Len(Shown[x])
  BY <1>1, <1>8
<1> QED BY <1>2, <1>5, <1>11, <1>12 DEF Go!AppendTo, now

\* What GoSlices sees of a slice.
GoView == \A x \in Names : Go!View(x) = View(x)

LEMMA SameView == Safe => GoView
<1> SUFFICES ASSUME Safe, NEW x \in Names PROVE Go!View(x) = View(x)
  BY DEF GoView
<1> DEFINE s == slices[x]
<1>1. s.size \in Nat /\ s.cap \in Nat /\ s.size <= s.cap
  BY DEF Safe, TypeOK, InBounds, SliceImpl
<1>2. Shown[x] = [i \in 1..s.size |-> Cell(s, i)]
  BY DEF Shown
<1>3. ASSUME NEW i \in 1..s.size
      PROVE  [c \in HeldCells |-> mem[c[1]][c[2]]][Shown[x][i]] = mem[s.arr][s.pos + i]
  <2>1. i \in 1..s.cap
    <3> HIDE DEF s
    <3> QED BY <1>1
  <2>2. Cell(s, i) \in HeldCells /\ Cell(s, i)[1] = s.arr /\ Cell(s, i)[2] = s.pos + i
    BY <2>1, CellIn
  <2> QED BY <1>2, <2>2
<1>4. DOMAIN Shown[x] = 1..s.size
  BY <1>2
<1> QED BY <1>3, <1>4 DEF Go!View, View, Elements

LEMMA SameViewNext ==
  ASSUME Safe'
  PROVE  GoView'
<1>1. Safe' => GoView'
  BY SameView, PTL
<1> QED BY <1>1

\* In place, the values are written behind the slice's last element.
LEMMA OverlayIsAppend ==
  ASSUME Safe, Safe', NEW d \in Names, NEW x \in Names, NEW values \in Seq(Element),
         Fits(slices[x], Len(values)), call' = <<"append", x>>,
         Assign(d, Longer(slices[x], Len(values)),
                [mem EXCEPT ![slices[x].arr] =
                   Overlay(mem[slices[x].arr], EndOf(slices[x]), values)])
  PROVE  Go!AppendTo(d, x)
<1> DEFINE m == [mem EXCEPT ![slices[x].arr] =
                   Overlay(mem[slices[x].arr], EndOf(slices[x]), values)]
<1>1. EndOf(slices[x]) \in Nat /\ Len(values) \in Nat
  <2>1. slices[x].pos \in Nat /\ slices[x].size \in Nat /\ Len(values) \in Nat
    BY DEF Safe, TypeOK, SliceImpl
  <2> QED BY <2>1 DEF EndOf
<1>2. Assign(d, Longer(slices[x], Len(values)), m)
  OBVIOUS
<1>3. m = [mem EXCEPT ![slices[x].arr] = Overlay(mem[slices[x].arr], EndOf(slices[x]), values)]
  OBVIOUS
<1> HIDE DEF m
<1>4. ASSUME NEW c \in HeldCells
      PROVE  \/ m[c[1]][c[2]] = mem[c[1]][c[2]]
             \/ /\ c[1] = slices[x].arr
                /\ EndOf(slices[x]) < c[2] /\ c[2] <= EndOf(slices[x]) + Len(values)
  BY <1>1, <1>3, OverlayLeaves
<1> QED BY <1>1, <1>2, <1>4, LongerIsAppend

LEMMA StartOfSeq ==
  ASSUME NEW S, NEW a \in Seq(S), NEW b \in Seq(S)
  PROVE  SubSeq(a \o b, 1, Len(a)) = a
<1> DEFINE ab == a \o b
           t == SubSeq(ab, 1, Len(a))
<1>1. ab \in Seq(S) /\ Len(ab) = Len(a) + Len(b) /\ Len(a) \in Nat /\ Len(b) \in Nat
  OBVIOUS
<1>2. \A i \in 1..Len(a) : ab[i] = a[i]
  OBVIOUS
<1> HIDE DEF ab
<1>3. t \in Seq(S) /\ Len(t) = Len(a) /\ \A i \in 1..Len(a) : t[i] = ab[i]
  BY <1>1
<1> HIDE DEF t
<1>4. t = a
  BY <1>2, <1>3, SameElements
<1> QED BY <1>4 DEF t, ab

\* An append that does not fit gives cells of its own, that show what the old ones did.
LEMMA GrowIsAppend ==
  ASSUME Safe, Safe', NEW d \in Names, NEW x \in Names, NEW values \in Seq(Element),
         ~Fits(slices[x], Len(values)), Grow(d, slices[x], values), call' = <<"append", x>>
  PROVE  Go!AppendTo(d, x)
<1> DEFINE s == slices[x]
           n == Len(values)
           whole == View(x) \o values
           elements == [i \in 1..GrowTo(s, n) |-> IF i \in DOMAIN whole THEN whole[i] ELSE Unset]
<1>1. View(x) \in Seq(Element) /\ Len(View(x)) = s.size
  BY ElementsOf
<1>2. /\ n \in Nat /\ s.size \in Nat /\ s.cap \in Nat /\ s.pos \in Nat /\ s.size + n > s.cap
      /\ s.arr \in Arrays \cup {None}
  <2>1. s.size \in Nat /\ s.cap \in Nat /\ s.pos \in Nat /\ s.arr \in Arrays \cup {None}
    BY DEF Safe, TypeOK, SliceImpl
  <2>2. ~(s.cap >= s.size + n)
    BY DEF Fits
  <2> HIDE DEF s, n
  <2>3. n \in Nat
    BY DEF n
  <2> QED BY <2>1, <2>2, <2>3
<1>3. Len(whole) = s.size + n
  BY <1>1
<1>4. NewArray(d, Len(whole), elements)
  BY DEF Grow, View
<1> HIDE DEF elements
<1>5. Go!Fresh(d)
  <2> HIDE DEF whole
  <2> QED BY <1>4, NewCells
<1>6. slices'[d].size = s.size + n
  <2> HIDE DEF whole, n, s
  <2>1. PICK a \in Arrays :
          Assign(d, [arr |-> a, pos |-> 0, size |-> Len(whole), cap |-> Len(elements)],
                    [mem EXCEPT ![a] = elements])
    BY <1>4 DEF NewArray
  <2>2. slices'[d] = [arr |-> a, pos |-> 0, size |-> Len(whole), cap |-> Len(elements)]
    BY <2>1, Assigned
  <2> QED BY <1>3, <2>2
<1>7. Len(Shown'[d]) = s.size + n /\ Len(Shown[x]) = s.size
  <2> DEFINE k == s.size + n
  <2>1. k \in Nat /\ slices'[d].size = k
    BY <1>2, <1>6
  <2> HIDE DEF k
  <2>2. /\ Shown'[d] = [i \in 1..k |-> Cell(slices'[d], i)]
        /\ Shown[x] = [i \in 1..s.size |-> Cell(s, i)]
    BY <2>1 DEF Shown
  <2>3. Len(Shown'[d]) = k
    BY <2>1, <2>2
  <2>4. Len(Shown[x]) = s.size
    BY <1>2, <2>2
  <2> QED BY <2>3, <2>4 DEF k
<1>8. Len(Go!All(x)) = s.cap
  <2>1. Len(Cells(s)) = s.cap
    BY <1>2, CellSeq
  <2> QED BY <2>1, CellsOf DEF Go!All
<1>9. Go!View(d)' = View(x) \o values /\ Go!View(x) = View(x)
  <2>1. Go!View(d)' = View(d)'
    BY SameViewNext DEF GoView
  <2>2. Go!View(x) = View(x)
    BY SameView DEF GoView
  <2> QED BY <2>1, <2>2, GrowShows
<1>10. SubSeq(Go!View(d)', 1, Len(Shown[x])) = Go!View(x)
  <2>1. SubSeq(View(x) \o values, 1, Len(View(x))) = View(x)
    BY <1>1, StartOfSeq
  <2> QED BY <1>1, <1>7, <1>9, <2>1
<1>11. Len(Shown'[d]) > Len(Go!All(x))
  BY <1>2, <1>7, <1>8
<1> QED BY <1>5, <1>10, <1>11 DEF Go!AppendTo

LEMMA ExtendIsAppend ==
  ASSUME Safe, Safe', NEW d \in Names, NEW x \in Names, NEW values \in Seq(Element),
         Extend(d, x, values), call' = <<"append", x>>
  PROVE  Go!AppendTo(d, x)
<1> DEFINE s == slices[x]
           n == Len(values)
<1>1. n \in Nat
  OBVIOUS
<1>2. CASE values = <<>> /\ Fits(s, n) /\ Assign(d, Longer(s, n), mem)
  BY <1>1, <1>2, LongerIsAppend
<1>3. CASE values # <<>> /\ Fits(s, n)
           /\ Assign(d, Longer(s, n), [mem EXCEPT ![s.arr] = Overlay(@, EndOf(s), values)])
  BY <1>3, OverlayIsAppend
<1>4. CASE ~Fits(s, n) /\ Grow(d, s, values)
  BY <1>4, GrowIsAppend
<1> QED BY <1>2, <1>3, <1>4 DEF Extend

LEMMA AppendValueIsAppend ==
  ASSUME "value" \notin Uses, Safe, Safe', NEW d \in Names, NEW x \in Names, NEW v \in T,
         AppendValue(d, x, v)
  PROVE  Go!AppendTo(d, x)
<1> DEFINE s == slices[x]
           w == <<v>>
<1>1. w \in Seq(Element) /\ Len(w) = 1 /\ call' = <<"append", x>>
  BY DEF Element, AppendValue
<1>2. \/ /\ Fits(s, 1) /\ s.pos = 0
         /\ Assign(d, Longer(s, 1), [mem EXCEPT ![s.arr] = Overlay(mem[s.arr], s.size, w)])
      \/ ~Fits(s, 1) /\ Grow(d, s, w)
  BY DEF AppendValue
<1> HIDE DEF w
<1>3. CASE /\ Fits(s, 1) /\ s.pos = 0
           /\ Assign(d, Longer(s, 1), [mem EXCEPT ![s.arr] = Overlay(mem[s.arr], s.size, w)])
  <2>1. EndOf(s) = s.size
    BY <1>3 DEF EndOf, Safe, TypeOK, SliceImpl
  <2> QED BY <1>1, <1>3, <2>1, OverlayIsAppend
<1>4. CASE ~Fits(s, 1) /\ Grow(d, s, w)
  BY <1>1, <1>4, GrowIsAppend
<1> QED BY <1>2, <1>3, <1>4

LEMMA AppendSliceIsAppend ==
  ASSUME Safe, Safe', NEW d \in Names, NEW x \in Names, NEW y \in Names, AppendSlice(d, x, y)
  PROVE  Go!AppendTo(d, x)
<1> DEFINE s == slices[x]
           t == slices[y]
           n == t.size
<1>1. /\ s.size \in Nat /\ s.cap \in Nat /\ s.pos \in Nat /\ EndOf(s) \in Nat
      /\ n \in Nat /\ t.cap \in Nat /\ t.pos \in Nat /\ n <= t.cap
  <2>1. /\ s.size \in Nat /\ s.cap \in Nat /\ s.pos \in Nat /\ t.size \in Nat
        /\ t.cap \in Nat /\ t.pos \in Nat /\ t.size <= t.cap
    BY DEF Safe, TypeOK, SliceImpl, InBounds
  <2> QED BY <2>1 DEF EndOf
<1>2. call' = <<"append", x>>
  BY DEF AppendSlice
<1>3. ASSUME Fits(s, n), n > 0, s.arr = t.arr,
             NEW r \in CopyResults(mem[s.arr], t.pos, EndOf(s), n),
             Assign(d, Longer(s, n), [mem EXCEPT ![s.arr] = r])
      PROVE  Go!AppendTo(d, x)
  <2>1. s.arr # None /\ mem[s.arr] \in Seq(Element)
    BY <1>1, <1>3, HasArray DEF Fits
  <2>2. t.pos + n <= Len(mem[s.arr])
    BY <1>1, <1>3, <2>1 DEF Safe, InBounds
  <2>3. PICK values \in Seq(Element) :
          Len(values) = n /\ r = Overlay(mem[s.arr], EndOf(s), values)
    <3> HIDE DEF n
    <3> QED BY <1>1, <1>3, <2>1, <2>2, CopyIsOverlay
  <2> HIDE DEF n
  <2> QED BY <1>2, <1>3, <2>3, OverlayIsAppend
<1>4. CASE Extend(d, x, View(y))
  BY <1>2, <1>4, ElementsOf, ExtendIsAppend
<1> QED BY <1>3, <1>4 DEF AppendSlice

LEMMA InitIsGo == Init => Go!Init
<1> SUFFICES ASSUME Init PROVE Go!Init
  OBVIOUS
<1>1. \A x \in Names : slices[x] = Empty /\ Empty.size = 0 /\ Empty.cap = 0
  BY DEF Init, Empty
<1>2. \A x \in Names : Shown[x] = <<>> /\ Spare[x] = <<>>
  BY <1>1 DEF Shown, Spare
<1>3. Shown = [x \in Names |-> <<>>] /\ Spare = [x \in Names |-> <<>>]
  BY <1>2 DEF Shown, Spare
<1>4. HeldCells = {}
  BY <1>1 DEF HeldCells
<1>5. [c \in HeldCells |-> mem[c[1]][c[2]]] = <<>>
  BY <1>4
<1> QED BY <1>3, <1>5 DEF Init, Go!Init

LEMMA NextIsGo ==
  ASSUME "value" \notin Uses, Safe, Safe', [Next]_vars
  PROVE  [Go!Next]_(Go!vars)
<1>1. CASE Next
  <2>1. Values \subseteq Seq(Element) /\ 0..MaxLen \subseteq Nat /\ 0..MaxCap \subseteq Nat
    BY SliceAssumption DEF Values, Element
  <2>2. PICK x \in Names :
          \/ \E size, capacity \in 0..MaxLen : Make(x, size, capacity)
          \/ \E d \in Names :
               \/ \E begin \in 0..MaxCap :
                    RangeFrom(d, x, begin) \/ \E end \in 0..MaxCap : RangeTo(d, x, begin, end)
               \/ \E v \in T : AppendValue(d, x, v)
               \/ \E values \in Values : AppendArray(d, x, values)
               \/ \E y \in Names : AppendSlice(d, x, y)
          \/ \E i \in 0..MaxCap, v \in T : Set(x, i, v)
          \/ \E values \in Values : CopyArray(x, values)
          \/ \E y \in Names : CopySlice(x, y)
    BY <1>1 DEF Next
  <2>3. CASE \E size, capacity \in 0..MaxLen : Make(x, size, capacity)
    BY <2>3, MakeIsMake DEF Go!Next
  <2>4. ASSUME NEW d \in Names, NEW begin \in 0..MaxCap, RangeFrom(d, x, begin)
        PROVE  Go!Next
    BY <2>1, <2>4, RangeIsRange DEF Go!Next
  <2>5. ASSUME NEW d \in Names, NEW begin \in 0..MaxCap, NEW end \in 0..MaxCap,
               RangeTo(d, x, begin, end)
        PROVE  Go!Next
    BY <2>1, <2>5, RangeIsRange DEF Go!Next
  <2>6. ASSUME NEW d \in Names, NEW v \in T, AppendValue(d, x, v) PROVE Go!Next
    BY <2>6, AppendValueIsAppend DEF Go!Next
  <2>7. ASSUME NEW d \in Names, NEW values \in Values, AppendArray(d, x, values) PROVE Go!Next
    BY <2>1, <2>7, ExtendIsAppend DEF AppendArray, Go!Next
  <2>8. ASSUME NEW d \in Names, NEW y \in Names, AppendSlice(d, x, y) PROVE Go!Next
    BY <2>8, AppendSliceIsAppend DEF Go!Next
  <2>9. CASE \E i \in 0..MaxCap, v \in T : Set(x, i, v)
    BY <2>1, <2>9, SetIsWrite DEF Go!Next
  <2>10. CASE \E values \in Values : CopyArray(x, values)
    BY <2>1, <2>10, OverwriteIsWrite DEF CopyArray, Go!Next
  <2>11. CASE \E y \in Names : CopySlice(x, y)
    BY <2>11, CopySliceIsWrite DEF Go!Next
  <2> QED BY <2>2, <2>3, <2>4, <2>5, <2>6, <2>7, <2>8, <2>9, <2>10, <2>11
<1>2. CASE UNCHANGED vars
  BY <1>2 DEF vars, Go!vars, Shown, Spare, HeldCells
<1> QED BY <1>1, <1>2

\* slice_t is go's slice: every call makes the step GoSlices allows it, an append to a slice
\* that has room writes only behind the slice, one that has not shares nothing with it, and a
\* write changes what the slice shows and nothing else; as long as no single value is appended
\* to a slice that does not start where its array does.
THEOREM SliceIsGoSlice ==
  ASSUME "value" \notin Uses
  PROVE  Spec => IsGoSlice
<1>1. Safe /\ Safe' /\ [Next]_vars => [Go!Next]_(Go!vars)
  BY NextIsGo
<1> QED BY SliceSafe, InitIsGo, <1>1, PTL DEF Spec, IsGoSlice, Go!Spec
=============================================================================
