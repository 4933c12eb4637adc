------------------------------- MODULE Slice -------------------------------
(***************************************************************************)
(* slice_t and slice_impl (src/include/kg/slice.hpp, slice_impl.hpp): a    *)
(* shared array and a window on it.  The application holds slices in       *)
(* variables (Names) and puts what range and append return into one of     *)
(* them.  slice_impl is noncopyable and never changed once made, so the    *)
(* copies of a slice are equal records.  An array goes with the last slice *)
(* that has it.  A call that throws (out_of_range, bad_alloc) has changed  *)
(* nothing and is no step.                                                 *)
(***************************************************************************)
EXTENDS Integers, Sequences, FiniteSets

CONSTANTS
  T,       \* the elements
  Unset,   \* what an element of a new array holds until it is written
  Names,   \* the application's variables
  Arrays,  \* names for the arrays: one per slice that may be alive, and a new one
  MaxCap,  \* bound on the capacity of an array
  MaxLen,  \* bound on the arrays the application appends and copies from
  Uses,    \* "value": append(val) of a slice that does not start at the array's start;
           \* "overlap": copies whose destination begins inside their source
  None

ASSUME SliceAssumption ==
  /\ MaxCap \in Nat /\ MaxLen \in Nat
  /\ Uses \subseteq {"value", "overlap"}
  /\ None \notin Arrays

VARIABLES
  slices,  \* per variable: _array, _pos, _size, _capacity
  mem,     \* the arrays
  call     \* history: the last call; of an append, to what

vars == <<slices, mem, call>>

SliceImpl == [arr : Arrays \cup {None}, pos : Nat, size : Nat, cap : Nat]

\* slice_t()
Empty == [arr |-> None, pos |-> 0, size |-> 0, cap |-> 0]

Init ==
  /\ slices = [x \in Names |-> Empty]
  /\ mem = [a \in Arrays |-> <<>>]
  /\ call = <<>>

InUse == {slices[x].arr : x \in Names}
Values == UNION {[1..n -> T] : n \in 0..MaxLen}

\* The elements between begin() and end().
Elements(m, s) == [i \in 1..s.size |-> m[s.arr][s.pos + i]]
View(x) == Elements(mem, slices[x])

\* d is assigned the slice s; m is what the arrays hold.
Assign(d, s, m) ==
  /\ slices' = [slices EXCEPT ![d] = s]
  /\ mem' = [a \in Arrays |-> IF \E x \in Names : slices'[x].arr = a THEN m[a] ELSE <<>>]

\* d is assigned a slice of size elements on an array of its own.
NewArray(d, size, elements) ==
  \E a \in Arrays \ InUse :
    Assign(d, [arr |-> a, pos |-> 0, size |-> size, cap |-> Len(elements)],
              [mem EXCEPT ![a] = elements])

-----------------------------------------------------------------------------
(* The constructor and range.                                               *)

Make(d, size, capacity) ==
  LET cap == IF capacity < size THEN size ELSE capacity IN
    /\ call' = <<"make">>
    /\ \/ cap = 0 /\ Assign(d, Empty, mem)
       \/ cap > 0 /\ NewArray(d, size, [i \in 1..cap |-> Unset])

KeepCap(s, begin) == s.cap    \* variant: the capacity is not reduced
RestCap(s, begin) == s.cap - begin

Sub(s, begin, size) ==
  [arr |-> s.arr, pos |-> s.pos + begin, size |-> size, cap |-> RestCap(s, begin)]

\* variant: the bound of range(begin) is not tested
AnyBegin(s, begin) == begin <= s.cap
ValidBegin(s, begin) == begin <= s.size

RangeFrom(d, x, begin) ==
  /\ call' = <<"range">>
  /\ ValidBegin(slices[x], begin)
  /\ Assign(d, Sub(slices[x], begin, slices[x].size - begin), mem)

RangeTo(d, x, begin, end) ==
  LET s == slices[x]
      e == IF end > s.cap THEN s.cap ELSE end
  IN  /\ call' = <<"range">>
      /\ begin <= s.cap
      /\ Assign(d, Sub(s, begin, IF begin < e THEN e - begin ELSE 0), mem)

-----------------------------------------------------------------------------
(* append                                                                   *)

\* The elements of an array when the values are written from position at on.
Overlay(array, at, values) ==
  [i \in DOMAIN array |-> IF i - at \in DOMAIN values THEN values[i - at] ELSE array[i]]

\* The new capacity; append(val) is the case n = 1.
GrowTo(s, n) ==
  LET twice == IF s.cap = 0 THEN 1 ELSE 2 * s.cap
  IN  IF twice < s.size + n THEN s.size + n ELSE twice

\* A new array gets the old elements and the values.
Grow(d, s, values) ==
  LET whole == Elements(mem, s) \o values IN
    /\ GrowTo(s, Len(values)) <= MaxCap      \* bound
    /\ NewArray(d, Len(whole),
                [i \in 1..GrowTo(s, Len(values)) |-> IF i \in DOMAIN whole THEN whole[i] ELSE Unset])

Longer(s, n) == [arr |-> s.arr, pos |-> s.pos, size |-> s.size + n, cap |-> s.cap]

FitsBelow(s, n) == s.cap > s.size + n     \* variant: off by one
Fits(s, n) == s.cap >= s.size + n

\* append(val): dist[size] counts from the array's start, not from the slice's.
AppendValue(d, x, v) ==
  LET s == slices[x] IN
    /\ call' = <<"append", x>>
    /\ \/ /\ Fits(s, 1) /\ (s.pos = 0 \/ "value" \in Uses)
          /\ Assign(d, Longer(s, 1), [mem EXCEPT ![s.arr] = Overlay(@, s.size, <<v>>)])
       \/ ~Fits(s, 1) /\ Grow(d, s, <<v>>)

StartOf(s) == s.size            \* variant: _pos is forgotten
EndOf(s) == s.pos + s.size

\* append(arrs, size), the array being another one than the slice's.
Extend(d, x, values) ==
  LET s == slices[x] IN
    \/ /\ Fits(s, Len(values))
       /\ Assign(d, Longer(s, Len(values)),
                 IF values = <<>> THEN mem
                 ELSE [mem EXCEPT ![s.arr] = Overlay(@, EndOf(s), values)])
    \/ ~Fits(s, Len(values)) /\ Grow(d, s, values)

AppendArray(d, x, values) == call' = <<"append", x>> /\ Extend(d, x, values)

\* std::copy inside one array, forwards: a destination that begins inside the source is
\* undefined; plain elements are moved as a block, others one by one.
InsideSource(from, at, n) == from < at /\ at < from + n
CopyResults(array, from, at, n) ==
  {Overlay(array, at, SubSeq(array, from + 1, from + n))}
    \cup {Overlay(array, at, [i \in 1..n |-> array[from + 1 + ((i - 1) % (at - from))]])
            : x \in IF InsideSource(from, at, n) THEN {1} ELSE {}}
MayCopy(from, at, n) == "overlap" \in Uses \/ ~InsideSource(from, at, n)

\* append(slice)
AppendSlice(d, x, y) ==
  LET s == slices[x]
      t == slices[y]
  IN  /\ call' = <<"append", x>>
      /\ \/ /\ Fits(s, t.size) /\ t.size > 0 /\ s.arr = t.arr
            /\ MayCopy(t.pos, EndOf(s), t.size)
            /\ \E r \in CopyResults(mem[s.arr], t.pos, EndOf(s), t.size) :
                 Assign(d, Longer(s, t.size), [mem EXCEPT ![s.arr] = r])
         \/ /\ ~Fits(s, t.size) \/ t.size = 0 \/ s.arr # t.arr
            /\ Extend(d, x, View(y))

-----------------------------------------------------------------------------
(* Writes: operator[], at, the iterators, and copy_from.                    *)

Set(x, i, v) ==
  /\ i < slices[x].size
  /\ call' = <<"write">>
  /\ mem' = [mem EXCEPT ![slices[x].arr] = Overlay(@, slices[x].pos + i, <<v>>)]
  /\ UNCHANGED slices

\* variant: the slice's own size is not looked at
OwnLength(x, n) == n
CopyLength(x, n) == IF slices[x].size < n THEN slices[x].size ELSE n

Overwrite(x, values) ==
  LET s == slices[x]
      n == CopyLength(x, Len(values))
  IN  /\ n > 0
      /\ mem' = [mem EXCEPT ![s.arr] = Overlay(@, s.pos, SubSeq(values, 1, n))]
      /\ UNCHANGED slices

CopyArray(x, values) == call' = <<"write">> /\ Overwrite(x, values)

CopySlice(x, y) ==
  LET s == slices[x]
      t == slices[y]
      n == CopyLength(x, t.size)
  IN  /\ n > 0 /\ call' = <<"write">>
      /\ \/ /\ s.arr = t.arr
            /\ MayCopy(t.pos, s.pos, n)
            /\ \E r \in CopyResults(mem[s.arr], t.pos, s.pos, n) : mem' = [mem EXCEPT ![s.arr] = r]
            /\ UNCHANGED slices
         \/ s.arr # t.arr /\ Overwrite(x, View(y))

-----------------------------------------------------------------------------
Next ==
  \E x \in Names :
    \/ \E size, capacity \in 0..MaxLen : Make(x, size, capacity)
    \/ \E d \in Names :
         \/ \E begin \in 0..MaxCap : RangeFrom(d, x, begin) \/ \E end \in 0..MaxCap : RangeTo(d, x, begin, end)
         \/ \E v \in T : AppendValue(d, x, v)
         \/ \E values \in Values : AppendArray(d, x, values)
         \/ \E y \in Names : AppendSlice(d, x, y)
    \/ \E i \in 0..MaxCap, v \in T : Set(x, i, v)
    \/ \E values \in Values : CopyArray(x, values)
    \/ \E y \in Names : CopySlice(x, y)

Spec == Init /\ [][Next]_vars

-----------------------------------------------------------------------------
(* Properties                                                               *)

TypeOK ==
  /\ slices \in [Names -> SliceImpl]
  /\ mem \in [Arrays -> Seq(T \cup {Unset})]

\* However often a slice has been cut and extended, its window ends where its array does
\* and what it shows is inside: no element, iterator or copy is out of the array
\* (slice_impl.hpp:182, 225, 252, 310), and only a slice without capacity has no array.
InBounds ==
  \A x \in Names :
    LET s == slices[x] IN
      /\ s.size <= s.cap
      /\ IF s.arr = None THEN s.pos + s.cap = 0 ELSE s.pos + s.cap = Len(mem[s.arr])

\* Appending a slice gives the elements of both, in place or not and also when they share
\* an array; copy_from makes the first elements the source's and leaves the others
\* (slice_impl.hpp:296-405).
CallsDeliver ==
  [][\A x, y \in Names :
       /\ \A d \in Names : AppendSlice(d, x, y) => View(d)' = View(x) \o View(y)
       /\ CopySlice(x, y) =>
            View(x)' = [i \in DOMAIN View(x) |->
                          IF i \in DOMAIN View(y) THEN View(y)[i] ELSE View(x)[i]]]_vars

\* slice_t is go's slice: which cells a call may change, and for whom, is what GoSlices
\* says; an append that does not fit shares nothing with the slice it extends.
Cell(s, i) == <<s.arr, s.pos + i>>
Shown == [x \in Names |-> [i \in 1..slices[x].size |-> Cell(slices[x], i)]]
Spare == [x \in Names |->
  [i \in 1..(slices[x].cap - slices[x].size) |-> Cell(slices[x], slices[x].size + i)]]
HeldCells == UNION {{Cell(slices[x], i) : i \in 1..slices[x].cap} : x \in Names}

Go == INSTANCE GoSlices WITH shown <- Shown, spare <- Spare,
                             val <- [c \in HeldCells |-> mem[c[1]][c[2]]]
IsGoSlice == Go!Spec

\* "append: adds data at the end of the slice and returns the new slice"
\* (slice_impl.hpp:229-232): also when it is one value.
AppendsAtTheEnd ==
  [][\A d, x \in Names, v \in T : AppendValue(d, x, v) => View(d)' = Append(View(x), v)]_vars
=============================================================================
