------------------------------ MODULE GoSlices ------------------------------
(***************************************************************************)
(* What slice_t promises (src/include/kg/slice.hpp:9-49, 171-279): it is   *)
(* "like go's slice".  A slice shows a sequence of cells and knows spare   *)
(* cells behind them; slices may have cells in common, and then see each   *)
(* other's writes.  An append takes spare cells when there are enough and  *)
(* cells of its own when not.  Which values a call writes is left open,    *)
(* where it may write them is not.                                         *)
(***************************************************************************)
EXTENDS Naturals, Sequences, Functions

CONSTANT Names  \* the variables that hold a slice

VARIABLES
  shown,  \* the cells between begin() and end()
  spare,  \* the cells behind them that an append may use
  val,    \* what the cells hold that some slice has
  call    \* the last call; of an append, to what

vars == <<shown, spare, val, call>>

All(x) == shown[x] \o spare[x]
AllNext(x) == shown'[x] \o spare'[x]
Held == UNION {Range(All(x)) : x \in Names}
View(x) == [i \in DOMAIN shown[x] |-> val[shown[x][i]]]

Init ==
  /\ shown = [x \in Names |-> <<>>] /\ spare = [x \in Names |-> <<>>]
  /\ val = <<>> /\ call = <<>>

\* Of the cells somebody still has, only some may hold something else.
OnlyChange(cells) ==
  LET now == val'
  IN  /\ DOMAIN now = Held'
      /\ \A c \in DOMAIN now \ cells : now[c] = val[c]

OthersKeep(d) ==
  \A x \in Names \ {d} : shown'[x] = shown[x] /\ spare'[x] = spare[x]

\* d gets cells that nobody else has.
Fresh(d) ==
  /\ OthersKeep(d)
  /\ IsInjective(AllNext(d))
  /\ Range(AllNext(d)) \cap UNION {Range(All(x)) : x \in Names \ {d}} = {}
  /\ OnlyChange(Range(AllNext(d)))

Make(d) == call' = <<"make">> /\ Fresh(d)

\* A window may end behind what s shows; what is behind the window stays to spare.
Window(d, s) ==
  /\ call' = <<"range">>
  /\ OthersKeep(d)
  /\ \E b \in 0..Len(All(s)) : AllNext(d) = SubSeq(All(s), b + 1, Len(All(s)))
  /\ OnlyChange({})

\* d is assigned what an append to s returns.
AppendTo(d, s) ==
  /\ call' = <<"append", s>>
  /\ \/ /\ OthersKeep(d)
        /\ AllNext(d) = All(s)
        /\ Len(shown'[d]) >= Len(shown[s])
        /\ OnlyChange(Range(SubSeq(shown'[d], Len(shown[s]) + 1, Len(shown'[d]))))
     \/ /\ Len(shown'[d]) > Len(All(s))
        /\ Fresh(d)
        /\ SubSeq(View(d)', 1, Len(shown[s])) = View(s)

Write(d) == call' = <<"write">> /\ UNCHANGED <<shown, spare>> /\ OnlyChange(Range(shown[d]))

Next == \E d \in Names : Make(d) \/ Write(d) \/ \E s \in Names : Window(d, s) \/ AppendTo(d, s)

Spec == Init /\ [][Next]_vars
=============================================================================
