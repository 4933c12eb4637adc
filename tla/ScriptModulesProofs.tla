------------------------ MODULE ScriptModulesProofs ------------------------
(***************************************************************************)
(* Proofs about ScriptModules, for any loaders, packages, files and depth  *)
(* of imports: who owns the loaders, what is where on the stack, what the  *)
(* cache holds, what an import gives and which libraries are open for it.  *)
(*                                                                         *)
(* The invariant says of the table that it has one loader of a type and    *)
(* that those in it are live, and of every import in progress that its     *)
(* values are where the code counts them and that the types it is about    *)
(* still have a loader in the table, if not the one it has looked up. Of   *)
(* the cache it says that a frame found its place empty when it began, so  *)
(* that what is there now was made since. Of the search it says that the   *)
(* directories behind an import have nothing for it, and never will: what  *)
(* a module gave it keeps (Grows), and the js loader is the first.         *)
(***************************************************************************)
EXTENDS ScriptModules, SequenceTheorems, FiniteSetTheorems, TLAPS

Searching == {"try", "running"}

Frame == [pkg : Pkgs, key : Types \cup {Null}, temp : BOOLEAN,
          pc : {"modules", "next", "try", "running"}, rest : Seq(Types),
          loader : Loaders \cup {Null}, dir : Nat, name : Pkgs,
          stack : Seq(Values), id : Nat, since : Nat]
Evaluation == [type : Types, dir : Nat, pkg : Pkgs,
               gave : {"none", "object", "other", "undefined"}]

Typed ==
  /\ table \in Seq(Loaders) /\ leaked \subseteq Loaders
  /\ loaders \in [Loaders -> {"unused", "live", "freed"}]
  /\ libs \in [Loaders -> [Pkgs -> Nat]]
  /\ made \in Seq(Evaluation)
  /\ frames \in Seq(Frame)

Owned ==
  /\ \A l, k \in Range(table) : TypeOf[l] = TypeOf[k] => l = k
  /\ {l \in Loaders : loaders[l] = "live"} = Range(table) \cup leaked
  /\ Range(table) \cap leaked = {}

\* What a frame has on the stack.
Shaped(f) ==
  /\ f.pc = "next" => f.stack = <<Modules, Enum>> /\ f.key = Null
  /\ f.pc \in Searching =>
       f.stack = (IF f.key = Null THEN <<Modules, Enum, Key>> ELSE <<Modules>>)
                   \o <<Item("entry", f.loader), Item("libs", f.loader)>>

\* The types a frame is about, and that it has found a loader.
About(f, t) == (f.pc \in Searching /\ t = TypeOf[f.loader]) \/ t \in Range(f.rest)
Looked(f) == f.pc \in Searching => f.loader \in Loaders
Served == heap = "up" => \A i \in DOMAIN frames, t \in Types :
                           About(frames[i], t) => Listed(t) # {}
Faults == fault = "loader" => /\ heap = "up" /\ frames # <<>>
                              /\ Top.pc \in Searching
                              /\ Top.loader \notin Range(table)

IInv ==
  /\ Typed /\ Owned /\ Served /\ Faults
  /\ \A i \in DOMAIN frames : Shaped(frames[i]) /\ Looked(frames[i])

(***************************************************************************)
(* The table.                                                              *)
(***************************************************************************)

\* A type that is listed has one loader in the table, and LoaderOf finds it.
LEMMA LoaderFound ==
  ASSUME Typed, NEW t \in Types, Listed(t) # {}
  PROVE  LoaderOf(t) \in Loaders /\ LoaderOf(t) \in Range(table) /\ TypeOf[LoaderOf(t)] = t
<1>1. LoaderOf(t) \in Listed(t)
  BY DEF LoaderOf
<1>2. Range(table) \subseteq Loaders
  BY SMT DEF Typed, Range
<1>. QED  BY <1>1, <1>2 DEF Listed

\* What the new table holds.
LEMMA RangeOfAppend ==
  ASSUME NEW s \in Seq(Loaders), NEW l \in Loaders
  PROVE  Range(Append(s, l)) = Range(s) \cup {l}
<1>. DEFINE t == Append(s, l)
<1>1. /\ DOMAIN s = 1 .. Len(s) /\ DOMAIN t = 1 .. (Len(s) + 1)
      /\ \A i \in 1 .. Len(s) : t[i] = s[i]
      /\ t[Len(s) + 1] = l /\ 1 .. (Len(s) + 1) = 1 .. Len(s) \cup {Len(s) + 1}
  BY SMT
<1>. HIDE DEF t
<1>2. Range(t) = Range(s) \cup {l}
  BY <1>1 DEF Range
<1>. QED  BY <1>2 DEF t

\* register_loader replaces the loader of its type, frees that one and no other,
\* and takes no type out of the table.
LEMMA Registered ==
  ASSUME Typed, Owned, NEW l \in Loaders, loaders[l] = "unused", WithLoader(l), leaked' = leaked
  PROVE  /\ table' \in Seq(Loaders)
         /\ loaders' \in [Loaders -> {"unused", "live", "freed"}]
         /\ Owned'
         /\ \A t \in Types : Listed(t) # {} => Listed(t)' # {}
<1>. DEFINE T == TypeOf[l]
<1>1. /\ table \in Seq(Loaders) /\ Range(table) \subseteq Loaders
      /\ l \notin Range(table) /\ l \notin leaked /\ leaked \subseteq Loaders
      /\ loaders \in [Loaders -> {"unused", "live", "freed"}]
  <2>1. Range(table) \subseteq Loaders
    BY SMT DEF Typed, Range
  <2>2. l \notin Range(table) \cup leaked
    BY DEF Owned
  <2>. QED  BY <2>1, <2>2 DEF Typed
<1>2. /\ table' \in Seq(Loaders)
      /\ Range(table') = (Range(table) \ Listed(T)) \cup {l}
  <2>1. CASE Listed(T) = {}
    <3>1. table' = Append(table, l)
      BY <2>1 DEF WithLoader
    <3>2. table' \in Seq(Loaders)
      BY <1>1, <3>1, SMT
    <3>3. Range(table') = Range(table) \cup {l}
      BY <1>1, <3>1, RangeOfAppend
    <3>. QED  BY <2>1, <3>2, <3>3
  <2>2. CASE Listed(T) # {}
    <3>1. table' = [i \in DOMAIN table |-> IF TypeOf[table[i]] = T THEN l ELSE table[i]]
      BY <2>2 DEF WithLoader
    <3>2. table' \in Seq(Loaders) /\ DOMAIN table' = DOMAIN table
      BY <1>1, <3>1, SMT
    <3>3. PICK i \in DOMAIN table : TypeOf[table[i]] = T
      BY <2>2 DEF Listed, Range
    <3>4. table'[i] = l
      BY <3>1, <3>3
    <3>5. ASSUME NEW k \in Range(table') PROVE k \in (Range(table) \ Listed(T)) \cup {l}
      BY <3>1, <3>2, <3>5 DEF Range, Listed
    <3>6. ASSUME NEW k \in Range(table), k \notin Listed(T)  PROVE k \in Range(table')
      <4>1. PICK j \in DOMAIN table : table[j] = k
        BY DEF Range
      <4>2. TypeOf[table[j]] # T
        BY <3>6, <4>1 DEF Listed
      <4>. QED  BY <3>1, <3>2, <4>1, <4>2 DEF Range
    <3>7. l \in Range(table')
      BY <3>2, <3>3, <3>4 DEF Range
    <3>. QED  BY <3>2, <3>5, <3>6, <3>7
  <2>. QED  BY <2>1, <2>2
<1>3. \A k \in Loaders : loaders'[k] = IF k = l THEN "live"
                                       ELSE IF k \in Listed(T) THEN "freed" ELSE loaders[k]
  BY DEF WithLoader
<1>4. loaders' \in [Loaders -> {"unused", "live", "freed"}]
  BY <1>1 DEF WithLoader
<1>5. Owned'
  <2>1. \A h, k \in Range(table') : TypeOf[h] = TypeOf[k] => h = k
    BY <1>2 DEF Owned, Listed
  <2>2. {k \in Loaders : loaders'[k] = "live"} = Range(table') \cup leaked
    BY <1>1, <1>2, <1>3 DEF Owned, Listed
  <2>3. Range(table') \cap leaked = {}
    BY <1>1, <1>2 DEF Owned
  <2>. QED  BY <2>1, <2>2, <2>3 DEF Owned
<1>6. ASSUME NEW t \in Types, Listed(t) # {}  PROVE Listed(t)' # {}
  <2>1. CASE t = T
    BY <1>2, <2>1 DEF Listed
  <2>2. CASE t # T
    <3>1. PICK k \in Range(table) : TypeOf[k] = t
      BY <1>6 DEF Listed
    <3>2. k \in Range(table')
      BY <1>2, <2>2, <3>1 DEF Listed
    <3>. QED  BY <3>1, <3>2 DEF Listed
  <2>. QED  BY <2>1, <2>2
<1>. QED  BY <1>2, <1>4, <1>5, <1>6

(***************************************************************************)
(* The frames.                                                             *)
(***************************************************************************)

\* The innermost frame is one of the frames.
LEMMA TopIsFrame ==
  ASSUME Typed, frames # <<>>
  PROVE  Top \in Frame /\ Len(frames) \in DOMAIN frames /\ Len(frames) \in Nat \ {0}
BY SMT DEF Typed, Top

\* Nothing is left to show when a step changes the innermost frame only, or takes it
\* away, and leaves the table alone.
LEMMA Replaced ==
  ASSUME IInv, Running, frames # <<>>, NEW f \in Frame, Replace(f),
         UNCHANGED <<heap, fault, tableVars>>, libs' \in [Loaders -> [Pkgs -> Nat]],
         made' \in Seq(Evaluation),
         Shaped(f), Looked(f), \A t \in Types : About(f, t) => Listed(t) # {}
  PROVE  IInv'
<1>1. /\ frames' \in Seq(Frame) /\ DOMAIN frames' = DOMAIN frames
      /\ \A i \in DOMAIN frames : frames'[i] = f \/ frames'[i] = frames[i]
  BY SMT DEF IInv, Typed, Replace
<1>2. table' = table /\ loaders' = loaders /\ leaked' = leaked /\ fault' = "none"
  BY DEF tableVars, Running
<1>3. \A t \in Types : Listed(t)' = Listed(t)
  BY <1>2 DEF Listed
<1>4. Typed' /\ Owned' /\ Faults'
  BY <1>1, <1>2 DEF IInv, Typed, Owned, Faults
<1>5. Served'
  BY <1>1, <1>3 DEF IInv, Served, Running
<1>6. \A i \in DOMAIN frames' : Shaped(frames'[i]) /\ Looked(frames'[i])
  BY <1>1 DEF IInv
<1>. QED  BY <1>4, <1>5, <1>6 DEF IInv

LEMMA Left ==
  ASSUME IInv, Running, frames # <<>>, NEW v, Leave(v),
         UNCHANGED <<heap, fault, tableVars>>, libs' \in [Loaders -> [Pkgs -> Nat]],
         made' \in Seq(Evaluation)
  PROVE  IInv'
<1>1. /\ frames' \in Seq(Frame) /\ DOMAIN frames' \subseteq DOMAIN frames
      /\ \A i \in DOMAIN frames' : frames'[i] = frames[i]
  <2>1. frames \in Seq(Frame) /\ Len(frames) \in Nat \ {0}
    BY TopIsFrame DEF IInv, Typed
  <2>2. frames' = SubSeq(frames, 1, Len(frames) - 1)
    BY DEF Leave, Pop
  <2>. QED  BY <2>1, <2>2, SMT
<1>2. table' = table /\ loaders' = loaders /\ leaked' = leaked /\ fault' = "none"
  BY DEF tableVars, Running
<1>3. \A t \in Types : Listed(t)' = Listed(t)
  BY <1>2 DEF Listed
<1>4. Typed' /\ Owned' /\ Faults'
  BY <1>1, <1>2 DEF IInv, Typed, Owned, Faults
<1>5. Served'
  BY <1>1, <1>3 DEF IInv, Served, Running
<1>. QED  BY <1>1, <1>4, <1>5 DEF IInv

(***************************************************************************)
(* The steps of the host.                                                  *)
(***************************************************************************)

LEMMA InitHolds == Init => IInv
<1>. SUFFICES ASSUME Init  PROVE IInv
  OBVIOUS
<1>1. /\ table = <<>> /\ leaked = {} /\ made = <<>> /\ frames = <<>> /\ fault = "none"
      /\ loaders = [l \in Loaders |-> "unused"]
      /\ libs = [l \in Loaders |-> [p \in Pkgs |-> 0]]
  BY DEF Init
<1>2. Range(table) = {}
  BY <1>1, SMT DEF Range
<1>3. Typed
  BY <1>1, SMT DEF Typed
<1>4. Owned
  BY <1>1, <1>2 DEF Owned
<1>5. DOMAIN frames = {}
  BY <1>1, SMT
<1>. QED  BY <1>1, <1>3, <1>4, <1>5 DEF IInv, Served, Faults

\* What the table is does not matter when nothing runs on.
LEMMA HostStep ==
  ASSUME IInv, Owned', table' \in Seq(Loaders), leaked' \subseteq Loaders,
         loaders' \in [Loaders -> {"unused", "live", "freed"}], UNCHANGED importVars,
         fault' # "loader",
         heap' = "up" => frames = <<>> \/ \A t \in Types : Listed(t) # {} => Listed(t)' # {},
         heap' = "up" => heap = "up"
  PROVE  IInv'
<1>1. libs' = libs /\ frames' = frames /\ made' = made
  BY DEF importVars
<1>2. Typed'
  BY <1>1 DEF IInv, Typed
<1>3. Served'
  <2>1. CASE frames = <<>>
    BY <1>1, <2>1, SMT DEF Served
  <2>2. CASE frames # <<>>
    BY <1>1, <2>2 DEF IInv, Served
  <2>. QED  BY <2>1, <2>2
<1>. QED  BY <1>1, <1>2, <1>3 DEF IInv, Faults

LEMMA InitModulesKeeps ==
  ASSUME IInv, NEW l \in Loaders, InitModules(l)
  PROVE  IInv'
<1>1. /\ Typed /\ Owned /\ loaders[l] = "unused" /\ WithLoader(l) /\ leaked' = leaked
      /\ UNCHANGED importVars /\ heap' = heap /\ fault' = "none"
  BY DEF IInv, InitModules, AtHost, Running
<1>2. leaked' \subseteq Loaders
  BY <1>1 DEF Typed
<1>. QED  BY <1>1, <1>2, Registered, HostStep

LEMMA RegisterLoaderKeeps ==
  ASSUME IInv, NEW l \in Loaders, RegisterLoader(l)
  PROVE  IInv'
<1>1. /\ Typed /\ Owned /\ loaders[l] = "unused" /\ WithLoader(l) /\ leaked' = leaked
      /\ UNCHANGED importVars /\ heap' = heap /\ fault' = "none"
  BY DEF IInv, RegisterLoader, AtHost, InNative, InModule, Running
<1>2. leaked' \subseteq Loaders
  BY <1>1 DEF Typed
<1>. QED  BY <1>1, <1>2, Registered, HostStep

LEMMA InitAgainKeeps ==
  ASSUME IInv, NEW l \in Loaders, NEW protected \in BOOLEAN, InitAgain(l, protected)
  PROVE  IInv'
<1>1. /\ Typed /\ Owned /\ Running /\ frames = <<>> /\ loaders[l] = "unused"
      /\ table' = <<>> /\ loaders' = [loaders EXCEPT ![l] = "live"]
      /\ leaked' = leaked \cup Range(table) \cup {l}
      /\ UNCHANGED importVars /\ fault' = "none" /\ heap = "up"
  BY DEF IInv, InitAgain, AtHost, Running
<1>2. Range(table') = {} /\ table' \in Seq(Loaders)
  BY <1>1, SMT DEF Range
<1>3. Range(table) \subseteq Loaders
  BY <1>1, SMT DEF Typed, Range
<1>4. /\ loaders' \in [Loaders -> {"unused", "live", "freed"}]
      /\ \A k \in Loaders : loaders'[k] = IF k = l THEN "live" ELSE loaders[k]
  BY <1>1 DEF Typed
<1>5. leaked' \subseteq Loaders
  BY <1>1, <1>3 DEF Typed
<1>6. Owned'
  <2>1. {k \in Loaders : loaders'[k] = "live"} = leaked'
    BY <1>1, <1>3, <1>4 DEF Owned
  <2>. QED  BY <1>2, <2>1 DEF Owned
<1>. QED  BY <1>1, <1>2, <1>4, <1>5, <1>6, HostStep

LEMMA FinalizeKeeps ==
  ASSUME IInv, Finalize, heap' = "destroyed", fault' # "loader"
  PROVE  IInv'
<1>1. /\ Typed /\ Owned /\ table' = <<>> /\ leaked' = leaked /\ UNCHANGED importVars
      /\ loaders' = [l \in Loaders |-> IF l \in Range(table) THEN "freed" ELSE loaders[l]]
  BY DEF IInv, Finalize
<1>2. Range(table') = {} /\ table' \in Seq(Loaders) /\ leaked' \subseteq Loaders
  BY <1>1, SMT DEF Range, Typed
<1>3. loaders' \in [Loaders -> {"unused", "live", "freed"}]
  BY <1>1 DEF Typed
<1>4. Owned'
  <2>1. {k \in Loaders : loaders'[k] = "live"} = leaked
    BY <1>1 DEF Owned, Typed
  <2>. QED  BY <1>1, <1>2, <2>1 DEF Owned
<1>. QED  BY <1>1, <1>2, <1>3, <1>4, HostStep

(***************************************************************************)
(* The steps of an import.                                                 *)
(***************************************************************************)

LEMMA ImportKeeps ==
  ASSUME IInv, NEW p \in Pkgs, NEW k \in Types \cup {Null}, NEW t \in Temps, Import(p, k, t)
  PROVE  IInv'
<1>. DEFINE f == [pkg |-> p, key |-> k, temp |-> t, pc |-> "modules", rest |-> <<>>,
                  loader |-> Null, dir |-> 0, name |-> p, stack |-> <<>>, id |-> 0,
                  since |-> Len(made)]
<1>1. /\ Typed /\ frames' = Append(frames, f) /\ Running
      /\ UNCHANGED <<heap, fault, tableVars, libs, made>>
  BY DEF IInv, Import, AtHost, InModule
<1>2. /\ f \in Frame /\ f.pc = "modules" /\ f.rest = <<>>
  <2>1. Len(made) \in Nat /\ t \in BOOLEAN
    BY <1>1, ScriptAssumption, SMT DEF Typed
  <2>2. <<>> \in Seq(Types) /\ <<>> \in Seq(Values) /\ 0 \in Nat
    BY SMT
  <2>. QED  BY <2>1, <2>2 DEF Frame
<1>. HIDE DEF f
<1>3. /\ frames' \in Seq(Frame)
      /\ \A i \in DOMAIN frames' : frames'[i] = f \/ (i \in DOMAIN frames /\ frames'[i] = frames[i])
  BY <1>1, <1>2, SMT DEF Typed
<1>4. /\ table' = table /\ loaders' = loaders /\ leaked' = leaked /\ fault' = "none"
      /\ libs' = libs /\ made' = made /\ heap' = heap
  BY <1>1 DEF tableVars, Running
<1>5. Typed' /\ Owned' /\ Faults'
  BY <1>3, <1>4 DEF IInv, Typed, Owned, Faults
<1>6. Shaped(f) /\ Looked(f) /\ \A h : ~About(f, h)
  <2>1. Range(f.rest) = {}
    BY <1>2, SMT DEF Range
  <2>. QED  BY <1>2, <2>1 DEF Shaped, Looked, About, Searching
<1>7. Served'
  <2>1. \A h \in Types : Listed(h)' = Listed(h)
    BY <1>4 DEF Listed
  <2>. QED  BY <1>3, <1>4, <1>6, <2>1 DEF IInv, Served
<1>8. \A i \in DOMAIN frames' : Shaped(frames'[i]) /\ Looked(frames'[i])
  BY <1>3, <1>6 DEF IInv
<1>. QED  BY <1>5, <1>7, <1>8 DEF IInv

\* A step that leaves the frame with a throw or with what the cache holds.
LEMMA LeavesKeep ==
  ASSUME IInv, NoModules \/ NoLoader \/ NoneHasIt \/ Unloadable
  PROVE  IInv'
<1>1. /\ Typed /\ Running /\ frames # <<>> /\ UNCHANGED <<heap, fault, tableVars, libs, made>>
      /\ Leave(Thrown) \/ Leave(Error)
  BY DEF IInv, NoModules, NoLoader, NoneHasIt, Unloadable, At, Trying
<1>2. libs' \in [Loaders -> [Pkgs -> Nat]] /\ made' \in Seq(Evaluation)
  BY <1>1 DEF Typed
<1>. QED  BY <1>1, <1>2, Left

\* The frame search starts with, when the type it has found is listed.
LEMMA SearchKeeps ==
  ASSUME IInv, Running, frames # <<>>, NEW l \in Loaders, NEW s, NEW rest \in Seq(Types),
         Search(l, s, rest), UNCHANGED <<heap, fault, tableVars, libs, made>>,
         Listed(TypeOf[l]) # {}, \A t \in Range(rest) : Listed(t) # {},
         s = (IF Top.key = Null THEN <<Modules, Enum, Key>> ELSE <<Modules>>)
               \o <<Item("entry", l), Item("libs", l)>>
  PROVE  IInv'
<1>1. /\ Typed /\ Top \in Frame
  BY TopIsFrame DEF IInv
<1>2. PICK n \in PkgsRead :
        Replace([Top EXCEPT !.pc = "try", !.rest = rest, !.loader = l,
                            !.dir = 1, !.name = n, !.stack = s])
  BY DEF Search
<1>. DEFINE f == [Top EXCEPT !.pc = "try", !.rest = rest, !.loader = l,
                             !.dir = 1, !.name = n, !.stack = s]
<1>3. n \in Pkgs
  BY <1>1, <1>2 DEF PkgsRead, Frame
<1>4. s \in Seq(Values)
  <2>1. /\ Modules \in Values /\ Enum \in Values /\ Key \in Values
        /\ Item("entry", l) \in Values /\ Item("libs", l) \in Values
    BY SMT DEF Modules, Enum, Key, Item, Values
  <2>. QED  BY <2>1, SMT
<1>5. /\ f \in Frame
      /\ f.pc = "try" /\ f.rest = rest /\ f.loader = l /\ f.stack = s /\ f.key = Top.key
  <2>1. "try" \in {"modules", "next", "try", "running"} /\ l \in Loaders \cup {Null} /\ 1 \in Nat
    OBVIOUS
  <2>2. f \in Frame
    BY <1>1, <1>3, <1>4, <2>1, Zenon DEF Frame
  <2>. QED  BY <1>1, <2>2, Zenon DEF Frame
<1>6. Replace(f)
  BY <1>2
<1>. HIDE DEF f
<1>7. Shaped(f) /\ Looked(f)
  BY <1>5 DEF Shaped, Looked, Searching
<1>8. \A t \in Types : About(f, t) => Listed(t) # {}
  BY <1>5 DEF About
<1>9. libs' \in [Loaders -> [Pkgs -> Nat]] /\ made' \in Seq(Evaluation)
  BY <1>1 DEF Typed
<1>. QED  BY <1>5, <1>6, <1>7, <1>8, <1>9, Replaced

LEMMA KeyedKeeps ==
  ASSUME IInv, Keyed
  PROVE  IInv'
<1>1. /\ Typed /\ Running /\ frames # <<>> /\ Top.key # Null /\ Top \in Frame
      /\ UNCHANGED <<heap, fault, tableVars, libs, opened, made>>
      /\ libs' \in [Loaders -> [Pkgs -> Nat]] /\ made' \in Seq(Evaluation)
  BY TopIsFrame DEF IInv, Keyed, At, Typed
<1>2. PICK k \in KeysRead, p \in PkgsRead :
        /\ Listed(k) # {}
        /\ \/ Leave(Object(libs[LoaderOf(k)][p]))
           \/ Search(LoaderOf(k),
                     <<Modules, Item("entry", LoaderOf(k)), Item("libs", LoaderOf(k))>>, <<>>)
  BY DEF Keyed
<1>3. k \in Types
  BY <1>1, <1>2 DEF KeysRead, Frame
<1>. DEFINE l == LoaderOf(k)
<1>4. l \in Loaders /\ TypeOf[l] = k
  BY <1>1, <1>2, <1>3, LoaderFound
<1>5. CASE Leave(Object(libs[l][p]))
  BY <1>1, <1>5, Left
<1>6. CASE Search(l, <<Modules, Item("entry", l), Item("libs", l)>>, <<>>)
  <2>. HIDE DEF l
  <2>1. <<>> \in Seq(Types) /\ Range(<<>>) = {}
    BY SMT DEF Range
  <2>2. <<Modules, Item("entry", l), Item("libs", l)>>
          = (IF Top.key = Null THEN <<Modules, Enum, Key>> ELSE <<Modules>>)
              \o <<Item("entry", l), Item("libs", l)>>
    BY <1>1, SMT
  <2>. QED  BY <1>1, <1>2, <1>4, <1>6, <2>1, <2>2, SearchKeeps
<1>. QED  BY <1>2, <1>5, <1>6

LEMMA EnumerateKeeps ==
  ASSUME IInv, Enumerate
  PROVE  IInv'
<1>. DEFINE rest == [i \in DOMAIN table |-> TypeOf[table[i]]]
            f == [Top EXCEPT !.pc = "next", !.stack = <<Modules, Enum>>, !.rest = rest]
<1>1. /\ Typed /\ Running /\ frames # <<>> /\ Top \in Frame /\ Replace(f) /\ Top.key = Null
      /\ UNCHANGED <<heap, fault, tableVars, libs, opened, made, answer>>
      /\ libs' \in [Loaders -> [Pkgs -> Nat]] /\ made' \in Seq(Evaluation)
  BY TopIsFrame DEF IInv, Enumerate, At, Typed
<1>2. rest \in Seq(Types)
  <2>1. /\ table \in Seq(Loaders) /\ DOMAIN table = 1 .. Len(table) /\ Len(table) \in Nat
        /\ \A i \in 1 .. Len(table) : table[i] \in Loaders
    BY <1>1, SMT DEF Typed
  <2>2. \A i \in 1 .. Len(table) : TypeOf[table[i]] \in Types
    BY <2>1, ScriptAssumption
  <2>. QED  BY <2>1, <2>2, SMT
<1>3. <<Modules, Enum>> \in Seq(Values)
  <2>1. Modules \in Values /\ Enum \in Values
    BY SMT DEF Modules, Enum, Item, Values
  <2>. QED  BY <2>1, SMT
<1>4. \A t \in Range(rest) : Listed(t) # {}
  BY DEF Range, Listed
<1>. HIDE DEF rest
<1>5. /\ f \in Frame /\ f.pc = "next" /\ f.rest = rest /\ f.stack = <<Modules, Enum>>
      /\ f.key = Null
  <2>1. "next" \in {"modules", "next", "try", "running"}
    OBVIOUS
  <2>2. f \in Frame
    BY <1>1, <1>2, <1>3, <2>1, Zenon DEF Frame
  <2>. QED  BY <1>1, <2>2, Zenon DEF Frame
<1>. HIDE DEF f
<1>6. Shaped(f) /\ Looked(f) /\ \A t \in Types : About(f, t) => Listed(t) # {}
  BY <1>4, <1>5 DEF Shaped, Looked, About, Searching
<1>. QED  BY <1>1, <1>5, <1>6, Replaced

LEMMA NextLoaderKeeps ==
  ASSUME IInv, NextLoader
  PROVE  IInv'
<1>1. /\ Typed /\ Running /\ frames # <<>> /\ Top.pc = "next" /\ Top.rest # <<>>
      /\ Top \in Frame /\ Len(frames) \in DOMAIN frames
      /\ UNCHANGED <<heap, fault, tableVars, libs, opened, made>>
      /\ libs' \in [Loaders -> [Pkgs -> Nat]] /\ made' \in Seq(Evaluation)
  BY TopIsFrame DEF IInv, NextLoader, At, Typed
<1>. DEFINE k == Head(Top.rest)
            l == LoaderOf(k)
<1>2. /\ Top.rest \in Seq(Types) /\ k \in Types /\ k \in Range(Top.rest)
      /\ Tail(Top.rest) \in Seq(Types) /\ Range(Tail(Top.rest)) \subseteq Range(Top.rest)
      /\ Range(Top.rest) \subseteq Types
  <2>1. Top.rest \in Seq(Types)
    BY <1>1 DEF Frame
  <2>. QED  BY <1>1, <2>1, SMT DEF Range
<1>3. \A t \in Range(Top.rest) : Listed(t) # {}
  BY <1>1, <1>2 DEF IInv, Served, About, Running, Top
<1>4. l \in Loaders /\ TypeOf[l] = k
  BY <1>1, <1>2, <1>3, LoaderFound
<1>5. Top.stack = <<Modules, Enum>>
  BY <1>1 DEF IInv, Shaped, Top
<1>6. PICK p \in PkgsRead :
        \/ Leave(Object(libs[l][p]))
        \/ Search(l, Top.stack \o <<Key, Item("entry", l), Item("libs", l)>>, Tail(Top.rest))
  BY DEF NextLoader
<1>. HIDE DEF l
<1>7. CASE Leave(Object(libs[l][p]))
  BY <1>1, <1>7, Left
<1>8. CASE Search(l, Top.stack \o <<Key, Item("entry", l), Item("libs", l)>>, Tail(Top.rest))
  <2>1. Top.key = Null
    BY <1>1 DEF IInv, Shaped, Top
  <2>2. Top.stack \o <<Key, Item("entry", l), Item("libs", l)>>
          = <<Modules, Enum, Key>> \o <<Item("entry", l), Item("libs", l)>>
    BY <1>5, SMT
  <2>3. \A t \in Range(Tail(Top.rest)) : Listed(t) # {}
    BY <1>2, <1>3
  <2>4. Listed(TypeOf[l]) # {}
    BY <1>2, <1>3, <1>4
  <2>. QED  BY <1>1, <1>2, <1>4, <1>8, <2>1, <2>2, <2>3, <2>4, SearchKeeps
<1>. QED  BY <1>6, <1>7, <1>8

\* A frame that goes on searching with the same loader.
LEMMA SameSearch ==
  ASSUME IInv, Running, frames # <<>>, Top.pc \in Searching, NEW f \in Frame, Replace(f),
         f.pc \in Searching, f.rest = Top.rest, f.loader = Top.loader,
         f.stack = Top.stack, f.key = Top.key,
         UNCHANGED <<heap, fault, tableVars>>, libs' \in [Loaders -> [Pkgs -> Nat]],
         made' \in Seq(Evaluation)
  PROVE  IInv'
<1>1. Len(frames) \in DOMAIN frames /\ Top = frames[Len(frames)]
  BY TopIsFrame DEF IInv, Top
<1>2. Shaped(Top) /\ Looked(Top)
  BY <1>1 DEF IInv
<1>3. \A t \in Types : About(Top, t) => Listed(t) # {}
  BY <1>1 DEF IInv, Served, Running
<1>4. Shaped(f) /\ Looked(f)
  BY <1>2 DEF Shaped, Looked, Searching
<1>5. \A t \in Types : About(f, t) => Listed(t) # {}
  BY <1>3 DEF About
<1>. QED  BY <1>4, <1>5, Replaced

LEMMA NotThereKeeps ==
  ASSUME IInv, NotThere
  PROVE  IInv'
<1>. DEFINE f == [Top EXCEPT !.dir = @ + 1]
<1>1. /\ Typed /\ Running /\ frames # <<>> /\ Top.pc = "try" /\ Replace(f)
      /\ Top \in Frame /\ Len(frames) \in DOMAIN frames
      /\ UNCHANGED <<heap, fault, tableVars>>
      /\ libs' \in [Loaders -> [Pkgs -> Nat]] /\ made' \in Seq(Evaluation)
  BY TopIsFrame DEF IInv, NotThere, Trying, At, Typed
<1>2. Top.dir + 1 \in Nat
  BY <1>1, SMT DEF Frame
<1>3. /\ f \in Frame /\ f.pc = Top.pc /\ f.rest = Top.rest /\ f.loader = Top.loader
      /\ f.stack = Top.stack /\ f.key = Top.key
  BY <1>1, <1>2, Zenon DEF Frame
<1>. HIDE DEF f
<1>. QED  BY <1>1, <1>3, SameSearch DEF Searching

LEMMA EvaluateKeeps ==
  ASSUME IInv, Evaluate
  PROVE  IInv'
<1>. DEFINE f == [Top EXCEPT !.pc = "running", !.id = Len(made) + 1]
            m == [type |-> Type, dir |-> Top.dir, pkg |-> Top.name, gave |-> "none"]
<1>1. /\ Typed /\ Running /\ frames # <<>> /\ Top.pc = "try" /\ Replace(f)
      /\ Top \in Frame /\ Len(frames) \in DOMAIN frames
      /\ UNCHANGED <<heap, fault, tableVars>> /\ made' = Append(made, m)
      /\ libs' \in [Loaders -> [Pkgs -> Nat]]
  BY TopIsFrame DEF IInv, Evaluate, Trying, At, Typed
<1>2. Type \in Types
  BY <1>1, ScriptAssumption DEF IInv, Looked, Searching, Type, Top
<1>3. m \in Evaluation
  BY <1>1, <1>2, Zenon DEF Frame, Evaluation
<1>. HIDE DEF m
<1>4. made' \in Seq(Evaluation) /\ Len(made) + 1 \in Nat
  BY <1>1, <1>3, SMT DEF Typed
<1>5. /\ f \in Frame /\ f.pc = "running" /\ f.rest = Top.rest /\ f.loader = Top.loader
      /\ f.stack = Top.stack /\ f.key = Top.key
  <2>1. "running" \in {"modules", "next", "try", "running"}
    OBVIOUS
  <2>2. f \in Frame
    BY <1>1, <1>4, <2>1, Zenon DEF Frame
  <2>. QED  BY <1>1, <2>2, Zenon DEF Frame
<1>. HIDE DEF f
<1>. QED  BY <1>1, <1>4, <1>5, SameSearch DEF Searching

LEMMA Overwritten ==
  ASSUME NEW s \in Seq(Evaluation), NEW i, NEW e, i \in DOMAIN s => e \in Evaluation
  PROVE  [s EXCEPT ![i] = e] \in Seq(Evaluation)
<1>1. s \in [1 .. Len(s) -> Evaluation] /\ Len(s) \in Nat
  BY SMT
<1>2. [s EXCEPT ![i] = e] \in [1 .. Len(s) -> Evaluation]
  BY <1>1
<1>. QED  BY <1>1, <1>2, SMT

\* What an evaluation gives is written down in place.
LEMMA GivesTyped ==
  ASSUME Typed, NEW what \in {"object", "other", "undefined"}, Gives(what)
  PROVE  made' \in Seq(Evaluation)
<1>1. \A e \in Evaluation : [e EXCEPT !.gave = what] \in Evaluation
  BY Zenon DEF Evaluation
<1>2. made \in Seq(Evaluation)
  BY DEF Typed
<1>3. \A i \in DOMAIN made : made[i] \in Evaluation
  BY <1>2, SMT
<1>. DEFINE g == [made[Top.id] EXCEPT !.gave = what]
<1>4. made' = [made EXCEPT ![Top.id] = g]
  BY DEF Gives
<1>5. Top.id \in DOMAIN made => g \in Evaluation
  BY <1>1, <1>3
<1>. HIDE DEF g
<1>. QED  BY <1>2, <1>4, <1>5, Overwritten

LEMMA GivesKeep ==
  ASSUME IInv, GivesObject \/ GivesOther
  PROVE  IInv'
<1>1. /\ Typed /\ Running /\ frames # <<>> /\ Top.pc = "running" /\ Top \in Frame
      /\ Len(frames) \in DOMAIN frames /\ UNCHANGED <<heap, fault, tableVars>>
  BY TopIsFrame DEF IInv, GivesObject, GivesOther, InModule
<1>2. made' \in Seq(Evaluation)
  BY <1>1, GivesTyped DEF GivesObject, GivesOther
<1>3. CASE GivesOther
  <2>1. Leave(Error) /\ libs' \in [Loaders -> [Pkgs -> Nat]]
    BY <1>1, <1>3 DEF GivesOther, Typed
  <2>. QED  BY <1>1, <1>2, <2>1, Left
<1>4. CASE GivesObject
  <2>1. Leave(Object(Top.id))
    BY <1>4 DEF GivesObject
  <2>2. libs \in [Loaders -> [Pkgs -> Nat]] /\ Top.id \in Nat
    BY <1>1 DEF Typed, Frame
  <2>3. PICK t : libs' = IF t.is = "libs" THEN [libs EXCEPT ![t.id][Top.name] = Top.id] ELSE libs
    BY <1>4 DEF GivesObject
  <2>4. libs' \in [Loaders -> [Pkgs -> Nat]]
    BY <2>2, <2>3
  <2>. QED  BY <1>1, <1>2, <2>1, <2>4, Left
<1>. QED  BY <1>3, <1>4

LEMMA GivesUndefinedKeeps ==
  ASSUME IInv, GivesUndefined
  PROVE  IInv'
<1>. DEFINE f == [Top EXCEPT !.pc = "try", !.dir = @ + 1]
<1>1. /\ Typed /\ Running /\ frames # <<>> /\ Top.pc = "running" /\ Replace(f)
      /\ Top \in Frame /\ Len(frames) \in DOMAIN frames
      /\ UNCHANGED <<heap, fault, tableVars>>
      /\ libs' \in [Loaders -> [Pkgs -> Nat]]
  BY TopIsFrame DEF IInv, GivesUndefined, InModule, Typed
<1>2. made' \in Seq(Evaluation)
  BY <1>1, GivesTyped DEF GivesUndefined
<1>3. Top.dir + 1 \in Nat
  BY <1>1, SMT DEF Frame
<1>4. /\ f \in Frame /\ f.pc = "try" /\ f.rest = Top.rest /\ f.loader = Top.loader
      /\ f.stack = Top.stack /\ f.key = Top.key
  <2>1. "try" \in {"modules", "next", "try", "running"}
    OBVIOUS
  <2>2. f \in Frame
    BY <1>1, <1>3, <2>1, Zenon DEF Frame
  <2>. QED  BY <1>1, <2>2, Zenon DEF Frame
<1>. HIDE DEF f
<1>. QED  BY <1>1, <1>2, <1>4, SameSearch DEF Searching

\* Of five values three are popped.
LEMMA PopsThree ==
  ASSUME NEW a, NEW b, NEW c, NEW d, NEW e
  PROVE  Pop(<<a, b, c>> \o <<d, e>>, 3) = <<a, b>>
<1>. DEFINE t == <<a, b, c>> \o <<d, e>>
            S == {a, b, c, d, e}
            u == SubSeq(t, 1, 2)
            w == <<a, b>>
<1>1. /\ t \in Seq(S) /\ Len(t) = 5 /\ t[1] = a /\ t[2] = b
  BY SMT
<1>2. w \in Seq(S) /\ Len(w) = 2 /\ w[1] = a /\ w[2] = b
  BY SMT
<1>. HIDE DEF t, S
<1>3. u \in Seq(S) /\ Len(u) = 2 /\ u[1] = a /\ u[2] = b
  BY <1>1, SMTT(30)
<1>. HIDE DEF u, w
<1>4. \A i \in 1 .. Len(u) : u[i] = w[i]
  BY <1>2, <1>3, SMT
<1>5. u = w
  BY <1>2, <1>3, <1>4, SeqEqual
<1>. QED BY <1>1, <1>5 DEF Pop, t, u, w

LEMMA NotFoundKeeps ==
  ASSUME IInv, NotFound
  PROVE  IInv'
<1>. DEFINE f == [Top EXCEPT !.pc = "next", !.stack = Pop(@, 3)]
<1>1. /\ Typed /\ Running /\ frames # <<>> /\ Top.pc = "try"
      /\ Top \in Frame /\ Len(frames) \in DOMAIN frames
      /\ UNCHANGED <<heap, fault, tableVars>>
      /\ libs' \in [Loaders -> [Pkgs -> Nat]] /\ made' \in Seq(Evaluation)
  BY TopIsFrame DEF IInv, NotFound, At, Typed
<1>2. CASE Top.key # Null
  <2>1. Leave(Thrown)
    BY <1>2 DEF NotFound
  <2>. QED  BY <1>1, <2>1, Left
<1>3. CASE Top.key = Null
  <2>1. Replace(f)
    BY <1>3 DEF NotFound
  <2>2. Top.stack = <<Modules, Enum, Key>>
                      \o <<Item("entry", Top.loader), Item("libs", Top.loader)>>
    BY <1>1, <1>3 DEF IInv, Shaped, Searching, Top
  <2>3. Pop(Top.stack, 3) = <<Modules, Enum>>
    BY <2>2, PopsThree
  <2>4. <<Modules, Enum>> \in Seq(Values)
    <3>1. Modules \in Values /\ Enum \in Values
      BY SMT DEF Modules, Enum, Item, Values
    <3>. QED  BY <3>1, SMT
  <2>5. /\ f \in Frame /\ f.pc = "next" /\ f.rest = Top.rest /\ f.key = Null
        /\ f.stack = <<Modules, Enum>>
    <3>1. "next" \in {"modules", "next", "try", "running"}
      OBVIOUS
    <3>2. f \in Frame
      BY <1>1, <2>3, <2>4, <3>1, Zenon DEF Frame
    <3>. QED  BY <1>1, <1>3, <2>3, <3>2, Zenon DEF Frame
  <2>. HIDE DEF f
  <2>6. Shaped(f) /\ Looked(f)
    BY <2>5 DEF Shaped, Looked, Searching
  <2>7. \A t \in Types : About(f, t) => Listed(t) # {}
    BY <1>1, <2>5 DEF IInv, Served, About, Searching, Running, Top
  <2>. QED  BY <1>1, <2>1, <2>5, <2>6, <2>7, Replaced
<1>. QED  BY <1>2, <1>3

\* A loader that is freed is in the table no more.
LEMMA UseFreedKeeps ==
  ASSUME IInv, UseFreed
  PROVE  IInv'
<1>1. /\ Typed /\ Owned /\ Running /\ frames # <<>> /\ Top.pc = "try"
      /\ loaders[Top.loader] = "freed" /\ fault' = "loader"
      /\ UNCHANGED <<heap, tableVars, importVars>>
  BY DEF IInv, UseFreed, At
<1>2. /\ table' = table /\ loaders' = loaders /\ leaked' = leaked /\ libs' = libs
      /\ made' = made /\ frames' = frames /\ heap' = heap
  BY <1>1 DEF tableVars, importVars
<1>3. Top.loader \notin Range(table)
  BY <1>1 DEF Owned
<1>4. Typed' /\ Owned' /\ Served'
  BY <1>2 DEF IInv, Typed, Owned, Served, Listed
<1>5. Faults'
  BY <1>1, <1>2, <1>3 DEF Faults, Searching, Running, Top
<1>. QED  BY <1>2, <1>4, <1>5 DEF IInv

(***************************************************************************)
(* The invariant and what follows from it.                                 *)
(***************************************************************************)

LEMMA StepKeeps == IInv /\ [Next]_vars => IInv'
<1>. SUFFICES ASSUME IInv, [Next]_vars  PROVE IInv'
  OBVIOUS
<1>1. ASSUME NEW l \in Loaders, InitModules(l)  PROVE IInv'
  BY <1>1, InitModulesKeeps
<1>2. ASSUME NEW l \in Loaders, RegisterLoader(l)  PROVE IInv'
  BY <1>2, RegisterLoaderKeeps
<1>3. ASSUME NEW l \in Loaders, NEW protected \in BOOLEAN, InitAgain(l, protected)  PROVE IInv'
  BY <1>3, InitAgainKeeps
<1>4. CASE DestroyHeap
  BY <1>4, FinalizeKeeps DEF DestroyHeap, AtHost, Running
<1>5. CASE Wrap
  BY <1>5, FinalizeKeeps DEF Wrap
<1>6. ASSUME NEW p \in Pkgs, NEW k \in Types \cup {Null}, NEW t \in Temps, Import(p, k, t)
      PROVE IInv'
  BY <1>6, ImportKeeps
<1>7. CASE NoModules \/ NoLoader \/ NoneHasIt \/ Unloadable
  BY <1>7, LeavesKeep
<1>8. CASE Keyed
  BY <1>8, KeyedKeeps
<1>9. CASE Enumerate
  BY <1>9, EnumerateKeeps
<1>10. CASE NextLoader
  BY <1>10, NextLoaderKeeps
<1>11. CASE UseFreed
  BY <1>11, UseFreedKeeps
<1>12. CASE NotThere
  BY <1>12, NotThereKeeps
<1>13. CASE Evaluate
  BY <1>13, EvaluateKeeps
<1>14. CASE NotFound
  BY <1>14, NotFoundKeeps
<1>15. CASE GivesObject \/ GivesOther
  BY <1>15, GivesKeep
<1>16. CASE GivesUndefined
  BY <1>16, GivesUndefinedKeeps
<1>17. CASE NoName \/ UNCHANGED vars
  <2>1. /\ table' = table /\ loaders' = loaders /\ leaked' = leaked /\ libs' = libs
        /\ made' = made /\ frames' = frames /\ heap' = heap /\ fault' = fault
    BY <1>17 DEF NoName, tableVars, vars
  <2>. QED  BY <2>1 DEF IInv, Typed, Owned, Served, Faults, Listed, Top
<1>. QED
  BY <1>1, <1>2, <1>3, <1>4, <1>5, <1>6, <1>7, <1>8, <1>9, <1>10, <1>11, <1>12, <1>13,
     <1>14, <1>15, <1>16, <1>17 DEF Next

LEMMA InvariantHolds == Spec => []IInv
<1>. QED  BY InitHolds, StepKeeps, PTL DEF Spec

\* There is one loader of a type; the loaders that live are those of the table and
\* those a second init() dropped; a freed loader is met only when a native module
\* has replaced it (register_loader, init, native_destory, import_pkg).
THEOREM ScriptLoadersOwned == Spec => []LoadersOwned
<1>1. IInv => LoadersOwned
  <2>. SUFFICES ASSUME IInv  PROVE LoadersOwned
    OBVIOUS
  <2>1. fault = "loader" => Top.loader \notin Range(table) /\ Listed(Type) # {}
    <3>. SUFFICES ASSUME fault = "loader"
                  PROVE  Top.loader \notin Range(table) /\ Listed(Type) # {}
      OBVIOUS
    <3>1. /\ heap = "up" /\ frames # <<>> /\ Top.pc \in Searching
          /\ Top.loader \notin Range(table) /\ Typed
      BY DEF IInv, Faults
    <3>2. Len(frames) \in DOMAIN frames /\ Top = frames[Len(frames)]
      BY <3>1, TopIsFrame DEF Top
    <3>3. Type \in Types /\ Type = TypeOf[Top.loader]
      BY <3>1, <3>2, ScriptAssumption DEF IInv, Looked, Type
    <3>4. About(frames[Len(frames)], Type)
      BY <3>1, <3>2, <3>3 DEF About
    <3>. QED  BY <3>1, <3>2, <3>3, <3>4 DEF IInv, Served
  <2>. QED  BY <2>1 DEF IInv, Owned, LoadersOwned
<1>. QED  BY <1>1, InvariantHolds, PTL

\* Every import finds the modules, the enumeration and the loader's cache at the
\* places of its stack it counts to (native_import, import_pkg).
THEOREM ScriptStackShape == Spec => []StackShape
<1>1. IInv => StackShape
  BY DEF IInv, Shaped, StackShape, Searching
<1>. QED  BY <1>1, InvariantHolds, PTL

(***************************************************************************)
(* What an import remembers of the cache while others run inside it.       *)
(***************************************************************************)

\* A frame started before what was made since; the module it runs is the one it looked
\* for; and what its loader's cache holds by now was made after it began.
Remembers(f, ms, ls) ==
  /\ f.since <= Len(ms)
  /\ f.pc = "running" => /\ f.id \in 1 .. Len(ms)
                         /\ ms[f.id].pkg = f.name /\ ms[f.id].type = TypeOf[f.loader]
  /\ f.pc \in Searching => f.temp \/ ls[f.loader][f.name] = 0 \/ ls[f.loader][f.name] > f.since

\* What runs inside an import was made after the import began.
Nested == \A i, j \in DOMAIN frames :
            i < j /\ frames[j].pc = "running" => frames[i].since < frames[j].id

Remember == Nested /\ \A i \in DOMAIN frames : Remembers(frames[i], made, libs)

\* Evaluations are added and finished, and keep their packages and types.
Continues(ms, ns) ==
  /\ Len(ms) \in Nat /\ Len(ns) \in Nat /\ Len(ms) <= Len(ns)
  /\ \A i \in 1 .. Len(ms) : ns[i].pkg = ms[i].pkg /\ ns[i].type = ms[i].type

LEMMA StillRemembers ==
  ASSUME NEW f \in Frame, NEW ms, NEW ns, NEW ls, Remembers(f, ms, ls), Continues(ms, ns)
  PROVE  Remembers(f, ns, ls)
<1>1. f.since \in Nat /\ f.id \in Nat
  BY DEF Frame
<1>2. f.since <= Len(ns)
  BY <1>1 DEF Remembers, Continues
<1>3. f.id \in 1 .. Len(ms) => f.id \in 1 .. Len(ns)
  BY <1>1 DEF Continues
<1>. QED  BY <1>2, <1>3 DEF Remembers, Continues

\* The innermost import ends.
LEMMA LeavesRemember ==
  ASSUME Typed, Remember, frames # <<>>, NEW v, Leave(v),
         \A i \in DOMAIN frames : i # Len(frames) => Remembers(frames[i], made', libs')
  PROVE  Remember'
<1>1. /\ DOMAIN frames' \subseteq DOMAIN frames
      /\ \A i \in DOMAIN frames' : frames'[i] = frames[i] /\ i # Len(frames)
  <2>1. frames \in Seq(Frame) /\ Len(frames) \in Nat \ {0}
    BY TopIsFrame DEF Typed
  <2>2. frames' = SubSeq(frames, 1, Len(frames) - 1)
    BY DEF Leave, Pop
  <2>. QED  BY <2>1, <2>2, SMT
<1>2. Nested'
  BY <1>1 DEF Remember, Nested
<1>. QED  BY <1>1, <1>2 DEF Remember

LEMMA LeavesQuietly ==
  ASSUME Typed, Remember, frames # <<>>, NEW v, Leave(v), libs' = libs, Continues(made, made')
  PROVE  Remember'
<1>1. ASSUME NEW i \in DOMAIN frames  PROVE Remembers(frames[i], made', libs')
  <2>1. frames[i] \in Frame
    BY SMT DEF Typed
  <2>. QED  BY <2>1, StillRemembers DEF Remember
<1>. QED  BY <1>1, LeavesRemember

\* The innermost import goes on as f; if it now runs a module, that is a new one.
LEMMA GoesOn ==
  ASSUME Typed, Remember, frames # <<>>, NEW f, Replace(f), libs' = libs,
         Continues(made, made'), Remembers(f, made', libs),
         f.pc = "running" => f.id \in Nat /\ f.id > Len(made)
  PROVE  Remember'
<1>1. /\ DOMAIN frames' = DOMAIN frames /\ DOMAIN frames = 1 .. Len(frames)
      /\ frames'[Len(frames)] = f /\ Len(frames) \in Nat \ {0}
      /\ \A i \in DOMAIN frames : i # Len(frames) => frames'[i] = frames[i]
      /\ \A i \in DOMAIN frames : frames[i] \in Frame
  BY SMT DEF Typed, Replace
<1>2. ASSUME NEW i \in DOMAIN frames  PROVE Remembers(frames'[i], made', libs')
  BY <1>1, StillRemembers DEF Remember
<1>3. ASSUME NEW i \in DOMAIN frames, NEW j \in DOMAIN frames, i < j, frames'[j].pc = "running"
      PROVE  frames'[i].since < frames'[j].id
  <2>1. i # Len(frames)
    BY <1>1, <1>3
  <2>2. frames'[i] = frames[i]
    BY <1>1, <2>1
  <2>3. CASE j # Len(frames)
    BY <1>1, <1>3, <2>2, <2>3 DEF Remember, Nested
  <2>4. CASE j = Len(frames)
    <3>1. frames'[j] = f
      BY <1>1, <2>4
    <3>2. frames[i].since <= Len(made) /\ frames[i].since \in Nat /\ Len(made) \in Nat
      BY <1>1 DEF Remember, Remembers, Frame, Continues
    <3>3. f.id \in Nat /\ f.id > Len(made)
      BY <1>3, <3>1
    <3>4. frames[i].since < f.id
      BY <3>2, <3>3
    <3>. QED  BY <2>2, <3>1, <3>4
  <2>. QED  BY <2>3, <2>4
<1>. QED  BY <1>1, <1>2, <1>3 DEF Remember, Nested

LEMMA SameMade ==
  ASSUME Typed, made' = made
  PROVE  Continues(made, made')
BY SMT DEF Typed, Continues

\* An evaluation that ends keeps its place.
LEMMA GivesContinues ==
  ASSUME Typed, NEW what, Gives(what)
  PROVE  Continues(made, made')
<1>1. made \in Seq(Evaluation) /\ Len(made) \in Nat /\ DOMAIN made = 1 .. Len(made)
  BY SMT DEF Typed
<1>2. made' = [made EXCEPT ![Top.id].gave = what]
  BY DEF Gives
<1>3. Len(made') = Len(made)
  BY <1>1, <1>2, SMT
<1>4. ASSUME NEW i \in 1 .. Len(made)
      PROVE  made'[i].pkg = made[i].pkg /\ made'[i].type = made[i].type
  <2>1. made[i] \in Evaluation
    BY <1>1, SMT
  <2>2. made'[i] = IF i = Top.id THEN [made[i] EXCEPT !.gave = what] ELSE made[i]
    BY <1>1, <1>2
  <2>. QED  BY <2>1, <2>2 DEF Evaluation
<1>. QED  BY <1>1, <1>3, <1>4 DEF Continues

LEMMA ImportRemembers ==
  ASSUME IInv, Remember, NEW p \in Pkgs, NEW k \in Types \cup {Null}, NEW t \in Temps,
         Import(p, k, t)
  PROVE  Remember'
<1>. DEFINE f == [pkg |-> p, key |-> k, temp |-> t, pc |-> "modules", rest |-> <<>>,
                  loader |-> Null, dir |-> 0, name |-> p, stack |-> <<>>, id |-> 0,
                  since |-> Len(made)]
<1>1. frames' = Append(frames, f) /\ libs' = libs /\ made' = made /\ Typed
  BY DEF Import, IInv
<1>2. f.pc = "modules" /\ f.since = Len(made) /\ Len(made) \in Nat
  BY <1>1, SMT DEF Typed
<1>. HIDE DEF f
<1>3. /\ DOMAIN frames = 1 .. Len(frames) /\ DOMAIN frames' = 1 .. (Len(frames) + 1)
      /\ Len(frames) \in Nat /\ frames'[Len(frames) + 1] = f
      /\ \A i \in DOMAIN frames : frames'[i] = frames[i]
  BY <1>1, SMT DEF Typed
<1>4. Remembers(f, made, libs)
  BY <1>2 DEF Remembers, Searching
<1>5. \A i \in DOMAIN frames' : i \in DOMAIN frames \/ i = Len(frames) + 1
  BY <1>3
<1>6. \A i \in DOMAIN frames' : Remembers(frames'[i], made', libs')
  BY <1>1, <1>3, <1>4, <1>5 DEF Remember
<1>7. ASSUME NEW i \in DOMAIN frames', NEW j \in DOMAIN frames', i < j, frames'[j].pc = "running"
      PROVE  frames'[i].since < frames'[j].id
  <2>1. j # Len(frames) + 1
    BY <1>2, <1>3, <1>7
  <2>2. i \in DOMAIN frames /\ j \in DOMAIN frames
    BY <1>3, <1>7, <2>1
  <2>. QED  BY <1>3, <1>7, <2>2 DEF Remember, Nested
<1>. QED  BY <1>6, <1>7 DEF Remember, Nested

\* A search begins where the cache has nothing.
LEMMA SearchRemembers ==
  ASSUME IInv, Remember, frames # <<>>, NEW l \in Loaders, NEW s, NEW rest, Search(l, s, rest),
         UNCHANGED <<libs, made>>, NEW p \in PkgsRead, libs[l][p] = 0
  PROVE  Remember'
<1>1. Typed /\ Top \in Frame /\ Top = frames[Len(frames)] /\ Len(frames) \in DOMAIN frames
  BY TopIsFrame DEF IInv, Top
<1>2. PICK n \in PkgsRead :
        Replace([Top EXCEPT !.pc = "try", !.rest = rest, !.loader = l,
                            !.dir = 1, !.name = n, !.stack = s])
  BY DEF Search
<1>. DEFINE f == [Top EXCEPT !.pc = "try", !.rest = rest, !.loader = l,
                             !.dir = 1, !.name = n, !.stack = s]
<1>3. f.pc = "try" /\ f.loader = l /\ f.name = n /\ f.temp = Top.temp /\ f.since = Top.since
  BY <1>1, Zenon DEF Frame
<1>4. Replace(f)
  BY <1>2
<1>. HIDE DEF f
<1>5. Top.temp \/ n = p
  BY DEF PkgsRead
<1>6. Top.since <= Len(made)
  BY <1>1 DEF Remember, Remembers
<1>7. Remembers(f, made, libs)
  BY <1>1, <1>3, <1>5, <1>6 DEF Remembers, Frame
<1>. QED  BY <1>1, <1>3, <1>4, <1>7, GoesOn, SameMade

LEMMA KeyedRemembers ==
  ASSUME IInv, Remember, Keyed
  PROVE  Remember'
<1>1. /\ Typed /\ frames # <<>> /\ libs' = libs /\ made' = made /\ Top.key # Null /\ Top \in Frame
  BY TopIsFrame DEF IInv, Keyed, At
<1>2. PICK k \in KeysRead, p \in PkgsRead :
        /\ Listed(k) # {}
        /\ \/ Leave(Object(libs[LoaderOf(k)][p]))
           \/ /\ libs[LoaderOf(k)][p] = 0
              /\ Search(LoaderOf(k),
                        <<Modules, Item("entry", LoaderOf(k)), Item("libs", LoaderOf(k))>>, <<>>)
  BY DEF Keyed
<1>3. k \in Types
  BY <1>1, <1>2 DEF KeysRead, Frame
<1>4. LoaderOf(k) \in Loaders
  BY <1>1, <1>2, <1>3, LoaderFound
<1>. QED  BY <1>1, <1>2, <1>4, LeavesQuietly, SameMade, SearchRemembers

LEMMA NextRemembers ==
  ASSUME IInv, Remember, NextLoader
  PROVE  Remember'
<1>. DEFINE k == Head(Top.rest)
            l == LoaderOf(k)
<1>1. /\ Typed /\ Running /\ frames # <<>> /\ Top.rest # <<>> /\ libs' = libs /\ made' = made
      /\ Top \in Frame /\ Len(frames) \in DOMAIN frames
  BY TopIsFrame DEF IInv, NextLoader, At
<1>2. k \in Types /\ k \in Range(Top.rest)
  <2>1. Top.rest \in Seq(Types)
    BY <1>1 DEF Frame
  <2>. QED  BY <1>1, <2>1, SMT DEF Range
<1>3. Listed(k) # {}
  BY <1>1, <1>2 DEF IInv, Served, About, Running, Top
<1>4. l \in Loaders
  BY <1>1, <1>2, <1>3, LoaderFound
<1>5. PICK p \in PkgsRead :
        \/ Leave(Object(libs[l][p]))
        \/ /\ libs[l][p] = 0
           /\ Search(l, Top.stack \o <<Key, Item("entry", l), Item("libs", l)>>, Tail(Top.rest))
  BY DEF NextLoader
<1>. HIDE DEF l
<1>. QED  BY <1>1, <1>4, <1>5, LeavesQuietly, SameMade, SearchRemembers

LEMMA EnumerateRemembers ==
  ASSUME IInv, Remember, Enumerate
  PROVE  Remember'
<1>. DEFINE f == [Top EXCEPT !.pc = "next", !.stack = <<Modules, Enum>>,
                             !.rest = [i \in DOMAIN table |-> TypeOf[table[i]]]]
<1>1. /\ Typed /\ frames # <<>> /\ Replace(f) /\ libs' = libs /\ made' = made
      /\ Top \in Frame /\ Len(frames) \in DOMAIN frames
  BY TopIsFrame DEF IInv, Enumerate, At
<1>2. f.pc = "next" /\ f.since = Top.since
  BY <1>1, Zenon DEF Frame
<1>. HIDE DEF f
<1>3. Remembers(f, made, libs)
  BY <1>1, <1>2 DEF Remember, Remembers, Searching, Top
<1>. QED  BY <1>1, <1>2, <1>3, GoesOn, SameMade

LEMMA NotThereRemembers ==
  ASSUME IInv, Remember, NotThere
  PROVE  Remember'
<1>. DEFINE f == [Top EXCEPT !.dir = @ + 1]
<1>1. /\ Typed /\ frames # <<>> /\ Top.pc = "try" /\ Replace(f) /\ libs' = libs /\ made' = made
      /\ Top \in Frame /\ Len(frames) \in DOMAIN frames
  BY TopIsFrame DEF IInv, NotThere, Trying, At
<1>2. /\ f.pc = "try" /\ f.since = Top.since /\ f.loader = Top.loader /\ f.name = Top.name
      /\ f.temp = Top.temp
  BY <1>1, Zenon DEF Frame
<1>. HIDE DEF f
<1>3. Remembers(f, made, libs)
  BY <1>1, <1>2 DEF Remember, Remembers, Searching, Top
<1>. QED  BY <1>1, <1>2, <1>3, GoesOn, SameMade

LEMMA NotFoundRemembers ==
  ASSUME IInv, Remember, NotFound
  PROVE  Remember'
<1>. DEFINE f == [Top EXCEPT !.pc = "next", !.stack = Pop(@, 3)]
<1>1. /\ Typed /\ frames # <<>> /\ libs' = libs /\ made' = made
      /\ Top \in Frame /\ Len(frames) \in DOMAIN frames
      /\ Leave(Thrown) \/ Replace(f)
  BY TopIsFrame DEF IInv, NotFound, At
<1>2. f.pc = "next" /\ f.since = Top.since
  BY <1>1, Zenon DEF Frame
<1>. HIDE DEF f
<1>3. Remembers(f, made, libs)
  BY <1>1, <1>2 DEF Remember, Remembers, Searching, Top
<1>. QED  BY <1>1, <1>2, <1>3, GoesOn, SameMade, LeavesQuietly

LEMMA EvaluateRemembers ==
  ASSUME IInv, Remember, Evaluate
  PROVE  Remember'
<1>. DEFINE m == [type |-> Type, dir |-> Top.dir, pkg |-> Top.name, gave |-> "none"]
            f == [Top EXCEPT !.pc = "running", !.id = Len(made) + 1]
<1>1. /\ Typed /\ frames # <<>> /\ Top.pc = "try" /\ Replace(f) /\ libs' = libs
      /\ made' = Append(made, m) /\ Top \in Frame /\ Len(frames) \in DOMAIN frames
  BY TopIsFrame DEF IInv, Evaluate, Trying, At
<1>2. /\ f.pc = "running" /\ f.since = Top.since /\ f.loader = Top.loader /\ f.name = Top.name
      /\ f.temp = Top.temp /\ f.id = Len(made) + 1
  BY <1>1, Zenon DEF Frame
<1>3. m.pkg = f.name /\ m.type = TypeOf[f.loader]
  BY <1>2 DEF Type
<1>. HIDE DEF f, m
<1>4. /\ Len(made) \in Nat /\ Len(made') = Len(made) + 1 /\ made'[Len(made) + 1] = m
      /\ \A i \in 1 .. Len(made) : made'[i] = made[i]
  BY <1>1, SMT DEF Typed
<1>5. Continues(made, made')
  BY <1>4 DEF Continues
<1>6. Remembers(Top, made, libs) /\ Top.since \in Nat
  BY <1>1 DEF Remember, Top, Frame
<1>7. Remembers(f, made', libs)
  BY <1>1, <1>2, <1>3, <1>4, <1>6 DEF Remembers, Searching
<1>8. f.id \in Nat /\ f.id > Len(made)
  BY <1>2, <1>4
<1>. QED  BY <1>1, <1>5, <1>7, <1>8, GoesOn

LEMMA GivesUndefinedRemembers ==
  ASSUME IInv, Remember, GivesUndefined
  PROVE  Remember'
<1>. DEFINE f == [Top EXCEPT !.pc = "try", !.dir = @ + 1]
<1>1. /\ Typed /\ frames # <<>> /\ Top.pc = "running" /\ Replace(f) /\ libs' = libs
      /\ Top \in Frame /\ Len(frames) \in DOMAIN frames
  BY TopIsFrame DEF IInv, GivesUndefined, InModule
<1>2. /\ f.pc = "try" /\ f.since = Top.since /\ f.loader = Top.loader /\ f.name = Top.name
      /\ f.temp = Top.temp
  BY <1>1, Zenon DEF Frame
<1>. HIDE DEF f
<1>3. Continues(made, made')
  BY <1>1, GivesContinues DEF GivesUndefined
<1>4. Remembers(Top, made', libs)
  BY <1>1, <1>3, StillRemembers DEF Remember, Top
<1>5. Remembers(f, made', libs)
  BY <1>1, <1>2, <1>4 DEF Remembers, Searching
<1>. QED  BY <1>1, <1>2, <1>3, <1>5, GoesOn

LEMMA JoinedBelow ==
  ASSUME NEW S, NEW t \in Seq(S), NEW y \in Seq(S)
  PROVE  /\ Len(t \o y) = Len(t) + Len(y)
         /\ \A i \in 1 .. Len(t) : (t \o y)[i] = t[i]
OBVIOUS

LEMMA BelowThree ==
  ASSUME NEW a, NEW b, NEW c, NEW d, NEW e, NEW x
  PROVE  FromTop((<<a, b, c>> \o <<d, e>>) \o <<x, x>>, 3) = e
<1>. DEFINE t == <<a, b, c>> \o <<d, e>>
            S == {a, b, c, d, e, x}
            y == <<x, x>>
<1>1. t \in Seq(S) /\ Len(t) = 5 /\ t[5] = e
  BY SMT
<1>2. y \in Seq(S) /\ Len(y) = 2
  BY SMT
<1>. HIDE DEF t, S, y
<1>3. Len(t \o y) = 7 /\ (t \o y)[5] = e
  <2>1. Len(t \o y) = Len(t) + Len(y)
    BY <1>1, <1>2, JoinedBelow, Zenon
  <2>2. \A i \in 1 .. Len(t) : (t \o y)[i] = t[i]
    BY <1>1, <1>2, JoinedBelow, Zenon
  <2>3. 5 \in 1 .. Len(t)
    BY <1>1, SMT
  <2>4. (t \o y)[5] = t[5]
    BY <2>2, <2>3, Zenon
  <2>5. Len(t \o y) = 7
    BY <1>1, <1>2, <2>1, SMT
  <2>. QED  BY <1>1, <2>4, <2>5, Zenon
<1>4. FromTop(t \o y, 3) = e
  BY <1>3, SMT DEF FromTop
<1>. QED  BY <1>4 DEF t, y

LEMMA BelowThreeOf ==
  ASSUME NEW a, NEW d, NEW e, NEW x
  PROVE  FromTop((<<a>> \o <<d, e>>) \o <<x, x>>, 3) = e
<1>. DEFINE t == <<a>> \o <<d, e>>
            S == {a, d, e, x}
            y == <<x, x>>
<1>1. t \in Seq(S) /\ Len(t) = 3 /\ t[3] = e
  BY SMT
<1>2. y \in Seq(S) /\ Len(y) = 2
  BY SMT
<1>. HIDE DEF t, S, y
<1>3. Len(t \o y) = 5 /\ (t \o y)[3] = e
  <2>1. Len(t \o y) = Len(t) + Len(y)
    BY <1>1, <1>2, JoinedBelow, Zenon
  <2>2. \A i \in 1 .. Len(t) : (t \o y)[i] = t[i]
    BY <1>1, <1>2, JoinedBelow, Zenon
  <2>3. 3 \in 1 .. Len(t)
    BY <1>1, SMT
  <2>4. (t \o y)[3] = t[3]
    BY <2>2, <2>3, Zenon
  <2>5. Len(t \o y) = 5
    BY <1>1, <1>2, <2>1, SMT
  <2>. QED  BY <1>1, <2>4, <2>5, Zenon
<1>4. FromTop(t \o y, 3) = e
  BY <1>3, SMT DEF FromTop
<1>. QED  BY <1>4 DEF t, y

\* The value three places below the top is the cache of the frame's loader.
LEMMA LibsBelow ==
  ASSUME NEW f, NEW x, Shaped(f), f.pc = "running"
  PROVE  FromTop(f.stack \o <<x, x>>, 3) = Item("libs", f.loader)
<1>. DEFINE e == Item("entry", f.loader)
            h == Item("libs", f.loader)
<1>1. f.stack = (IF f.key = Null THEN <<Modules, Enum, Key>> ELSE <<Modules>>) \o <<e, h>>
  BY DEF Shaped, Searching
<1>. HIDE DEF e, h
<1>2. CASE f.key = Null
  <2>1. f.stack = <<Modules, Enum, Key>> \o <<e, h>>
    BY <1>1, <1>2, Zenon
  <2>2. FromTop((<<Modules, Enum, Key>> \o <<e, h>>) \o <<x, x>>, 3) = h
    BY BelowThree
  <2>. QED  BY <2>1, <2>2, Zenon DEF h
<1>3. CASE f.key # Null
  <2>1. f.stack = <<Modules>> \o <<e, h>>
    BY <1>1, <1>3, Zenon
  <2>2. FromTop((<<Modules>> \o <<e, h>>) \o <<x, x>>, 3) = h
    BY BelowThreeOf
  <2>. QED  BY <2>1, <2>2, Zenon DEF h
<1>. QED  BY <1>2, <1>3

\* The object of the innermost import goes into the cache of its loader, and the imports
\* around it began before it was made.
LEMMA ObjectCached ==
  ASSUME IInv, GivesObject
  PROVE  /\ libs' = [libs EXCEPT ![Top.loader][Top.name] = Top.id]
         /\ Top.loader \in Loaders /\ Top.name \in Pkgs
<1>1. /\ Typed /\ Top \in Frame /\ Top.pc = "running"
      /\ Top = frames[Len(frames)] /\ Len(frames) \in DOMAIN frames
  BY TopIsFrame DEF IInv, GivesObject, InModule, Top
<1>2. Shaped(Top) /\ Looked(Top)
  BY <1>1 DEF IInv
<1>3. FromTop(Top.stack \o <<Object(Top.id), Object(Top.id)>>, 3) = Item("libs", Top.loader)
  BY <1>1, <1>2, LibsBelow
<1>4. Item("libs", Top.loader).is = "libs" /\ Item("libs", Top.loader).id = Top.loader
  BY DEF Item
<1>5. libs' = [libs EXCEPT ![Top.loader][Top.name] = Top.id]
  BY <1>3, <1>4 DEF GivesObject
<1>. QED  BY <1>1, <1>2, <1>5 DEF Looked, Searching, Frame

LEMMA GivesObjectRemembers ==
  ASSUME IInv, Remember, GivesObject
  PROVE  Remember'
<1>1. /\ Typed /\ frames # <<>> /\ Top.pc = "running" /\ Top \in Frame
      /\ Leave(Object(Top.id)) /\ Len(frames) \in DOMAIN frames /\ Top = frames[Len(frames)]
      /\ DOMAIN frames = 1 .. Len(frames) /\ Len(frames) \in Nat
  <2>1. frames # <<>> /\ Typed
    BY DEF IInv, GivesObject, InModule
  <2>2. DOMAIN frames = 1 .. Len(frames) /\ Len(frames) \in Nat
    BY <2>1, SMT DEF Typed
  <2>. QED  BY <2>1, <2>2, TopIsFrame DEF IInv, GivesObject, InModule, Top
<1>2. Continues(made, made')
  BY <1>1, GivesContinues DEF GivesObject
<1>3. ASSUME NEW i \in DOMAIN frames, i # Len(frames)  PROVE Remembers(frames[i], made', libs')
  <2>. DEFINE g == frames[i]
  <2>1. g \in Frame /\ g.since \in Nat
    <3>1. g \in Frame
      BY <1>1, SMT DEF Typed
    <3>. QED  BY <3>1 DEF Frame
  <2>2. Remembers(g, made', libs)
    BY <1>2, <2>1, StillRemembers DEF Remember
  <2>3. i < Len(frames)
    BY <1>1, <1>3
  <2>4. Top.id > g.since /\ Top.id \in Nat
    BY <1>1, <2>1, <2>3 DEF Remember, Nested, Frame
  <2>5. ASSUME g.pc \in Searching
        PROVE  \/ libs'[g.loader][g.name] = Top.id
               \/ libs'[g.loader][g.name] = libs[g.loader][g.name]
    <3>1. g.loader \in Loaders
      BY <2>5 DEF IInv, Looked
    <3>2. g.name \in Pkgs
      BY <2>1 DEF Frame
    <3>3. libs \in [Loaders -> [Pkgs -> Nat]]
      BY <1>1 DEF Typed
    <3>. QED  BY <3>1, <3>2, <3>3, ObjectCached
  <2>. HIDE DEF g
  <2>6. Remembers(g, made', libs')
    BY <2>2, <2>4, <2>5 DEF Remembers
  <2>. QED  BY <2>6 DEF g
<1>. QED  BY <1>1, <1>3, LeavesRemember

LEMMA RememberStep == IInv /\ Remember /\ [Next]_vars => Remember'
<1>. SUFFICES ASSUME IInv, Remember, [Next]_vars  PROVE Remember'
  OBVIOUS
<1>1. CASE UNCHANGED <<frames, made, libs>>
  BY <1>1 DEF Remember, Nested
<1>2. ASSUME NEW l \in Loaders,
             InitModules(l) \/ RegisterLoader(l) \/ \E p \in BOOLEAN : InitAgain(l, p)
      PROVE  UNCHANGED <<frames, made, libs>>
  BY <1>2 DEF InitModules, RegisterLoader, InitAgain, importVars
<1>3. CASE DestroyHeap \/ Wrap \/ UseFreed \/ NoName \/ UNCHANGED vars
  BY <1>1, <1>3 DEF DestroyHeap, Wrap, Finalize, UseFreed, NoName, importVars, vars
<1>4. ASSUME NEW p \in Pkgs, NEW k \in Types \cup {Null}, NEW t \in Temps, Import(p, k, t)
      PROVE Remember'
  BY <1>4, ImportRemembers
<1>5. CASE NoModules \/ NoLoader \/ NoneHasIt \/ Unloadable
  <2>1. /\ Typed /\ frames # <<>> /\ libs' = libs /\ made' = made
        /\ Leave(Thrown) \/ Leave(Error)
    BY <1>5 DEF IInv, NoModules, NoLoader, NoneHasIt, Unloadable, At, Trying
  <2>. QED  BY <2>1, LeavesQuietly, SameMade
<1>6. CASE GivesOther
  <2>1. /\ Typed /\ frames # <<>> /\ libs' = libs /\ Gives("other") /\ Leave(Error)
    BY <1>6 DEF IInv, GivesOther, InModule
  <2>. QED  BY <2>1, LeavesQuietly, GivesContinues
<1>. QED
  BY <1>1, <1>2, <1>3, <1>4, <1>5, <1>6, KeyedRemembers, EnumerateRemembers, NextRemembers,
     NotThereRemembers, NotFoundRemembers, EvaluateRemembers, GivesUndefinedRemembers,
     GivesObjectRemembers DEF Next

LEMMA RememberHolds == Spec => []Remember
<1>1. Init => Remember
  <2>. SUFFICES ASSUME Init  PROVE Remember
    OBVIOUS
  <2>1. DOMAIN frames = {}
    BY SMT DEF Init
  <2>. QED  BY <2>1 DEF Remember, Nested
<1>. QED  BY <1>1, RememberStep, InvariantHolds, PTL DEF Spec

\* An object in the cache was loaded under its name and by its loader, and is only replaced
\* by an import that had looked before it was made, however imports nest and whatever native
\* modules register (native_import, import_pkg).
THEOREM ScriptCacheStable == Spec => CacheStable
<1>. DEFINE Stable ==
       \A l \in Loaders, p \in Pkgs :
         libs'[l][p] # libs[l][p] =>
           /\ made'[libs'[l][p]].pkg = p /\ made'[libs'[l][p]].type = TypeOf[l]
           /\ libs[l][p] # 0 => libs[l][p] > Top.since \/ Top.temp
<1>1. ASSUME IInv, Remember, GivesObject  PROVE Stable
  <2>1. /\ libs' = [libs EXCEPT ![Top.loader][Top.name] = Top.id]
        /\ libs \in [Loaders -> [Pkgs -> Nat]]
    BY <1>1, ObjectCached DEF IInv, Typed
  <2>2. Top.pc = "running" /\ Remembers(Top, made, libs) /\ Continues(made, made')
    <3>1. frames # <<>> /\ Typed /\ Top.pc = "running" /\ Gives("object")
      BY <1>1 DEF IInv, GivesObject, InModule
    <3>2. Len(frames) \in DOMAIN frames
      BY <3>1, TopIsFrame
    <3>. QED  BY <1>1, <3>1, <3>2, GivesContinues DEF Remember, Top
  <2>. SUFFICES ASSUME NEW l \in Loaders, NEW p \in Pkgs, libs'[l][p] # libs[l][p]
                PROVE  /\ made'[libs'[l][p]].pkg = p /\ made'[libs'[l][p]].type = TypeOf[l]
                       /\ libs[l][p] # 0 => libs[l][p] > Top.since \/ Top.temp
    OBVIOUS
  <2>3. l = Top.loader /\ p = Top.name /\ libs'[l][p] = Top.id
    BY <2>1
  <2>. QED  BY <2>2, <2>3 DEF Remembers, Continues, Searching
<1>2. ASSUME Next, ~GivesObject  PROVE libs' = libs
  BY <1>2 DEF Next, InitModules, RegisterLoader, InitAgain, DestroyHeap, Wrap, Finalize, Import,
     NoName, NoModules, NoLoader, Keyed, Enumerate, NextLoader, NoneHasIt, UseFreed, NotThere,
     Unloadable, Evaluate, NotFound, GivesOther, GivesUndefined, importVars
<1>3. IInv /\ Remember /\ [Next]_vars => [Stable]_vars
  BY <1>1, <1>2 DEF vars
<1>4. CacheStable <=> [][Stable]_vars
  BY DEF CacheStable
<1>. QED  BY <1>3, <1>4, InvariantHolds, RememberHolds, PTL DEF Spec

(***************************************************************************)
(* What an import gives, and what is open for it.                          *)
(***************************************************************************)

\* Stands, of any list of evaluations; a loader's search has passed all it has.
StandsIn(ms, t, d, p) ==
  /\ <<t, d, p>> \in Files
  /\ \A i \in DOMAIN ms : ms[i].type = t /\ ms[i].dir = d /\ ms[i].pkg = p
                            => ms[i].gave # "undefined"
Passed(ms, t, p) == \A d \in 1 .. PathLen[t] : ~StandsIn(ms, t, d, p)

\* Evaluation n is the package p of the type t, of the first directory that has it.
Right(ms, n, t, p) ==
  /\ n \in 1 .. Len(ms)
  /\ ms[n].pkg = p /\ ms[n].type = t /\ ms[n].gave = "object"
  /\ \A d \in 1 .. (ms[n].dir - 1) : ~StandsIn(ms, t, d, p)

\* The js loader is the first of the table, since init() puts it there.
Places ==
  /\ \A i, j \in DOMAIN table : TypeOf[table[i]] = TypeOf[table[j]] => i = j
  /\ table # <<>> => TypeOf[table[1]] = "js"
  /\ present <=> table # <<>>

Cached(ms, ls) == \A l \in Loaders, p \in Pkgs :
                    ls[l][p] # 0 => Right(ms, ls[l][p], TypeOf[l], p)

\* What an import has behind it when it looks at a directory, and when it goes on to
\* the next loader.
Searched(f, ms) ==
  /\ f.id \in 0 .. Len(ms)
  /\ f.pc \in Searching =>
       /\ \A d \in 1 .. (f.dir - 1) : ~StandsIn(ms, TypeOf[f.loader], d, f.name)
       /\ f.temp \/ f.name = f.pkg
       /\ f.temp \/ f.key = Null \/ TypeOf[f.loader] = f.key
       /\ f.key = Null => /\ f.rest \in Seq({"c"})
                          /\ f.temp \/ TypeOf[f.loader] = "js" \/ Passed(ms, "js", f.pkg)
  /\ f.pc = "next" /\ f.rest # <<>> =>
       /\ Tail(f.rest) \in Seq({"c"})
       /\ f.temp \/ Head(f.rest) = "js" \/ Passed(ms, "js", f.pkg)
  /\ f.pc = "running" =>
       /\ f.id \in 1 .. Len(ms)
       /\ ms[f.id].pkg = f.name /\ ms[f.id].type = TypeOf[f.loader]
       /\ ms[f.id].dir = f.dir /\ ms[f.id].gave = "none"

Apart == \A i, j \in DOMAIN frames :
           i # j /\ frames[i].pc = "running" /\ frames[j].pc = "running"
             => frames[i].id # frames[j].id

Answered(ms, a) ==
  a.value.is = "object" /\ ~a.temp =>
    /\ Right(ms, a.value.id, ms[a.value.id].type, a.pkg)
    /\ a.key # Null => ms[a.value.id].type = a.key
    /\ a.key = Null => ms[a.value.id].type = "js" \/ Passed(ms, "js", a.pkg)

\* The evaluations for which a library is open.
Open(ms, f) == {i \in DOMAIN ms : /\ f = <<"c", ms[i].dir, ms[i].pkg>>
                                  /\ ms[i].type = "c" /\ ms[i].gave \in {"none", "object"}}
Handles(ms, o) == o \in [Files -> Nat] /\ \A f \in Files : o[f] = Cardinality(Open(ms, f))

Sound ==
  /\ Places /\ Cached(made, libs) /\ Apart
  /\ \A i \in DOMAIN frames : Searched(frames[i], made)
  /\ Answered(made, answer) /\ Handles(made, opened)
  /\ Len(made) <= MaxMade

\* Evaluations are added, and what one gave it keeps.
Grows(ms, ns) ==
  /\ ms \in Seq(Evaluation) /\ ns \in Seq(Evaluation) /\ Len(ms) <= Len(ns)
  /\ \A i \in 1 .. Len(ms) :
       /\ ns[i].pkg = ms[i].pkg /\ ns[i].type = ms[i].type /\ ns[i].dir = ms[i].dir
       /\ ms[i].gave # "none" => ns[i].gave = ms[i].gave

LEMMA StaysPassed ==
  ASSUME NEW ms, NEW ns, Grows(ms, ns), NEW t, NEW d, NEW p, ~StandsIn(ms, t, d, p)
  PROVE  ~StandsIn(ns, t, d, p)
<1>1. DOMAIN ms = 1 .. Len(ms) /\ DOMAIN ns = 1 .. Len(ns) /\ Len(ms) \in Nat /\ Len(ns) \in Nat
  BY SMT DEF Grows
<1>2. CASE <<t, d, p>> \notin Files
  BY <1>2 DEF StandsIn
<1>3. CASE <<t, d, p>> \in Files
  <2>1. PICK i \in DOMAIN ms : /\ ms[i].type = t /\ ms[i].dir = d /\ ms[i].pkg = p
                               /\ ms[i].gave = "undefined"
    BY <1>3 DEF StandsIn
  <2>2. i \in 1 .. Len(ms) /\ i \in DOMAIN ns
    BY <1>1 DEF Grows
  <2>3. ns[i].type = t /\ ns[i].dir = d /\ ns[i].pkg = p /\ ns[i].gave = "undefined"
    BY <2>1, <2>2 DEF Grows
  <2>. QED  BY <2>2, <2>3 DEF StandsIn
<1>. QED  BY <1>2, <1>3

LEMMA AllStayPassed ==
  ASSUME NEW ms, NEW ns, Grows(ms, ns), NEW t, NEW p, Passed(ms, t, p)
  PROVE  Passed(ns, t, p)
BY StaysPassed DEF Passed

LEMMA StaysRight ==
  ASSUME NEW ms, NEW ns, Grows(ms, ns), NEW n, NEW t, NEW p, Right(ms, n, t, p)
  PROVE  Right(ns, n, t, p) /\ ns[n].type = ms[n].type
<1>1. n \in 1 .. Len(ms) /\ n \in 1 .. Len(ns)
  <2>1. Len(ms) \in Nat /\ Len(ns) \in Nat /\ Len(ms) <= Len(ns)
    BY SMT DEF Grows
  <2>. QED  BY <2>1 DEF Right
<1>2. /\ ns[n].pkg = ms[n].pkg /\ ns[n].type = ms[n].type /\ ns[n].dir = ms[n].dir
      /\ ns[n].gave = "object"
  BY <1>1 DEF Grows, Right
<1>3. \A d \in 1 .. (ns[n].dir - 1) : ~StandsIn(ns, t, d, p)
  BY <1>2, StaysPassed DEF Right
<1>. QED  BY <1>1, <1>2, <1>3 DEF Right

LEMMA StaysCached ==
  ASSUME NEW ms, NEW ns, Grows(ms, ns), NEW ls, Cached(ms, ls)
  PROVE  Cached(ns, ls)
BY StaysRight DEF Cached

LEMMA StaysAnswered ==
  ASSUME NEW ms, NEW ns, Grows(ms, ns), NEW a, Answered(ms, a)
  PROVE  Answered(ns, a)
BY StaysRight, AllStayPassed DEF Answered

LEMMA StaysSearched ==
  ASSUME NEW ms, NEW ns, Grows(ms, ns), NEW f, Searched(f, ms),
         f.pc = "running" => ns[f.id].gave = "none"
  PROVE  Searched(f, ns)
<1>1. Len(ms) \in Nat /\ Len(ns) \in Nat /\ Len(ms) <= Len(ns)
  BY SMT DEF Grows
<1>2. f.id \in 0 .. Len(ns)
  BY <1>1 DEF Searched
<1>3. f.pc \in Searching =>
        /\ \A d \in 1 .. (f.dir - 1) : ~StandsIn(ns, TypeOf[f.loader], d, f.name)
        /\ f.key = Null => f.temp \/ TypeOf[f.loader] = "js" \/ Passed(ns, "js", f.pkg)
  BY StaysPassed, AllStayPassed DEF Searched
<1>4. f.pc = "next" /\ f.rest # <<>> =>
        f.temp \/ Head(f.rest) = "js" \/ Passed(ns, "js", f.pkg)
  BY AllStayPassed DEF Searched
<1>5. f.pc = "running" => /\ f.id \in 1 .. Len(ns)
                          /\ ns[f.id].pkg = f.name /\ ns[f.id].type = TypeOf[f.loader]
                          /\ ns[f.id].dir = f.dir
  BY <1>1 DEF Searched, Grows
<1>. QED  BY <1>2, <1>3, <1>4, <1>5 DEF Searched

\* What made may become: the same, one more, or the innermost evaluation's end.
LEMMA SameGrows ==
  ASSUME Typed, made' = made
  PROVE  Grows(made, made')
BY SMT DEF Typed, Grows

LEMMA MoreGrows ==
  ASSUME Typed, NEW m \in Evaluation, made' = Append(made, m)
  PROVE  /\ Grows(made, made')
         /\ Len(made) \in Nat /\ Len(made') = Len(made) + 1 /\ made'[Len(made) + 1] = m
         /\ DOMAIN made = 1 .. Len(made) /\ DOMAIN made' = 1 .. (Len(made) + 1)
         /\ \A i \in 1 .. Len(made) : made'[i] = made[i]
<1>1. made \in Seq(Evaluation)
  BY DEF Typed
<1>2. /\ Len(made) \in Nat /\ Len(made') = Len(made) + 1 /\ made'[Len(made) + 1] = m
      /\ DOMAIN made = 1 .. Len(made) /\ DOMAIN made' = 1 .. (Len(made) + 1)
      /\ \A i \in 1 .. Len(made) : made'[i] = made[i]
  BY <1>1, SMT
<1>3. made' \in Seq(Evaluation)
  BY <1>1, SMT
<1>. QED  BY <1>1, <1>2, <1>3 DEF Grows

LEMMA GivesGrows ==
  ASSUME IInv, Sound, InModule, NEW what \in {"object", "other", "undefined"}, Gives(what)
  PROVE  /\ Grows(made, made')
         /\ DOMAIN made = 1 .. Len(made) /\ DOMAIN made' = DOMAIN made
         /\ Len(made') = Len(made) /\ Len(made) \in Nat
         /\ Top.id \in 1 .. Len(made) /\ made[Top.id].gave = "none" /\ made'[Top.id].gave = what
         /\ \A i \in 1 .. Len(made) : i # Top.id => made'[i] = made[i]
<1>1. /\ frames # <<>> /\ Typed /\ Top.pc = "running"
      /\ Len(frames) \in DOMAIN frames /\ Top = frames[Len(frames)]
  BY TopIsFrame DEF IInv, InModule, Top
<1>2. Top.id \in 1 .. Len(made) /\ made[Top.id].gave = "none"
  BY <1>1 DEF Sound, Searched
<1>3. made \in Seq(Evaluation) /\ Len(made) \in Nat /\ DOMAIN made = 1 .. Len(made)
  BY <1>1, SMT DEF Typed
<1>4. made' = [made EXCEPT ![Top.id].gave = what]
  BY DEF Gives
<1>5. made' \in Seq(Evaluation)
  BY <1>1, <1>4, GivesTyped
<1>6. DOMAIN made' = DOMAIN made /\ Len(made') = Len(made)
  BY <1>3, <1>4, SMT
<1>7. \A i \in 1 .. Len(made) : i # Top.id => made'[i] = made[i]
  BY <1>3, <1>4
<1>8. made[Top.id] \in Evaluation /\ made'[Top.id] = [made[Top.id] EXCEPT !.gave = what]
  BY <1>2, <1>3, <1>4
<1>9. /\ made'[Top.id].pkg = made[Top.id].pkg /\ made'[Top.id].type = made[Top.id].type
      /\ made'[Top.id].dir = made[Top.id].dir /\ made'[Top.id].gave = what
  BY <1>8 DEF Evaluation
<1>. QED  BY <1>2, <1>3, <1>5, <1>6, <1>7, <1>9 DEF Grows

(***************************************************************************)
(* The host's steps: the table keeps its order.                            *)
(***************************************************************************)

LEMMA WithLoaderPlaces ==
  ASSUME Typed, Places, NEW l \in Loaders, WithLoader(l), present',
         present \/ TypeOf[l] = "js"
  PROVE  Places'
<1>. DEFINE T == TypeOf[l]
<1>1. /\ table \in Seq(Loaders) /\ Len(table) \in Nat /\ DOMAIN table = 1 .. Len(table)
      /\ (table = <<>>) <=> (Len(table) = 0)
  BY SMT DEF Typed
<1>2. CASE Listed(T) = {}
  <2>1. table' = Append(table, l)
    BY <1>2 DEF WithLoader
  <2>2. /\ DOMAIN table' = 1 .. (Len(table) + 1) /\ table'[Len(table) + 1] = l
        /\ \A i \in 1 .. Len(table) : table'[i] = table[i]
        /\ table' # <<>>
    BY <1>1, <2>1, SMT
  <2>3. \A i \in 1 .. Len(table) : TypeOf[table[i]] # T
    BY <1>1, <1>2 DEF Listed, Range
  <2>4. ASSUME NEW i \in DOMAIN table', NEW j \in DOMAIN table',
               TypeOf[table'[i]] = TypeOf[table'[j]]
        PROVE  i = j
    <3>1. /\ i \in 1 .. Len(table) \/ i = Len(table) + 1
          /\ j \in 1 .. Len(table) \/ j = Len(table) + 1
      BY <1>1, <2>2
    <3>. QED  BY <1>1, <2>2, <2>3, <2>4, <3>1 DEF Places
  <2>5. TypeOf[table'[1]] = "js"
    <3>1. CASE Len(table) = 0
      BY <1>1, <2>2, <3>1 DEF Places
    <3>2. CASE Len(table) # 0
      <4>1. 1 \in 1 .. Len(table)
        BY <1>1, <3>2
      <4>. QED  BY <1>1, <2>2, <3>2, <4>1 DEF Places
    <3>. QED  BY <3>1, <3>2
  <2>. QED  BY <2>2, <2>4, <2>5 DEF Places
<1>3. CASE Listed(T) # {}
  <2>1. table' = [i \in DOMAIN table |-> IF TypeOf[table[i]] = T THEN l ELSE table[i]]
    BY <1>3 DEF WithLoader
  <2>2. DOMAIN table' = DOMAIN table /\ \A i \in DOMAIN table : TypeOf[table'[i]] = TypeOf[table[i]]
    BY <2>1
  <2>3. PICK i \in DOMAIN table : TypeOf[table[i]] = T
    BY <1>3 DEF Listed, Range
  <2>4. 1 \in DOMAIN table /\ table # <<>>
    BY <1>1, <2>3
  <2>5. table' # <<>>
    <3>1. DOMAIN <<>> = {}
      BY SMT
    <3>. QED  BY <2>2, <2>4, <3>1
  <2>. QED  BY <2>2, <2>4, <2>5 DEF Places
<1>. QED  BY <1>2, <1>3

LEMMA NoPlaces ==
  ASSUME table' = <<>>, ~present'
  PROVE  Places'
<1>1. DOMAIN table' = {}
  BY SMT
<1>. QED  BY <1>1 DEF Places

LEMMA HostSound ==
  ASSUME Sound, UNCHANGED importVars, Places'
  PROVE  Sound'
<1>1. libs' = libs /\ frames' = frames /\ opened' = opened /\ made' = made /\ answer' = answer
  BY DEF importVars
<1>. QED  BY <1>1 DEF Sound, Apart

LEMMA HostKeepsSound ==
  ASSUME IInv, Sound, NEW l \in Loaders,
         \/ InitModules(l) \/ RegisterLoader(l) \/ DestroyHeap \/ Wrap
         \/ \E protected \in BOOLEAN : InitAgain(l, protected)
  PROVE  Sound'
<1>1. CASE InitModules(l)
  BY <1>1, WithLoaderPlaces, HostSound DEF IInv, Sound, InitModules
<1>2. CASE RegisterLoader(l)
  BY <1>2, WithLoaderPlaces, HostSound DEF IInv, Sound, RegisterLoader
<1>3. CASE DestroyHeap \/ Wrap
  BY <1>3, NoPlaces, HostSound DEF DestroyHeap, Wrap, Finalize
<1>4. CASE \E protected \in BOOLEAN : InitAgain(l, protected)
  BY <1>4, NoPlaces, HostSound DEF InitAgain
<1>. QED  BY <1>1, <1>2, <1>3, <1>4

(***************************************************************************)
(* What a step of an import leaves to show.                                *)
(***************************************************************************)

LEMMA SamePlaces ==
  ASSUME Places, UNCHANGED tableVars
  PROVE  Places'
BY DEF Places, tableVars

\* The innermost import ends.
LEMMA LeavesSound ==
  ASSUME Typed, Sound, frames # <<>>, NEW v, Leave(v), UNCHANGED tableVars,
         Cached(made', libs'), Handles(made', opened'), Answered(made', answer'),
         Len(made') <= MaxMade,
         \A i \in DOMAIN frames : i # Len(frames) => Searched(frames[i], made')
  PROVE  Sound'
<1>1. /\ DOMAIN frames' \subseteq DOMAIN frames
      /\ \A i \in DOMAIN frames' : frames'[i] = frames[i] /\ i # Len(frames)
  <2>1. frames \in Seq(Frame) /\ Len(frames) \in Nat \ {0}
    BY TopIsFrame DEF Typed
  <2>2. frames' = SubSeq(frames, 1, Len(frames) - 1)
    BY DEF Leave, Pop
  <2>. QED  BY <2>1, <2>2, SMT
<1>2. Apart'
  BY <1>1 DEF Sound, Apart
<1>3. \A i \in DOMAIN frames' : Searched(frames'[i], made')
  BY <1>1
<1>. QED  BY <1>2, <1>3, SamePlaces DEF Sound

\* It ends with a message, or throws, and nothing else has changed.
LEMMA LeavesWithout ==
  ASSUME Typed, Sound, frames # <<>>, NEW v, Leave(v), v.is # "object",
         UNCHANGED <<tableVars, libs, opened, made>>
  PROVE  Sound'
<1>1. answer'.value = v
  BY DEF Leave
<1>2. Answered(made', answer')
  BY <1>1 DEF Answered
<1>. QED  BY <1>2, LeavesSound DEF Sound

\* It goes on as f.
LEMMA GoesOnSound ==
  ASSUME Typed, Sound, frames # <<>>, NEW f, Replace(f), UNCHANGED tableVars, libs' = libs,
         answer' = answer, Grows(made, made'), Handles(made', opened'), Len(made') <= MaxMade,
         Searched(f, made'),
         f.pc = "running" => f.id \in Nat /\ f.id > Len(made),
         \A i \in DOMAIN frames : i # Len(frames) => Searched(frames[i], made')
  PROVE  Sound'
<1>1. /\ DOMAIN frames' = DOMAIN frames /\ DOMAIN frames = 1 .. Len(frames)
      /\ frames'[Len(frames)] = f /\ Len(frames) \in Nat \ {0}
      /\ \A i \in DOMAIN frames : i # Len(frames) => frames'[i] = frames[i]
  BY SMT DEF Typed, Replace
<1>2. \A i \in DOMAIN frames' : Searched(frames'[i], made')
  BY <1>1
<1>3. Len(made) \in Nat
  BY SMT DEF Typed
<1>4. \A i \in DOMAIN frames : frames[i].pc = "running" => frames[i].id <= Len(made)
  BY <1>3 DEF Sound, Searched
<1>5. ASSUME NEW i \in DOMAIN frames, NEW j \in DOMAIN frames, i # j,
             frames'[i].pc = "running", frames'[j].pc = "running"
      PROVE  frames'[i].id # frames'[j].id
  <2>1. CASE i # Len(frames) /\ j # Len(frames)
    BY <1>1, <1>5, <2>1 DEF Sound, Apart
  <2>2. CASE i = Len(frames)
    <3>1. frames'[j] = frames[j] /\ frames'[i] = f
      BY <1>1, <1>5, <2>2
    <3>2. frames[j].id <= Len(made) /\ f.id > Len(made) /\ f.id \in Nat
      BY <1>4, <1>5, <3>1
    <3>3. frames[j].id \in 0 .. Len(made)
      BY DEF Sound, Searched
    <3>. QED  BY <1>3, <3>1, <3>2, <3>3
  <2>3. CASE j = Len(frames)
    <3>1. frames'[i] = frames[i] /\ frames'[j] = f
      BY <1>1, <1>5, <2>3
    <3>2. frames[i].id <= Len(made) /\ f.id > Len(made) /\ f.id \in Nat
      BY <1>4, <1>5, <3>1
    <3>3. frames[i].id \in 0 .. Len(made)
      BY DEF Sound, Searched
    <3>. QED  BY <1>3, <3>1, <3>2, <3>3
  <2>. QED  BY <2>1, <2>2, <2>3
<1>6. Apart'
  BY <1>1, <1>5 DEF Apart
<1>7. Cached(made', libs') /\ Answered(made', answer')
  BY StaysCached, StaysAnswered DEF Sound
<1>. QED  BY <1>2, <1>6, <1>7, SamePlaces DEF Sound

\* The same when made does not change.
LEMMA GoesOnQuietly ==
  ASSUME Typed, Sound, frames # <<>>, NEW f, Replace(f), f.pc # "running",
         UNCHANGED <<tableVars, libs, opened, made, answer>>, Searched(f, made)
  PROVE  Sound'
BY SameGrows, GoesOnSound DEF Sound

(***************************************************************************)
(* The steps that change no evaluation.                                    *)
(***************************************************************************)

LEMMA ImportSound ==
  ASSUME IInv, Sound, NEW p \in Pkgs, NEW k \in Types \cup {Null}, NEW t \in Temps,
         Import(p, k, t)
  PROVE  Sound'
<1>. DEFINE f == [pkg |-> p, key |-> k, temp |-> t, pc |-> "modules", rest |-> <<>>,
                  loader |-> Null, dir |-> 0, name |-> p, stack |-> <<>>, id |-> 0,
                  since |-> Len(made)]
<1>1. /\ frames' = Append(frames, f) /\ UNCHANGED <<tableVars, libs, opened, made>> /\ Typed
      /\ answer' = None
  BY DEF Import, IInv
<1>2. f.pc = "modules" /\ f.id = 0 /\ Len(made) \in Nat
  BY <1>1, SMT DEF Typed
<1>. HIDE DEF f
<1>3. /\ DOMAIN frames = 1 .. Len(frames) /\ DOMAIN frames' = 1 .. (Len(frames) + 1)
      /\ Len(frames) \in Nat /\ frames'[Len(frames) + 1] = f
      /\ \A i \in DOMAIN frames : frames'[i] = frames[i]
  BY <1>1, SMT DEF Typed
<1>4. Searched(f, made)
  BY <1>2 DEF Searched, Searching
<1>5. \A i \in DOMAIN frames' : i \in DOMAIN frames \/ i = Len(frames) + 1
  BY <1>3
<1>6. \A i \in DOMAIN frames' : Searched(frames'[i], made')
  BY <1>1, <1>3, <1>4, <1>5 DEF Sound
<1>7. ASSUME NEW i \in DOMAIN frames', NEW j \in DOMAIN frames', i # j,
             frames'[i].pc = "running", frames'[j].pc = "running"
      PROVE  frames'[i].id # frames'[j].id
  <2>1. i # Len(frames) + 1 /\ j # Len(frames) + 1
    BY <1>2, <1>3, <1>7
  <2>2. i \in DOMAIN frames /\ j \in DOMAIN frames
    BY <1>5, <2>1
  <2>. QED  BY <1>3, <1>7, <2>2 DEF Sound, Apart
<1>8. Answered(made', answer')
  BY <1>1 DEF Answered, None, Undefined, Item
<1>. QED  BY <1>1, <1>6, <1>7, <1>8, SamePlaces DEF Sound, Apart

\* A search begins with no directory behind it.
LEMMA SearchSound ==
  ASSUME IInv, Sound, frames # <<>>, NEW l \in Loaders, NEW s, NEW rest, Search(l, s, rest),
         UNCHANGED <<tableVars, libs, opened, made, answer>>,
         Top.temp \/ Top.key = Null \/ TypeOf[l] = Top.key,
         Top.key = Null => /\ rest \in Seq({"c"})
                           /\ Top.temp \/ TypeOf[l] = "js" \/ Passed(made, "js", Top.pkg)
  PROVE  Sound'
<1>1. Typed /\ Top \in Frame /\ Top = frames[Len(frames)] /\ Len(frames) \in DOMAIN frames
  BY TopIsFrame DEF IInv, Top
<1>2. PICK n \in PkgsRead :
        Replace([Top EXCEPT !.pc = "try", !.rest = rest, !.loader = l,
                            !.dir = 1, !.name = n, !.stack = s])
  BY DEF Search
<1>. DEFINE f == [Top EXCEPT !.pc = "try", !.rest = rest, !.loader = l,
                             !.dir = 1, !.name = n, !.stack = s]
<1>3. /\ f.pc = "try" /\ f.loader = l /\ f.name = n /\ f.temp = Top.temp /\ f.dir = 1
      /\ f.rest = rest /\ f.key = Top.key /\ f.pkg = Top.pkg /\ f.id = Top.id
  BY <1>1, Zenon DEF Frame
<1>4. Replace(f)
  BY <1>2
<1>. HIDE DEF f
<1>5. Top.temp \/ n = Top.pkg
  BY DEF PkgsRead
<1>6. Top.id \in 0 .. Len(made)
  BY <1>1 DEF Sound, Searched
<1>7. \A d \in 1 .. (f.dir - 1) : FALSE
  BY <1>3
<1>8. Searched(f, made)
  BY <1>3, <1>5, <1>6, <1>7 DEF Searched
<1>. QED  BY <1>1, <1>3, <1>4, <1>8, GoesOnQuietly

\* What the cache has is the answer.
LEMMA CacheAnswers ==
  ASSUME IInv, Sound, frames # <<>>, NEW l \in Loaders, NEW p \in PkgsRead, libs[l][p] # 0,
         Leave(Object(libs[l][p])), UNCHANGED <<tableVars, libs, opened, made>>,
         Top.temp \/ Top.key = Null \/ TypeOf[l] = Top.key,
         Top.key = Null => Top.temp \/ TypeOf[l] = "js" \/ Passed(made, "js", Top.pkg)
  PROVE  Sound'
<1>1. Typed /\ Top \in Frame
  BY TopIsFrame DEF IInv
<1>2. p \in Pkgs /\ (Top.temp \/ p = Top.pkg)
  BY <1>1 DEF PkgsRead, Frame
<1>3. Right(made, libs[l][p], TypeOf[l], p)
  BY <1>2 DEF Sound, Cached
<1>4. /\ answer'.value.id = libs[l][p] /\ answer'.pkg = Top.pkg /\ answer'.key = Top.key
      /\ answer'.temp = Top.temp
  BY DEF Leave, Object, Item
<1>5. made[libs[l][p]].type = TypeOf[l]
  BY <1>3 DEF Right
<1>6. Answered(made', answer')
  BY <1>2, <1>3, <1>4, <1>5 DEF Answered
<1>. QED  BY <1>1, <1>6, LeavesSound DEF Sound

LEMMA KeyedSound ==
  ASSUME IInv, Sound, Keyed
  PROVE  Sound'
<1>1. /\ Typed /\ frames # <<>> /\ UNCHANGED <<tableVars, libs, opened, made>>
      /\ Top.key # Null /\ Top \in Frame
  BY TopIsFrame DEF IInv, Keyed, At
<1>2. PICK k \in KeysRead, p \in PkgsRead :
        /\ Listed(k) # {}
        /\ IF libs[LoaderOf(k)][p] # 0
           THEN Leave(Object(libs[LoaderOf(k)][p]))
           ELSE /\ Search(LoaderOf(k),
                          <<Modules, Item("entry", LoaderOf(k)), Item("libs", LoaderOf(k))>>,
                          <<>>)
                /\ UNCHANGED answer
  BY DEF Keyed
<1>3. k \in Types /\ (Top.temp \/ k = Top.key)
  BY <1>1, <1>2 DEF KeysRead, Frame
<1>4. LoaderOf(k) \in Loaders /\ TypeOf[LoaderOf(k)] = k
  BY <1>1, <1>2, <1>3, LoaderFound
<1>. QED  BY <1>1, <1>2, <1>3, <1>4, SearchSound, CacheAnswers

LEMMA NextSound ==
  ASSUME IInv, Sound, NextLoader
  PROVE  Sound'
<1>. DEFINE k == Head(Top.rest)
            l == LoaderOf(k)
<1>1. /\ Typed /\ Running /\ frames # <<>> /\ Top.rest # <<>> /\ Top.pc = "next"
      /\ UNCHANGED <<tableVars, libs, opened, made>>
      /\ Top \in Frame /\ Len(frames) \in DOMAIN frames /\ Top = frames[Len(frames)]
  BY TopIsFrame DEF IInv, NextLoader, At, Top
<1>2. k \in Types /\ k \in Range(Top.rest)
  <2>1. Top.rest \in Seq(Types)
    BY <1>1 DEF Frame
  <2>. QED  BY <1>1, <2>1, SMT DEF Range
<1>3. Listed(k) # {}
  BY <1>1, <1>2 DEF IInv, Served, About, Running
<1>4. l \in Loaders /\ TypeOf[l] = k
  BY <1>1, <1>2, <1>3, LoaderFound
<1>5. Top.key = Null
  BY <1>1 DEF IInv, Shaped
<1>6. Tail(Top.rest) \in Seq({"c"}) /\ (Top.temp \/ k = "js" \/ Passed(made, "js", Top.pkg))
  BY <1>1 DEF Sound, Searched
<1>7. PICK p \in PkgsRead :
        IF libs[l][p] # 0
        THEN Leave(Object(libs[l][p]))
        ELSE /\ Search(l, Top.stack \o <<Key, Item("entry", l), Item("libs", l)>>, Tail(Top.rest))
             /\ UNCHANGED answer
  BY DEF NextLoader
<1>. HIDE DEF l, k
<1>8. CASE libs[l][p] # 0
  BY <1>1, <1>4, <1>5, <1>6, <1>7, <1>8, CacheAnswers
<1>9. CASE libs[l][p] = 0
  BY <1>1, <1>4, <1>5, <1>6, <1>7, <1>9, SearchSound
<1>. QED  BY <1>8, <1>9

LEMMA RestIs ==
  ASSUME NEW r \in Seq({"js", "c"}), Len(r) # 0, \A i \in 2 .. Len(r) : r[i] = "c"
  PROVE  Head(r) = r[1] /\ Tail(r) \in Seq({"c"})
<1>1. Len(r) \in Nat /\ r # <<>>
  BY SMT
<1>. DEFINE t == Tail(r)
<1>2. /\ Len(t) \in Nat /\ Len(t) + 1 = Len(r) /\ t \in Seq({"js", "c"})
      /\ \A i \in 1 .. Len(t) : t[i] = r[i + 1]
  BY <1>1, SMT
<1>. HIDE DEF t
<1>3. \A i \in 1 .. Len(t) : i + 1 \in 2 .. Len(r)
  BY <1>1, <1>2
<1>4. \A i \in 1 .. Len(t) : t[i] = "c"
  BY <1>2, <1>3
<1>5. t = [i \in 1 .. Len(t) |-> t[i]]
  BY <1>2, SMT
<1>6. t \in Seq({"c"})
  BY <1>2, <1>4, <1>5, SMT
<1>. QED  BY <1>1, <1>6, SMT DEF t

\* The js loader comes first.
LEMMA EnumerateSound ==
  ASSUME IInv, Sound, Enumerate
  PROVE  Sound'
<1>. DEFINE r == [i \in DOMAIN table |-> TypeOf[table[i]]]
            f == [Top EXCEPT !.pc = "next", !.stack = <<Modules, Enum>>, !.rest = r]
<1>1. /\ Typed /\ frames # <<>> /\ Replace(f) /\ present
      /\ UNCHANGED <<tableVars, libs, opened, made, answer>>
      /\ Top \in Frame /\ Len(frames) \in DOMAIN frames /\ Top = frames[Len(frames)]
  BY TopIsFrame DEF IInv, Enumerate, At, Top
<1>2. f.pc = "next" /\ f.rest = r /\ f.id = Top.id
  BY <1>1, Zenon DEF Frame
<1>3. /\ table \in Seq(Loaders) /\ DOMAIN table = 1 .. Len(table) /\ Len(table) \in Nat \ {0}
      /\ TypeOf[table[1]] = "js"
  <2>1. table # <<>> /\ TypeOf[table[1]] = "js"
    BY <1>1 DEF Sound, Places
  <2>2. table \in Seq(Loaders)
    BY <1>1 DEF Typed
  <2>3. DOMAIN table = 1 .. Len(table) /\ Len(table) \in Nat \ {0}
    BY <2>1, <2>2, SMT
  <2>. QED  BY <2>1, <2>2, <2>3
<1>4. \A i \in 2 .. Len(table) : TypeOf[table[i]] = "c"
  <2>. SUFFICES ASSUME NEW i \in 2 .. Len(table)  PROVE TypeOf[table[i]] = "c"
    OBVIOUS
  <2>1. i \in DOMAIN table /\ 1 \in DOMAIN table /\ i # 1
    BY <1>3
  <2>2. TypeOf[table[i]] # "js"
    BY <1>3, <2>1 DEF Sound, Places
  <2>3. table[i] \in Loaders
    BY <1>3, <2>1, SMT
  <2>4. TypeOf[table[i]] \in Types
    BY <2>3, ScriptAssumption
  <2>. QED  BY <2>2, <2>4 DEF Types
<1>5. /\ DOMAIN r = 1 .. Len(table) /\ r[1] = "js" /\ \A i \in 2 .. Len(table) : r[i] = "c"
      /\ \A i \in 1 .. Len(table) : r[i] \in {"js", "c"}
  <2>1. 1 \in DOMAIN table /\ 2 .. Len(table) \subseteq DOMAIN table
    BY <1>3
  <2>2. r[1] = "js" /\ DOMAIN r = DOMAIN table
    BY <1>3, <2>1
  <2>3. \A i \in 2 .. Len(table) : r[i] = "c"
    BY <1>4, <2>1
  <2>4. \A i \in 1 .. Len(table) : i = 1 \/ i \in 2 .. Len(table)
    BY <1>3
  <2>. QED  BY <1>3, <2>2, <2>3, <2>4
<1>. HIDE DEF r
<1>6. r \in Seq({"js", "c"}) /\ Len(r) = Len(table)
  <2>1. r = [i \in 1 .. Len(table) |-> r[i]]
    BY <1>5 DEF r
  <2>. QED  BY <1>3, <1>5, <2>1, SMT
<1>7. Head(r) = "js" /\ Tail(r) \in Seq({"c"})
  <2>1. Len(r) # 0 /\ \A i \in 2 .. Len(r) : r[i] = "c"
    BY <1>3, <1>5, <1>6
  <2>. QED  BY <1>5, <1>6, <2>1, RestIs
<1>. HIDE DEF f
<1>8. Top.id \in 0 .. Len(made)
  BY <1>1 DEF Sound, Searched
<1>9. Searched(f, made)
  BY <1>2, <1>7, <1>8 DEF Searched, Searching
<1>. QED  BY <1>1, <1>2, <1>9, GoesOnQuietly

\* A directory without the file is behind the search.
LEMMA NotThereSound ==
  ASSUME IInv, Sound, NotThere
  PROVE  Sound'
<1>. DEFINE f == [Top EXCEPT !.dir = @ + 1]
<1>1. /\ Typed /\ frames # <<>> /\ Top.pc = "try" /\ Replace(f) /\ File \notin Files
      /\ UNCHANGED <<tableVars, libs, opened, made, answer>>
      /\ Top \in Frame /\ Len(frames) \in DOMAIN frames /\ Top = frames[Len(frames)]
  BY TopIsFrame DEF IInv, NotThere, Trying, At, Top
<1>2. /\ f.pc = "try" /\ f.loader = Top.loader /\ f.name = Top.name /\ f.temp = Top.temp
      /\ f.dir = Top.dir + 1 /\ f.rest = Top.rest /\ f.key = Top.key /\ f.pkg = Top.pkg
      /\ f.id = Top.id
  BY <1>1, Zenon DEF Frame
<1>. HIDE DEF f
<1>3. Searched(Top, made) /\ Top.dir \in Nat
  BY <1>1 DEF Sound, Frame
<1>4. ~StandsIn(made, TypeOf[Top.loader], Top.dir, Top.name)
  BY <1>1 DEF StandsIn, File, Type
<1>5. \A d \in 1 .. (f.dir - 1) : d = Top.dir \/ d \in 1 .. (Top.dir - 1)
  BY <1>2, <1>3
<1>6. Searched(f, made)
  BY <1>1, <1>2, <1>3, <1>4, <1>5 DEF Searched, Searching
<1>. QED  BY <1>1, <1>2, <1>6, GoesOnQuietly

\* A loader whose directories are all behind the search has nothing.
LEMMA NotFoundSound ==
  ASSUME IInv, Sound, NotFound
  PROVE  Sound'
<1>. DEFINE f == [Top EXCEPT !.pc = "next", !.stack = Pop(@, 3)]
<1>1. /\ Typed /\ frames # <<>> /\ Top.pc = "try" /\ ~MoreDirs
      /\ UNCHANGED <<tableVars, libs, opened, made>>
      /\ Top \in Frame /\ Len(frames) \in DOMAIN frames /\ Top = frames[Len(frames)]
      /\ IF Top.key # Null THEN Leave(Thrown) ELSE Replace(f) /\ UNCHANGED answer
  BY TopIsFrame DEF IInv, NotFound, At, Top
<1>2. CASE Top.key # Null
  BY <1>1, <1>2, LeavesWithout DEF Thrown, Item
<1>3. CASE Top.key = Null
  <2>1. /\ f.pc = "next" /\ f.rest = Top.rest /\ f.pkg = Top.pkg /\ f.temp = Top.temp
        /\ f.id = Top.id
    BY <1>1, Zenon DEF Frame
  <2>2. Replace(f) /\ answer' = answer
    BY <1>1, <1>3
  <2>. HIDE DEF f
  <2>3. Searched(Top, made) /\ Top.dir \in Nat /\ Top.loader \in Loaders
    BY <1>1 DEF Sound, Frame, IInv, Looked, Searching
  <2>4. Type \in Types /\ PathLen[Type] \in Nat /\ Top.dir > PathLen[Type]
    BY <1>1, <2>3, ScriptAssumption DEF Type, MoreDirs
  <2>5. Top.temp \/ Passed(made, "js", Top.pkg)
    <3>1. CASE Type = "js"
      <4>1. \A d \in 1 .. PathLen["js"] : d \in 1 .. (Top.dir - 1)
        BY <2>3, <2>4, <3>1
      <4>. QED  BY <1>1, <2>3, <3>1, <4>1 DEF Searched, Searching, Passed, Type
    <3>2. CASE Type # "js"
      BY <1>1, <1>3, <2>3, <3>2 DEF Searched, Searching, Type
    <3>. QED  BY <3>1, <3>2
  <2>6. Top.rest \in Seq({"c"})
    BY <1>1, <1>3, <2>3 DEF Searched, Searching
  <2>7. Top.rest # <<>> => Tail(Top.rest) \in Seq({"c"})
    BY <2>6, SMT
  <2>8. Searched(f, made)
    BY <2>1, <2>3, <2>5, <2>7 DEF Searched, Searching
  <2>. QED  BY <1>1, <2>1, <2>2, <2>8, GoesOnQuietly
<1>. QED  BY <1>2, <1>3

LEMMA ThrowsSound ==
  ASSUME IInv, Sound, NoModules \/ NoLoader \/ NoneHasIt \/ Unloadable
  PROVE  Sound'
<1>1. /\ Typed /\ frames # <<>> /\ UNCHANGED <<tableVars, libs, opened, made>>
      /\ Leave(Thrown) \/ Leave(Error)
  BY DEF IInv, NoModules, NoLoader, NoneHasIt, Unloadable, At, Trying
<1>. QED  BY <1>1, LeavesWithout DEF Thrown, Error, Item

(***************************************************************************)
(* The handles: one for every evaluation that runs or has given an object. *)
(***************************************************************************)

LEMMA OpenFinite ==
  ASSUME NEW ms \in Seq(Evaluation), NEW f
  PROVE  IsFiniteSet(Open(ms, f)) /\ Cardinality(Open(ms, f)) \in Nat
<1>1. Len(ms) \in Nat /\ DOMAIN ms = 1 .. Len(ms)
  BY SMT
<1>2. IsFiniteSet(DOMAIN ms)
  BY <1>1, FS_Interval
<1>3. Open(ms, f) \in SUBSET DOMAIN ms
  BY DEF Open
<1>4. IsFiniteSet(Open(ms, f))
  BY <1>2, <1>3, FS_Subset
<1>. QED  BY <1>4, FS_CardinalityType

\* The innermost import has its file.
LEMMA FileHeld ==
  ASSUME IInv, Sound, InModule
  PROVE  /\ Top.id \in 1 .. Len(made) /\ made[Top.id].gave = "none"
         /\ made[Top.id].type = Type /\ File = <<Type, made[Top.id].dir, made[Top.id].pkg>>
         /\ Typed /\ frames # <<>> /\ Top.pc = "running" /\ Top \in Frame
         /\ Len(frames) \in DOMAIN frames /\ Top = frames[Len(frames)]
         /\ Searched(Top, made) /\ Top.loader \in Loaders
<1>1. /\ frames # <<>> /\ Typed /\ Top.pc = "running" /\ Top \in Frame
      /\ Len(frames) \in DOMAIN frames /\ Top = frames[Len(frames)]
  BY TopIsFrame DEF IInv, InModule, Top
<1>2. Searched(Top, made) /\ Top.loader \in Loaders
  BY <1>1 DEF Sound, IInv, Looked, Searching
<1>. QED  BY <1>1, <1>2 DEF Searched, Type, File

\* dlopen.
LEMMA OneMoreHandle ==
  ASSUME Typed, Sound, NEW m \in Evaluation, made' = Append(made, m), m.gave = "none",
         NEW file, file = <<m.type, m.dir, m.pkg>>,
         opened' = [opened EXCEPT ![file] = IF m.type = "c" THEN @ + 1 ELSE @]
  PROVE  Handles(made', opened')
<1>. DEFINE n == Len(made) + 1
<1>1. /\ made \in Seq(Evaluation) /\ Len(made) \in Nat /\ made'[n] = m
      /\ DOMAIN made = 1 .. Len(made) /\ DOMAIN made' = DOMAIN made \cup {n}
      /\ n \notin DOMAIN made
      /\ \A i \in DOMAIN made : made'[i] = made[i]
  <2>1. Len(made) \in Nat /\ 1 .. n = 1 .. Len(made) \cup {n} /\ n \notin 1 .. Len(made)
    BY SMT DEF Typed
  <2>. QED  BY <2>1, MoreGrows DEF Typed
<1>. HIDE DEF n
<1>2. opened \in [Files -> Nat] /\ \A f \in Files : opened[f] = Cardinality(Open(made, f))
  BY DEF Sound, Handles
<1>3. ASSUME NEW f \in Files
      PROVE  /\ opened'[f] \in Nat /\ opened'[f] = Cardinality(Open(made', f))
  <2>1. IsFiniteSet(Open(made, f)) /\ opened[f] = Cardinality(Open(made, f)) /\ opened[f] \in Nat
    BY <1>1, <1>2, OpenFinite
  <2>2. CASE f = file /\ m.type = "c"
    <3>1. Open(made', f) = Open(made, f) \cup {n} /\ n \notin Open(made, f)
      BY <1>1, <2>2 DEF Open
    <3>2. opened'[f] = opened[f] + 1
      BY <1>2, <2>2
    <3>3. Cardinality(Open(made, f) \cup {n}) = Cardinality(Open(made, f)) + 1
      BY <2>1, <3>1, FS_AddElement
    <3>. QED  BY <2>1, <3>1, <3>2, <3>3
  <2>3. CASE ~(f = file /\ m.type = "c")
    <3>1. ~(f = <<"c", m.dir, m.pkg>> /\ m.type = "c")
      BY <2>3
    <3>2. Open(made', f) = Open(made, f)
      BY <1>1, <3>1 DEF Open
    <3>3. opened'[f] = opened[f]
      BY <1>2, <2>3
    <3>. QED  BY <2>1, <3>2, <3>3
  <2>. QED  BY <2>2, <2>3
<1>4. opened' \in [Files -> Nat]
  <2>1. DOMAIN opened' = Files /\ opened' = [f \in Files |-> opened'[f]]
    BY <1>2
  <2>. QED  BY <1>3, <2>1
<1>. QED  BY <1>3, <1>4 DEF Handles

\* dlclose.
LEMMA OneHandleLess ==
  ASSUME IInv, Sound, InModule, NEW what \in {"other", "undefined"}, Gives(what), CloseLibrary
  PROVE  Handles(made', opened')
<1>. DEFINE n == Top.id
<1>1. /\ made \in Seq(Evaluation) /\ n \in DOMAIN made /\ made[n].gave = "none"
      /\ DOMAIN made' = DOMAIN made /\ made'[n].gave = what
      /\ \A i \in DOMAIN made : i # n => made'[i] = made[i]
      /\ made[n].type = Type /\ File = <<Type, made[n].dir, made[n].pkg>>
  BY GivesGrows, FileHeld DEF Typed
<1>2. opened \in [Files -> Nat] /\ \A f \in Files : opened[f] = Cardinality(Open(made, f))
  BY DEF Sound, Handles
<1>3. opened' = [opened EXCEPT ![File] = IF Type = "c" THEN @ - 1 ELSE @]
  BY DEF CloseLibrary
<1>. HIDE DEF n
<1>4. ASSUME NEW f \in Files
      PROVE  /\ opened'[f] \in Nat /\ opened'[f] = Cardinality(Open(made', f))
  <2>1. IsFiniteSet(Open(made, f)) /\ opened[f] = Cardinality(Open(made, f)) /\ opened[f] \in Nat
    BY <1>1, <1>2, OpenFinite
  <2>2. CASE f = File /\ Type = "c"
    <3>1. Open(made', f) = Open(made, f) \ {n} /\ n \in Open(made, f)
      BY <1>1, <2>2 DEF Open
    <3>2. opened'[f] = opened[f] - 1
      BY <1>2, <1>3, <2>2
    <3>3. Cardinality(Open(made, f) \ {n}) = Cardinality(Open(made, f)) - 1
      BY <2>1, <3>1, FS_RemoveElement
    <3>4. Cardinality(Open(made, f)) # 0
      BY <2>1, <3>1, FS_EmptySet
    <3>. QED  BY <2>1, <3>1, <3>2, <3>3, <3>4
  <2>3. CASE ~(f = File /\ Type = "c")
    <3>1. ~(f = <<"c", made[n].dir, made[n].pkg>> /\ made[n].type = "c")
      BY <1>1, <2>3
    <3>2. n \notin Open(made, f) /\ n \notin Open(made', f)
      BY <1>1, <3>1 DEF Open
    <3>3. Open(made', f) = Open(made, f)
      BY <1>1, <3>2 DEF Open
    <3>4. opened'[f] = opened[f]
      BY <1>2, <1>3, <2>3
    <3>. QED  BY <2>1, <3>3, <3>4
  <2>. QED  BY <2>2, <2>3
<1>5. opened' \in [Files -> Nat]
  <2>1. opened' = [f \in Files |-> opened'[f]]
    BY <1>2, <1>3
  <2>. QED  BY <1>4, <2>1
<1>. QED  BY <1>4, <1>5 DEF Handles

\* A library whose package is an object stays open.
LEMMA HandleKept ==
  ASSUME IInv, Sound, InModule, Gives("object"), opened' = opened
  PROVE  Handles(made', opened')
<1>. DEFINE n == Top.id
<1>1. /\ n \in DOMAIN made /\ made[n].gave = "none"
      /\ DOMAIN made' = DOMAIN made /\ made'[n].gave = "object"
      /\ \A i \in DOMAIN made : i # n => made'[i] = made[i]
      /\ made'[n].type = made[n].type /\ made'[n].dir = made[n].dir
      /\ made'[n].pkg = made[n].pkg
  BY GivesGrows DEF Grows
<1>. HIDE DEF n
<1>2. \A i \in DOMAIN made :
        /\ made'[i].type = made[i].type /\ made'[i].dir = made[i].dir
        /\ made'[i].pkg = made[i].pkg
        /\ made'[i].gave \in {"none", "object"} <=> made[i].gave \in {"none", "object"}
  BY <1>1
<1>3. \A f \in Files : Open(made', f) = Open(made, f)
  BY <1>1, <1>2 DEF Open
<1>. QED  BY <1>3 DEF Sound, Handles

(***************************************************************************)
(* The evaluations.                                                        *)
(***************************************************************************)

LEMMA EvaluateSound ==
  ASSUME IInv, Sound, Evaluate
  PROVE  Sound'
<1>. DEFINE m == [type |-> Type, dir |-> Top.dir, pkg |-> Top.name, gave |-> "none"]
            f == [Top EXCEPT !.pc = "running", !.id = Len(made) + 1]
<1>1. /\ Typed /\ frames # <<>> /\ Top.pc = "try" /\ Replace(f)
      /\ made' = Append(made, m) /\ Len(made) < MaxMade
      /\ opened' = [opened EXCEPT ![File] = IF Type = "c" THEN @ + 1 ELSE @]
      /\ UNCHANGED <<tableVars, libs, answer>>
      /\ Top \in Frame /\ Len(frames) \in DOMAIN frames /\ Top = frames[Len(frames)]
  BY TopIsFrame DEF IInv, Evaluate, Trying, At, Top
<1>2. /\ f.pc = "running" /\ f.loader = Top.loader /\ f.name = Top.name /\ f.temp = Top.temp
      /\ f.dir = Top.dir /\ f.rest = Top.rest /\ f.key = Top.key /\ f.pkg = Top.pkg
      /\ f.id = Len(made) + 1
  BY <1>1, Zenon DEF Frame
<1>3. Searched(Top, made) /\ Top.loader \in Loaders
  BY <1>1 DEF Sound, IInv, Looked, Searching
<1>4. m \in Evaluation
  <2>1. Type \in Types /\ Top.dir \in Nat /\ Top.name \in Pkgs
        /\ "none" \in {"none", "object", "other", "undefined"}
    BY <1>1, <1>3, ScriptAssumption DEF Type, Frame
  <2>. QED  BY <2>1, Zenon DEF Evaluation
<1>5. /\ m.type = Type /\ m.dir = Top.dir /\ m.pkg = Top.name /\ m.gave = "none"
      /\ File = <<m.type, m.dir, m.pkg>>
  BY DEF File
<1>. HIDE DEF f, m
<1>6. /\ Grows(made, made') /\ Len(made) \in Nat /\ Len(made') = Len(made) + 1
      /\ made'[Len(made) + 1] = m /\ \A i \in 1 .. Len(made) : made'[i] = made[i]
  BY <1>1, <1>4, MoreGrows
<1>7. Handles(made', opened')
  BY <1>1, <1>4, <1>5, OneMoreHandle
<1>8. Searched(f, made')
  <2>1. f.id \in 0 .. Len(made') /\ f.id \in 1 .. Len(made') /\ made'[f.id] = m
    BY <1>2, <1>6
  <2>2. \A d \in 1 .. (f.dir - 1) : ~StandsIn(made', TypeOf[f.loader], d, f.name)
    BY <1>1, <1>2, <1>3, <1>6, StaysPassed DEF Searched, Searching
  <2>3. f.key = Null => f.temp \/ TypeOf[f.loader] = "js" \/ Passed(made', "js", f.pkg)
    BY <1>1, <1>2, <1>3, <1>6, AllStayPassed DEF Searched, Searching
  <2>. QED  BY <1>1, <1>2, <1>3, <1>5, <2>1, <2>2, <2>3 DEF Searched, Searching, Type
<1>9. ASSUME NEW i \in DOMAIN frames  PROVE Searched(frames[i], made')
  <2>1. Searched(frames[i], made)
    BY DEF Sound
  <2>2. frames[i].pc = "running" => made'[frames[i].id].gave = "none"
    BY <1>6, <2>1 DEF Searched
  <2>. QED  BY <1>6, <2>1, <2>2, StaysSearched
<1>10. Len(made') <= MaxMade
  BY <1>1, <1>6, ScriptAssumption
<1>11. f.id \in Nat /\ f.id > Len(made)
  BY <1>2, <1>6
<1>. QED  BY <1>1, <1>6, <1>7, <1>8, <1>9, <1>10, <1>11, GoesOnSound

\* When the innermost evaluation ends, the others still run.
LEMMA OthersRun ==
  ASSUME IInv, Sound, InModule, NEW what \in {"object", "other", "undefined"}, Gives(what)
  PROVE  \A i \in DOMAIN frames : i # Len(frames) => Searched(frames[i], made')
<1>. SUFFICES ASSUME NEW i \in DOMAIN frames, i # Len(frames)  PROVE Searched(frames[i], made')
  OBVIOUS
<1>1. Searched(frames[i], made)
  BY DEF Sound
<1>2. frames[i].pc = "running" => frames[i].id # Top.id
  BY FileHeld DEF Sound, Apart
<1>3. frames[i].pc = "running" => made'[frames[i].id].gave = "none"
  BY <1>1, <1>2, GivesGrows DEF Searched
<1>. QED  BY <1>1, <1>3, GivesGrows, StaysSearched

LEMMA GivesOtherSound ==
  ASSUME IInv, Sound, GivesOther
  PROVE  Sound'
<1>1. /\ InModule /\ Gives("other") /\ CloseLibrary /\ Leave(Error) /\ libs' = libs
      /\ UNCHANGED tableVars
  BY DEF GivesOther
<1>2. Handles(made', opened')
  BY <1>1, OneHandleLess
<1>3. Cached(made', libs') /\ Len(made') <= MaxMade
  BY <1>1, GivesGrows, StaysCached DEF Sound
<1>4. Answered(made', answer')
  BY <1>1 DEF Answered, Leave, Error, Item
<1>. QED  BY <1>1, <1>2, <1>3, <1>4, OthersRun, FileHeld, LeavesSound

LEMMA GivesUndefinedSound ==
  ASSUME IInv, Sound, GivesUndefined
  PROVE  Sound'
<1>. DEFINE f == [Top EXCEPT !.pc = "try", !.dir = @ + 1]
<1>1. /\ InModule /\ Gives("undefined") /\ CloseLibrary /\ Replace(f) /\ libs' = libs
      /\ answer' = answer /\ UNCHANGED tableVars
  BY DEF GivesUndefined
<1>2. /\ f.pc = "try" /\ f.loader = Top.loader /\ f.name = Top.name /\ f.temp = Top.temp
      /\ f.dir = Top.dir + 1 /\ f.rest = Top.rest /\ f.key = Top.key /\ f.pkg = Top.pkg
      /\ f.id = Top.id
  BY <1>1, FileHeld, Zenon DEF Frame
<1>. HIDE DEF f
<1>3. /\ Grows(made, made') /\ Len(made') <= MaxMade /\ Len(made') = Len(made)
      /\ DOMAIN made' = 1 .. Len(made) /\ made'[Top.id].gave = "undefined"
      /\ Top.id \in 1 .. Len(made)
  BY <1>1, GivesGrows DEF Sound
<1>4. Handles(made', opened')
  BY <1>1, OneHandleLess
<1>5. Searched(Top, made) /\ Top.pc = "running" /\ Top.dir \in Nat
  BY <1>1, FileHeld DEF Frame
<1>6. ~StandsIn(made', TypeOf[Top.loader], Top.dir, Top.name)
  <2>1. /\ made'[Top.id].type = TypeOf[Top.loader] /\ made'[Top.id].dir = Top.dir
        /\ made'[Top.id].pkg = Top.name
    BY <1>3, <1>5 DEF Searched, Grows
  <2>. QED  BY <1>3, <2>1 DEF StandsIn
<1>7. \A d \in 1 .. (f.dir - 1) : d = Top.dir \/ d \in 1 .. (Top.dir - 1)
  BY <1>2, <1>5
<1>8. \A d \in 1 .. (f.dir - 1) : ~StandsIn(made', TypeOf[f.loader], d, f.name)
  BY <1>2, <1>3, <1>5, <1>6, <1>7, StaysPassed DEF Searched, Searching
<1>9. f.key = Null => f.temp \/ TypeOf[f.loader] = "js" \/ Passed(made', "js", f.pkg)
  BY <1>2, <1>3, <1>5, AllStayPassed DEF Searched, Searching
<1>10. Searched(f, made')
  BY <1>2, <1>3, <1>5, <1>8, <1>9 DEF Searched, Searching
<1>. QED
  BY <1>1, <1>2, <1>3, <1>4, <1>10, OthersRun, FileHeld, GoesOnSound

LEMMA GivesObjectSound ==
  ASSUME IInv, Sound, GivesObject
  PROVE  Sound'
<1>1. /\ InModule /\ Gives("object") /\ Leave(Object(Top.id)) /\ opened' = opened
      /\ UNCHANGED tableVars
  BY DEF GivesObject
<1>2. /\ Searched(Top, made) /\ Top.pc = "running" /\ Typed /\ frames # <<>>
      /\ Top.loader \in Loaders
  BY <1>1, FileHeld
<1>3. /\ Grows(made, made') /\ Len(made') <= MaxMade /\ Len(made') = Len(made)
      /\ made'[Top.id].gave = "object" /\ Top.id \in 1 .. Len(made)
  BY <1>1, GivesGrows DEF Sound
<1>4. /\ made'[Top.id].type = TypeOf[Top.loader] /\ made'[Top.id].dir = Top.dir
      /\ made'[Top.id].pkg = Top.name
  BY <1>2, <1>3 DEF Searched, Grows
<1>5. Right(made', Top.id, TypeOf[Top.loader], Top.name)
  <2>1. \A d \in 1 .. (Top.dir - 1) : ~StandsIn(made', TypeOf[Top.loader], d, Top.name)
    BY <1>2, <1>3, StaysPassed DEF Searched, Searching
  <2>. QED  BY <1>3, <1>4, <2>1 DEF Right
<1>6. Cached(made', libs')
  <2>1. /\ libs' = [libs EXCEPT ![Top.loader][Top.name] = Top.id]
        /\ libs \in [Loaders -> [Pkgs -> Nat]]
    BY <1>2, ObjectCached DEF Typed
  <2>2. Cached(made', libs)
    BY <1>3, StaysCached DEF Sound
  <2>3. ASSUME NEW l \in Loaders, NEW p \in Pkgs
        PROVE  libs'[l][p] = IF l = Top.loader /\ p = Top.name THEN Top.id ELSE libs[l][p]
    BY <2>1
  <2>. QED  BY <1>5, <2>2, <2>3 DEF Cached
<1>7. Answered(made', answer')
  <2>1. /\ answer'.value.id = Top.id /\ answer'.pkg = Top.pkg /\ answer'.key = Top.key
        /\ answer'.temp = Top.temp
    BY <1>1 DEF Leave, Object, Item
  <2>2. Top.key = Null => Top.temp \/ TypeOf[Top.loader] = "js" \/ Passed(made', "js", Top.pkg)
    BY <1>2, <1>3, AllStayPassed DEF Searched, Searching
  <2>3. /\ Top.temp \/ Top.name = Top.pkg
        /\ Top.temp \/ Top.key = Null \/ TypeOf[Top.loader] = Top.key
    BY <1>2 DEF Searched, Searching
  <2>. QED  BY <1>4, <1>5, <2>1, <2>2, <2>3 DEF Answered
<1>8. Handles(made', opened')
  BY <1>1, HandleKept
<1>. QED  BY <1>1, <1>2, <1>3, <1>6, <1>7, <1>8, OthersRun, LeavesSound

LEMMA SoundStep == IInv /\ Sound /\ [Next]_vars => Sound'
<1>. SUFFICES ASSUME IInv, Sound, [Next]_vars  PROVE Sound'
  OBVIOUS
<1>1. ASSUME NEW l \in Loaders,
             \/ InitModules(l) \/ RegisterLoader(l)
             \/ \E protected \in BOOLEAN : InitAgain(l, protected)
      PROVE  Sound'
  BY <1>1, HostKeepsSound
<1>2. CASE DestroyHeap \/ Wrap
  BY <1>2, NoPlaces, HostSound DEF DestroyHeap, Wrap, Finalize
<1>3. CASE UseFreed
  BY <1>3, SamePlaces, HostSound DEF UseFreed, Sound
<1>4. ASSUME NEW p \in Pkgs, NEW k \in Types \cup {Null}, NEW t \in Temps, Import(p, k, t)
      PROVE  Sound'
  BY <1>4, ImportSound
<1>5. CASE NoModules \/ NoLoader \/ NoneHasIt \/ Unloadable
  BY <1>5, ThrowsSound
<1>6. CASE UNCHANGED vars
  BY <1>6, SamePlaces, HostSound DEF Sound, vars, tableVars, importVars
<1>7. CASE NoName
  <2>1. UNCHANGED <<tableVars, libs, frames, opened, made>> /\ answer'.value = Thrown
    BY <1>7 DEF NoName, None
  <2>2. Answered(made', answer')
    BY <2>1 DEF Answered, Thrown, Item
  <2>. QED  BY <2>1, <2>2, SamePlaces DEF Sound, Apart
<1>. QED
  BY <1>1, <1>2, <1>3, <1>4, <1>5, <1>6, <1>7, KeyedSound, EnumerateSound, NextSound, NotThereSound,
     NotFoundSound, EvaluateSound, GivesUndefinedSound, GivesOtherSound, GivesObjectSound
  DEF Next

LEMMA InitSound == Init => Sound
<1>. SUFFICES ASSUME Init  PROVE Sound
  OBVIOUS
<1>1. /\ DOMAIN frames = {} /\ DOMAIN table = {} /\ DOMAIN made = {} /\ Len(made) = 0
      /\ table = <<>> /\ ~present
  BY SMT DEF Init
<1>2. Places /\ Apart
  BY <1>1 DEF Places, Apart
<1>3. Cached(made, libs)
  BY DEF Init, Cached
<1>4. Answered(made, answer)
  BY DEF Init, Answered, None, Undefined, Item
<1>5. Handles(made, opened)
  <2>1. \A f \in Files : Open(made, f) = {}
    BY <1>1 DEF Open
  <2>. QED  BY <2>1, FS_EmptySet DEF Init, Handles
<1>. QED  BY <1>1, <1>2, <1>3, <1>4, <1>5, ScriptAssumption DEF Sound

LEMMA SoundHolds == Spec => []Sound
<1>. QED  BY InitSound, SoundStep, InvariantHolds, PTL DEF Spec

\* kg_import gives the package that was asked for, of the type that was asked for, from
\* the first directory and the first loader that has it, as long as the script holds the
\* names; and a library is open once for every evaluation that runs or has given an object
\* (native_import, import_pkg, c_loader_t).
THEOREM ScriptImported == Spec => []Imported
<1>1. IInv /\ Sound => Imported
  <2>. SUFFICES ASSUME IInv, Sound  PROVE Imported
    OBVIOUS
  <2>1. \A t, d, p : Stands(t, d, p) <=> StandsIn(made, t, d, p)
    BY DEF Stands, StandsIn
  <2>2. \A f \in Files :
          opened[f] = Cardinality({i \in DOMAIN made :
                                     /\ f = <<"c", made[i].dir, made[i].pkg>>
                                     /\ made[i].type = "c" /\ made[i].gave \in {"none", "object"}})
    BY DEF Sound, Handles, Open
  <2>3. ASSUME answer.value.is = "object", ~answer.temp
        PROVE  LET m == made[answer.value.id] IN
               /\ m.pkg = answer.pkg /\ m.gave = "object"
               /\ answer.key # Null => m.type = answer.key
               /\ \A d \in 1 .. (m.dir - 1) : ~Stands(m.type, d, m.pkg)
               /\ answer.key = Null =>
                    \A i, j \in DOMAIN table :
                      i < j /\ TypeOf[table[j]] = m.type =>
                        \A d \in 1 .. PathLen[TypeOf[table[i]]] :
                          ~Stands(TypeOf[table[i]], d, m.pkg)
    <3>. DEFINE m == made[answer.value.id]
    <3>1. /\ Right(made, answer.value.id, m.type, answer.pkg)
          /\ answer.key # Null => m.type = answer.key
          /\ answer.key = Null => m.type = "js" \/ Passed(made, "js", answer.pkg)
      BY <2>3 DEF Sound, Answered
    <3>2. m \in Evaluation
      <4>1. made \in Seq(Evaluation) /\ answer.value.id \in 1 .. Len(made)
        BY <3>1 DEF IInv, Typed, Right
      <4>. QED  BY <4>1, SMT
    <3>3. m.type \in Types /\ m.pkg = answer.pkg
      BY <3>1, <3>2 DEF Evaluation, Right
    <3>4. m.gave = "object" /\ \A d \in 1 .. (m.dir - 1) : ~Stands(m.type, d, m.pkg)
      BY <2>1, <3>1, <3>3 DEF Right
    <3>. HIDE DEF m
    <3>5. ASSUME answer.key = Null, NEW i \in DOMAIN table, NEW j \in DOMAIN table, i < j,
                 TypeOf[table[j]] = m.type, NEW d \in 1 .. PathLen[TypeOf[table[i]]]
          PROVE  ~Stands(TypeOf[table[i]], d, m.pkg)
      <4>1. /\ DOMAIN table = 1 .. Len(table) /\ Len(table) \in Nat
            /\ \A n \in DOMAIN table : table[n] \in Loaders
        BY SMT DEF IInv, Typed
      <4>2. table # <<>> /\ 1 \in DOMAIN table
        <5>1. DOMAIN <<>> = {}
          BY SMT
        <5>. QED  BY <3>5, <4>1, <5>1
      <4>3. TypeOf[table[1]] = "js"
        BY <4>2 DEF Sound, Places
      <4>4. i # j /\ j # 1 /\ i \in Nat
        BY <3>5, <4>1
      <4>5. m.type # "js" /\ TypeOf[table[i]] # m.type
        BY <3>5, <4>2, <4>3, <4>4 DEF Sound, Places
      <4>6. TypeOf[table[i]] \in Types
        BY <4>1, ScriptAssumption
      <4>7. TypeOf[table[i]] = "js"
        BY <3>3, <4>5, <4>6 DEF Types
      <4>. QED  BY <2>1, <3>1, <3>3, <3>5, <4>5, <4>7 DEF Passed
    <3>. QED  BY <3>1, <3>3, <3>4, <3>5 DEF m
  <2>. QED  BY <2>2, <2>3 DEF Imported
<1>. QED  BY <1>1, InvariantHolds, SoundHolds, PTL

(***************************************************************************)
(* The types.                                                              *)
(***************************************************************************)

Answer == [pkg : Pkgs \cup {Null}, key : Types \cup {Null}, temp : BOOLEAN, value : Values]
Small == /\ heap \in {"up", "destroyed", "aborted"} /\ fault \in {"none", "loader", "heap"}
         /\ present \in BOOLEAN /\ answer \in Answer

LEMMA ItemTyped ==
  ASSUME NEW is \in {"modules", "enum", "key", "entry", "libs", "object", "error", "thrown",
                     "undefined"}, NEW id \in Nat
  PROVE  Item(is, id) \in Values
BY SMT DEF Item, Values

LEMMA NoneTyped == None \in Answer
<1>1. Undefined \in Values
  BY ItemTyped DEF Undefined
<1>2. Null \in Pkgs \cup {Null} /\ Null \in Types \cup {Null} /\ FALSE \in BOOLEAN
  OBVIOUS
<1>. QED  BY <1>1, <1>2, Zenon DEF None, Answer

LEMMA LeaveTyped ==
  ASSUME Typed, frames # <<>>, NEW v \in Values, Leave(v)
  PROVE  answer' \in Answer
<1>1. Top.pkg \in Pkgs \cup {Null} /\ Top.key \in Types \cup {Null} /\ Top.temp \in BOOLEAN
  BY TopIsFrame DEF Frame
<1>. QED  BY <1>1, Zenon DEF Leave, Answer

LEMMA SmallKept ==
  ASSUME Small, UNCHANGED <<heap, fault, tableVars>>, answer' \in Answer
  PROVE  Small'
BY DEF Small, tableVars

LEMMA SmallStep == IInv /\ Small /\ [Next]_vars => Small'
<1>. SUFFICES ASSUME IInv, Small, [Next]_vars  PROVE Small'
  OBVIOUS
<1>1. ASSUME NEW l \in Loaders,
             \/ InitModules(l) \/ RegisterLoader(l)
             \/ \E protected \in BOOLEAN : InitAgain(l, protected)
      PROVE  Small'
  BY <1>1 DEF Small, InitModules, RegisterLoader, InitAgain, importVars
<1>2. CASE DestroyHeap \/ Wrap \/ UseFreed
  BY <1>2 DEF Small, DestroyHeap, Wrap, Finalize, UseFreed, importVars, tableVars
<1>3. ASSUME NEW p \in Pkgs, NEW k \in Types \cup {Null}, NEW t \in Temps, Import(p, k, t)
      PROVE  Small'
  BY <1>3, NoneTyped DEF Small, Import, tableVars
<1>4. CASE NoModules \/ NoLoader \/ NoneHasIt \/ Unloadable \/ GivesOther
  <2>1. /\ Typed /\ frames # <<>>
        /\ Leave(Thrown) \/ Leave(Error)
        /\ UNCHANGED <<heap, fault, tableVars>>
    BY <1>4 DEF IInv, NoModules, NoLoader, NoneHasIt, Unloadable, GivesOther, At, Trying, InModule
  <2>2. Thrown \in Values /\ Error \in Values
    BY ItemTyped DEF Thrown, Error
  <2>3. CASE Leave(Thrown)
    BY <2>1, <2>2, <2>3, LeaveTyped, SmallKept
  <2>4. CASE Leave(Error)
    BY <2>1, <2>2, <2>4, LeaveTyped, SmallKept
  <2>. QED  BY <2>1, <2>3, <2>4
<1>5. CASE NotFound
  <2>1. /\ Typed /\ frames # <<>>
        /\ Leave(Thrown) \/ answer' = answer
        /\ UNCHANGED <<heap, fault, tableVars>>
    BY <1>5 DEF IInv, NotFound, At
  <2>2. Thrown \in Values
    BY ItemTyped DEF Thrown
  <2>. QED  BY <2>1, <2>2, LeaveTyped, SmallKept DEF Small
<1>6. CASE GivesObject
  <2>1. /\ Typed /\ frames # <<>> /\ Leave(Object(Top.id)) /\ UNCHANGED <<heap, fault, tableVars>>
    BY <1>6 DEF IInv, GivesObject, InModule
  <2>2. Object(Top.id) \in Values
    BY <2>1, TopIsFrame, ItemTyped DEF Object, Frame
  <2>. QED  BY <2>1, <2>2, LeaveTyped, SmallKept DEF Small
<1>7. CASE Enumerate \/ NotThere \/ Evaluate \/ GivesUndefined
  BY <1>7 DEF Small, Enumerate, NotThere, Evaluate, GivesUndefined, tableVars
<1>8. CASE Keyed \/ NextLoader
  <2>1. /\ Typed /\ frames # <<>> /\ UNCHANGED <<heap, fault, tableVars>>
        /\ answer' = answer \/ \E l \in Loaders, p \in Pkgs : Leave(Object(libs[l][p]))
    <3>1. CASE Keyed
      <4>1. Typed /\ frames # <<>> /\ Top.key # Null /\ Top \in Frame
        BY <3>1, TopIsFrame DEF IInv, Keyed, At
      <4>2. PICK k \in KeysRead, p \in PkgsRead :
              /\ Listed(k) # {}
              /\ Leave(Object(libs[LoaderOf(k)][p])) \/ answer' = answer
        BY <3>1 DEF Keyed
      <4>3. k \in Types /\ p \in Pkgs
        BY <4>1, <4>2 DEF KeysRead, PkgsRead, Frame
      <4>4. LoaderOf(k) \in Loaders
        BY <4>1, <4>2, <4>3, LoaderFound
      <4>. QED  BY <3>1, <4>1, <4>2, <4>3, <4>4 DEF Keyed
    <3>2. CASE NextLoader
      <4>1. /\ Typed /\ Running /\ frames # <<>> /\ Top.rest # <<>>
            /\ Top \in Frame /\ Len(frames) \in DOMAIN frames
        BY <3>2, TopIsFrame DEF IInv, NextLoader, At
      <4>2. Top.rest \in Seq(Types)
        BY <4>1 DEF Frame
      <4>3. Head(Top.rest) \in Types /\ Head(Top.rest) \in Range(Top.rest)
        BY <4>1, <4>2, SMT DEF Range
      <4>4. Listed(Head(Top.rest)) # {}
        BY <4>1, <4>3 DEF IInv, Served, About, Running, Top
      <4>5. LoaderOf(Head(Top.rest)) \in Loaders
        BY <4>1, <4>3, <4>4, LoaderFound
      <4>6. \A p \in PkgsRead : p \in Pkgs
        BY <4>1 DEF PkgsRead, Frame
      <4>. QED  BY <3>2, <4>1, <4>5, <4>6 DEF NextLoader
    <3>. QED  BY <1>8, <3>1, <3>2
  <2>2. \A l \in Loaders, p \in Pkgs : Object(libs[l][p]) \in Values
    BY <2>1, ItemTyped DEF Typed, Object
  <2>. QED  BY <2>1, <2>2, LeaveTyped, SmallKept DEF Small
<1>9. CASE UNCHANGED vars
  BY <1>9 DEF Small, vars
<1>10. CASE NoName
  <2>1. Thrown \in Values
    BY ItemTyped DEF Thrown
  <2>2. [None EXCEPT !.value = Thrown] \in Answer
    BY <2>1, NoneTyped, Zenon DEF Answer
  <2>. QED  BY <1>10, <2>2, SmallKept DEF NoName
<1>. QED  BY <1>1, <1>2, <1>3, <1>4, <1>5, <1>6, <1>7, <1>8, <1>9, <1>10 DEF Next

LEMMA SmallHolds == Spec => []Small
<1>1. Init => Small
  BY NoneTyped DEF Init, Small
<1>. QED  BY <1>1, SmallStep, InvariantHolds, PTL DEF Spec

\* The table, the caches, the stack of imports and the handles keep their types; in
\* particular no library is closed more often than it was opened (module.hpp).
THEOREM ScriptTypeCorrect == Spec => []TypeOK
<1>1. IInv /\ Remember /\ Sound /\ Small => TypeOK
  <2>. SUFFICES ASSUME IInv, Remember, Sound, Small  PROVE TypeOK
    OBVIOUS
  <2>1. Typed /\ Len(made) \in Nat /\ MaxMade \in Nat /\ Len(made) <= MaxMade
    BY ScriptAssumption, SMT DEF IInv, Typed, Sound
  <2>2. libs \in [Loaders -> [Pkgs -> 0 .. MaxMade]]
    <3>1. \A l \in Loaders, p \in Pkgs : libs[l][p] \in 0 .. MaxMade
      BY <2>1 DEF Sound, Cached, Right
    <3>. QED  BY <2>1, <3>1 DEF Typed
  <2>3. ASSUME NEW i \in DOMAIN frames
        PROVE  frames[i] \in [pkg : Pkgs, key : Types \cup {Null}, temp : BOOLEAN,
                     pc : {"modules", "next", "try", "running"}, rest : Seq(Types),
                     loader : Loaders \cup {Null}, dir : Nat, name : Pkgs,
                     stack : Seq(Values), id : 0 .. MaxMade, since : 0 .. MaxMade]
    <3>1. frames[i] \in Frame
      BY <2>1, SMT DEF Typed
    <3>2. frames[i].id \in 0 .. Len(made) /\ frames[i].since <= Len(made)
      BY DEF Sound, Searched, Remember, Remembers
    <3>3. frames[i].since \in Nat
      BY <3>1 DEF Frame
    <3>4. frames[i].id \in 0 .. MaxMade /\ frames[i].since \in 0 .. MaxMade
      BY <2>1, <3>2, <3>3
    <3>. QED  BY <3>1, <3>4, Zenon DEF Frame
  <2>4. frames \in Seq([pkg : Pkgs, key : Types \cup {Null}, temp : BOOLEAN,
                     pc : {"modules", "next", "try", "running"}, rest : Seq(Types),
                     loader : Loaders \cup {Null}, dir : Nat, name : Pkgs,
                     stack : Seq(Values), id : 0 .. MaxMade, since : 0 .. MaxMade])
    <3>1. \A S, T : \A s \in Seq(S) : (\A i \in DOMAIN s : s[i] \in T) => s \in Seq(T)
      BY SMT
    <3>. QED  BY <2>1, <2>3, <3>1, Zenon DEF Typed
  <2>5. opened \in [Files -> Nat]
    BY DEF Sound, Handles
  <2>6. made \in Seq([type : Types, dir : Nat, pkg : Pkgs,
                   gave : {"none", "object", "other", "undefined"}])
    BY <2>1 DEF Typed, Evaluation
  <2>. QED  BY <2>1, <2>2, <2>4, <2>5, <2>6, Zenon DEF TypeOK, Typed, Small, Answer
<1>. QED  BY <1>1, InvariantHolds, RememberHolds, SoundHolds, SmallHolds, PTL
=============================================================================
