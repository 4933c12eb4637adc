---------------------------- MODULE ScriptModules ----------------------------
(***************************************************************************)
(* The module framework of the script host (src/include/kg/scripts/        *)
(* duktape-extras/module.hpp) with its two loaders (modules/js.hpp, c.hpp):*)
(* kg_import looks a package up in the cache of a loader, or searches the  *)
(* loader's directories for a file, evaluates it and caches the object it  *)
(* gives.  While a module is evaluated it may import others, itself among  *)
(* them, and a native module may register loaders.                         *)
(*                                                                         *)
(* A frame is one native_import in progress, with the values it has on the *)
(* engine's stack: the code finds them again by counting from the top.     *)
(***************************************************************************)
EXTENDS Integers, Sequences, FiniteSets, Functions

CONSTANTS
  Loaders,    \* the loader objects a host has to register
  TypeOf,     \* module_type() of a loader: "js" or "c"
  Pkgs,       \* package names
  PathLen,    \* by type: the directories of its environment variable, 0 if unset
  Files,      \* the modules there are: <<type, directory, package>>
  Temps,      \* whether scripts pass names nothing else refers to
  MaxDepth,   \* bound: imports in progress, the engine's limit on recursion
  MaxMade,    \* bound: evaluations
  Null

Types == {"js", "c"}

ASSUME ScriptAssumption ==
  /\ TypeOf \in [Loaders -> Types] /\ PathLen \in [Types -> Nat]
  /\ Files \subseteq Types \X Nat \X Pkgs /\ Temps \subseteq BOOLEAN
  /\ MaxDepth \in Nat /\ MaxMade \in Nat /\ Null \notin Loaders \cup Types

VARIABLES
  heap,       \* the engine: "up", "destroyed" or "aborted" by an uncaught error
  fault,      \* undefined behaviour that was met: "none", "loader", "heap"
  present,    \* the global _g_kg_modules is there
  table,      \* its loaders in the order of their keys
  libs,       \* by loader: the cache, the number of the evaluation or 0
  loaders,    \* by loader: "unused", "live" or "freed"
  frames,     \* the imports in progress, the innermost last
  opened,     \* handles of the library of a native module
  made,       \* the evaluations so far
  answer,     \* what the last import gave
  leaked      \* history: loaders init() has made unreachable

vars == <<heap, fault, present, table, libs, loaders, frames, opened, made, answer, leaked>>

Item(is, id) == [is |-> is, id |-> id]
Modules == Item("modules", 0)
Enum == Item("enum", 0)
Key == Item("key", 0)
Undefined == Item("undefined", 0)
Error == Item("error", 0)
Thrown == Item("thrown", 0)
Object(n) == Item("object", n)

\* s without its n top values, and the value n places below the top.
Pop(s, n) == SubSeq(s, 1, Len(s) - n)
FromTop(s, n) == s[Len(s) + 1 - n]

Running == heap = "up" /\ fault = "none"
AtHost == Running /\ frames = <<>>
Top == frames[Len(frames)]
InModule == Running /\ frames # <<>> /\ Top.pc = "running"
InNative == InModule /\ made[Top.id].type = "c"
At(pc) == Running /\ frames # <<>> /\ Top.pc = pc
Replace(f) == frames' = [frames EXCEPT ![Len(frames)] = f]

Listed(t) == {l \in Range(table) : TypeOf[l] = t}
LoaderOf(t) == CHOOSE l \in Listed(t) : TRUE

None == [pkg |-> Null, key |-> Null, temp |-> FALSE, value |-> Undefined]

Init ==
  /\ heap = "up" /\ fault = "none"
  /\ present = FALSE /\ table = <<>>
  /\ libs = [l \in Loaders |-> [p \in Pkgs |-> 0]]
  /\ loaders = [l \in Loaders |-> "unused"]
  /\ frames = <<>> /\ made = <<>> /\ leaked = {}
  /\ opened = [f \in Files |-> 0]
  /\ answer = None

(***************************************************************************)
(* The host: init, register_loader, the finalizer native_destory.          *)
(***************************************************************************)
tableVars == <<present, table, loaders, leaked>>
importVars == <<libs, frames, opened, made, answer>>

\* variant: the loader that was there is not freed
WithLoaderLeaks(l) ==
  /\ table' = IF Listed(TypeOf[l]) = {} THEN Append(table, l)
              ELSE [i \in DOMAIN table |-> IF TypeOf[table[i]] = TypeOf[l] THEN l ELSE table[i]]
  /\ loaders' = [loaders EXCEPT ![l] = "live"]

\* register_loader frees the loader of the same type that was there.
WithLoader(l) ==
  /\ table' = IF Listed(TypeOf[l]) = {} THEN Append(table, l)
              ELSE [i \in DOMAIN table |-> IF TypeOf[table[i]] = TypeOf[l] THEN l ELSE table[i]]
  /\ loaders' = [k \in Loaders |-> IF k = l THEN "live"
                                   ELSE IF k \in Listed(TypeOf[l]) THEN "freed" ELSE loaders[k]]

InitModules(l) ==
  /\ AtHost /\ ~present /\ loaders[l] = "unused" /\ TypeOf[l] = "js"
  /\ present' = TRUE
  /\ WithLoader(l)
  /\ UNCHANGED <<heap, fault, leaked, importVars>>

\* A second init() drops the old table; its finalizer finds the new, empty one in
\* the global, frees nothing and deletes it: register_loader throws, which ends the
\* program unless the host made the call protected.
InitAgain(l, protected) ==
  /\ AtHost /\ present /\ loaders[l] = "unused" /\ TypeOf[l] = "js"
  /\ present' = FALSE /\ table' = <<>>
  /\ loaders' = [loaders EXCEPT ![l] = "live"]
  /\ leaked' = leaked \cup Range(table) \cup {l}
  /\ heap' = IF protected THEN "up" ELSE "aborted"
  /\ UNCHANGED <<fault, importVars>>

\* Called by the host, or by a native module while it is loaded.
RegisterLoader(l) ==
  /\ AtHost \/ InNative
  /\ present /\ loaders[l] = "unused"
  /\ WithLoader(l)
  /\ UNCHANGED <<heap, fault, present, leaked, importVars>>

Finalize ==
  /\ present' = FALSE /\ table' = <<>>
  /\ loaders' = [l \in Loaders |-> IF l \in Range(table) THEN "freed" ELSE loaders[l]]
  /\ UNCHANGED <<leaked, importVars>>

\* The last duktape_t of the host goes.
DestroyHeap ==
  /\ AtHost
  /\ heap' = "destroyed"
  /\ Finalize
  /\ UNCHANGED fault

\* A native module puts its context into a duktape_t: the constructor ignores the
\* function it is given, and the end of the object destroys the heap it runs on.
Wrap ==
  /\ InNative
  /\ heap' = "destroyed" /\ fault' = "heap"
  /\ Finalize

(***************************************************************************)
(* native_import.                                                          *)
(***************************************************************************)
\* The names are popped before they are used: if nothing else holds the strings,
\* what is read through the pointers may be anything.
PkgsRead == IF Top.temp THEN Pkgs ELSE {Top.pkg}
KeysRead == IF Top.temp THEN Types ELSE {Top.key}

Import(p, k, t) ==
  /\ AtHost \/ InModule
  /\ Len(frames) < MaxDepth
  /\ frames' = Append(frames, [pkg |-> p, key |-> k, temp |-> t, pc |-> "modules",
                               rest |-> <<>>, loader |-> Null, dir |-> 0, name |-> p,
                               stack |-> <<>>, id |-> 0, since |-> Len(made)])
  /\ answer' = None
  /\ UNCHANGED <<heap, fault, tableVars, libs, opened, made>>

\* The first argument is not a string: kg_import throws and looks at nothing.
NoName ==
  /\ AtHost \/ InModule
  /\ answer' = [None EXCEPT !.value = Thrown]
  /\ UNCHANGED <<heap, fault, tableVars, libs, frames, opened, made>>

Leave(v) ==
  /\ frames' = Pop(frames, 1)
  /\ answer' = [pkg |-> Top.pkg, key |-> Top.key, temp |-> Top.temp, value |-> v]

\* import_pkg gets the libs on the top of the stack and a copy of the name.
Search(l, s, rest) ==
  \E n \in PkgsRead : Replace([Top EXCEPT !.pc = "try", !.rest = rest, !.loader = l,
                                          !.dir = 1, !.name = n, !.stack = s])

NoModules ==
  /\ At("modules") /\ ~present
  /\ Leave(Thrown)
  /\ UNCHANGED <<heap, fault, tableVars, libs, opened, made>>

NoLoader ==
  /\ At("modules") /\ present /\ Top.key # Null
  /\ \E k \in KeysRead : Listed(k) = {}
  /\ Leave(Thrown)
  /\ UNCHANGED <<heap, fault, tableVars, libs, opened, made>>

\* variant: the type is tested and then forgotten
KeyedFirst ==
  /\ At("modules") /\ present /\ Top.key # Null
  /\ \E k \in {k \in KeysRead : Listed(k) # {}}, p \in PkgsRead :
       LET l == table[1] IN
       IF libs[l][p] # 0
       THEN Leave(Object(libs[l][p]))
       ELSE /\ Search(l, <<Modules, Item("entry", l), Item("libs", l)>>, <<>>)
            /\ UNCHANGED answer
  /\ UNCHANGED <<heap, fault, tableVars, libs, opened, made>>

\* With a type: the cache of its loader first, then its directories.
Keyed ==
  /\ At("modules") /\ present /\ Top.key # Null
  /\ \E k \in {k \in KeysRead : Listed(k) # {}}, p \in PkgsRead :
       LET l == LoaderOf(k) IN
       IF libs[l][p] # 0
       THEN Leave(Object(libs[l][p]))
       ELSE /\ Search(l, <<Modules, Item("entry", l), Item("libs", l)>>, <<>>)
            /\ UNCHANGED answer
  /\ UNCHANGED <<heap, fault, tableVars, libs, opened, made>>

\* Without one: every loader in order.
Enumerate ==
  /\ At("modules") /\ present /\ Top.key = Null
  /\ Replace([Top EXCEPT !.pc = "next", !.stack = <<Modules, Enum>>,
                         !.rest = [i \in DOMAIN table |-> TypeOf[table[i]]]])
  /\ UNCHANGED <<heap, fault, tableVars, libs, opened, made, answer>>

\* variant: the cache is not asked
NextLoaderUncached ==
  /\ At("next") /\ Top.rest # <<>>
  /\ LET l == LoaderOf(Head(Top.rest))
     IN Search(l, Top.stack \o <<Key, Item("entry", l), Item("libs", l)>>, Tail(Top.rest))
  /\ UNCHANGED <<heap, fault, tableVars, libs, opened, made, answer>>

NextLoader ==
  /\ At("next") /\ Top.rest # <<>>
  /\ \E p \in PkgsRead :
       LET l == LoaderOf(Head(Top.rest)) IN
       IF libs[l][p] # 0
       THEN Leave(Object(libs[l][p]))
       ELSE /\ Search(l, Top.stack \o <<Key, Item("entry", l), Item("libs", l)>>,
                      Tail(Top.rest))
            /\ UNCHANGED answer
  /\ UNCHANGED <<heap, fault, tableVars, libs, opened, made>>

NoneHasIt ==
  /\ At("next") /\ Top.rest = <<>>
  /\ Leave(Thrown)
  /\ UNCHANGED <<heap, fault, tableVars, libs, opened, made>>

(***************************************************************************)
(* import_pkg and module_import.                                           *)
(***************************************************************************)
Type == TypeOf[Top.loader]
File == <<Type, Top.dir, Top.name>>
MoreDirs == Top.dir <= PathLen[Type]

\* The loader is asked for a path, and it may have been freed by now.
UseFreed ==
  /\ At("try") /\ MoreDirs /\ loaders[Top.loader] = "freed"
  /\ fault' = "loader"
  /\ UNCHANGED <<heap, tableVars, importVars>>

Trying == At("try") /\ MoreDirs /\ loaders[Top.loader] = "live"

NotThere ==
  /\ Trying /\ File \notin Files
  /\ Replace([Top EXCEPT !.dir = @ + 1])
  /\ UNCHANGED <<heap, fault, tableVars, libs, opened, made, answer>>

\* variant: the library is closed twice
UnloadableCloses ==
  /\ Trying /\ File \in Files
  /\ opened' = [opened EXCEPT ![File] = IF Type = "c" THEN @ - 1 ELSE @]
  /\ Leave(Error)
  /\ UNCHANGED <<heap, fault, tableVars, libs, made>>

\* Too large, no memory, a syntax error, no kg_duk_package, not a function: the
\* message becomes what kg_import returns.
Unloadable ==
  /\ Trying /\ File \in Files
  /\ Leave(Error)
  /\ UNCHANGED <<heap, fault, tableVars, libs, opened, made>>

Evaluate ==
  /\ Trying /\ File \in Files /\ Len(made) < MaxMade
  /\ made' = Append(made, [type |-> Type, dir |-> Top.dir, pkg |-> Top.name, gave |-> "none"])
  /\ opened' = [opened EXCEPT ![File] = IF Type = "c" THEN @ + 1 ELSE @]
  /\ Replace([Top EXCEPT !.pc = "running", !.id = Len(made) + 1])
  /\ UNCHANGED <<heap, fault, tableVars, libs, answer>>

Gives(what) == made' = [made EXCEPT ![Top.id].gave = what]
CloseLibrary == opened' = [opened EXCEPT ![File] = IF Type = "c" THEN @ - 1 ELSE @]

\* The object goes into the table three places below the top of the stack.
GivesObject ==
  /\ InModule
  /\ Gives("object")
  /\ LET s == Top.stack \o <<Object(Top.id), Object(Top.id)>>
         t == FromTop(s, 3)
     IN libs' = IF t.is = "libs" THEN [libs EXCEPT ![t.id][Top.name] = Top.id] ELSE libs
  /\ Leave(Object(Top.id))
  /\ UNCHANGED <<heap, fault, tableVars, opened>>

\* A module that throws, or gives something else than an object.
GivesOther ==
  /\ InModule
  /\ Gives("other") /\ CloseLibrary
  /\ Leave(Error)
  /\ UNCHANGED <<heap, fault, tableVars, libs>>

\* undefined says that there is no such file: the search goes on.
GivesUndefined ==
  /\ InModule
  /\ Gives("undefined") /\ CloseLibrary
  /\ Replace([Top EXCEPT !.pc = "try", !.dir = @ + 1])
  /\ UNCHANGED <<heap, fault, tableVars, libs, answer>>

\* variant: one value too few is popped
NotFoundPopsTwo ==
  /\ At("try") /\ ~MoreDirs
  /\ IF Top.key # Null
     THEN Leave(Thrown)
     ELSE /\ Replace([Top EXCEPT !.pc = "next", !.stack = Pop(@, 2)])
          /\ UNCHANGED answer
  /\ UNCHANGED <<heap, fault, tableVars, libs, opened, made>>

NotFound ==
  /\ At("try") /\ ~MoreDirs
  /\ IF Top.key # Null
     THEN Leave(Thrown)
     ELSE /\ Replace([Top EXCEPT !.pc = "next", !.stack = Pop(@, 3)])
          /\ UNCHANGED answer
  /\ UNCHANGED <<heap, fault, tableVars, libs, opened, made>>

Next ==
  \/ \E l \in Loaders : \/ InitModules(l) \/ RegisterLoader(l)
                        \/ \E protected \in BOOLEAN : InitAgain(l, protected)
  \/ DestroyHeap \/ Wrap
  \/ \E p \in Pkgs, k \in Types \cup {Null}, t \in Temps : Import(p, k, t)
  \/ NoName \/ NoModules \/ NoLoader \/ Keyed \/ Enumerate \/ NextLoader \/ NoneHasIt
  \/ UseFreed \/ NotThere \/ Unloadable \/ Evaluate \/ NotFound
  \/ GivesObject \/ GivesOther \/ GivesUndefined

Spec == Init /\ [][Next]_vars

(***************************************************************************)
(* Properties.                                                             *)
(***************************************************************************)
Values == [is : {"modules", "enum", "key", "entry", "libs", "object", "error", "thrown",
                 "undefined"}, id : Loaders \cup Nat]

\* Types: in particular no library is closed more often than it was opened.
TypeOK ==
  /\ heap \in {"up", "destroyed", "aborted"} /\ fault \in {"none", "loader", "heap"}
  /\ present \in BOOLEAN /\ table \in Seq(Loaders) /\ leaked \subseteq Loaders
  /\ libs \in [Loaders -> [Pkgs -> 0 .. MaxMade]]
  /\ loaders \in [Loaders -> {"unused", "live", "freed"}]
  /\ opened \in [Files -> Nat]
  /\ made \in Seq([type : Types, dir : Nat, pkg : Pkgs,
                   gave : {"none", "object", "other", "undefined"}])
  /\ frames \in Seq([pkg : Pkgs, key : Types \cup {Null}, temp : BOOLEAN,
                     pc : {"modules", "next", "try", "running"}, rest : Seq(Types),
                     loader : Loaders \cup {Null}, dir : Nat, name : Pkgs,
                     stack : Seq(Values), id : 0 .. MaxMade, since : 0 .. MaxMade])
  /\ answer \in [pkg : Pkgs \cup {Null}, key : Types \cup {Null}, temp : BOOLEAN,
                 value : Values]

\* There is one loader of a type in the table; the loaders that were registered and
\* are not freed are those of the table and those a second init() has dropped, so
\* each is freed once and none is forgotten; and an import meets a freed loader only
\* when a native module it was loading has registered another one of the same type
\* (init, register_loader, native_destory, import_pkg).  This is what the code does: that
\* register_loader frees is what its comment denies, see ReplacedNotFreed.
LoadersOwned ==
  /\ \A l, k \in Range(table) : TypeOf[l] = TypeOf[k] => l = k
  /\ {l \in Loaders : loaders[l] = "live"} = Range(table) \cup leaked
  /\ Range(table) \cap leaked = {}
  /\ fault = "loader" => /\ Top.loader \notin Range(table)
                         /\ Listed(Type) # {}

\* What the comment of register_loader says (module.hpp:113): a loader of the same type is
\* replaced and not freed, so that while the engine runs every loader is still its host's.
\* A host that goes by it frees the old one a second time.
ReplacedNotFreed == heap = "up" => \A l \in Loaders : loaders[l] # "freed"

\* A file an import had to pass: it is there, and did not answer undefined.
Stands(t, d, p) ==
  /\ <<t, d, p>> \in Files
  /\ \A i \in DOMAIN made : made[i].type = t /\ made[i].dir = d /\ made[i].pkg = p
                              => made[i].gave # "undefined"

\* The object kg_import returns is the package that was asked for, of the type that
\* was asked for, from the first directory, and without a type from the first loader,
\* that has the package; a native one's library is open once for every evaluation
\* that runs or has given an object (native_import, import_pkg, c_loader_t).
Imported ==
  /\ answer.value.is = "object" /\ ~answer.temp =>
       LET m == made[answer.value.id] IN
       /\ m.pkg = answer.pkg /\ m.gave = "object"
       /\ answer.key # Null => m.type = answer.key
       /\ \A d \in 1 .. (m.dir - 1) : ~Stands(m.type, d, m.pkg)
       /\ answer.key = Null =>
            \A i, j \in DOMAIN table :
              i < j /\ TypeOf[table[j]] = m.type =>
                \A d \in 1 .. PathLen[TypeOf[table[i]]] : ~Stands(TypeOf[table[i]], d, m.pkg)
  /\ \A f \in Files :
       opened[f] = Cardinality({i \in DOMAIN made :
                                  /\ f = <<"c", made[i].dir, made[i].pkg>>
                                  /\ made[i].type = "c" /\ made[i].gave \in {"none", "object"}})

\* The cache holds under a name what was loaded under it, and an object in it is only
\* replaced by an import that looked before that object was made: the circular import
\* of a package makes two of it (native_import, import_pkg).
CacheStable ==
  [][\A l \in Loaders, p \in Pkgs :
       libs'[l][p] # libs[l][p] =>
         /\ made'[libs'[l][p]].pkg = p /\ made'[libs'[l][p]].type = TypeOf[l]
         /\ libs[l][p] # 0 => libs[l][p] > Top.since \/ Top.temp]_vars

\* Whatever was loaded in between, an import finds its values where it counts them:
\* libs on the top for import_pkg, the enumeration for duk_next (native_import).
StackShape ==
  \A i \in DOMAIN frames :
    LET f == frames[i]
        own == <<Item("entry", f.loader), Item("libs", f.loader)>>
    IN /\ f.pc = "next" => f.stack = <<Modules, Enum>>
       /\ f.pc \in {"try", "running"} =>
            f.stack = (IF f.key = Null THEN <<Modules, Enum, Key>> ELSE <<Modules>>) \o own
=============================================================================
