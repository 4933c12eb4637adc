--------------------------- MODULE FirewallProofs ---------------------------
(***************************************************************************)
(* Theorems about Firewall, for any users, programs and openings.  The      *)
(* argument has two halves.  The first is about the tables alone: each exit *)
(* of a procedure releases what its calls before it have yielded, each call *)
(* uses only such references, and rules are written by the last call        *)
(* (TableIsSound).  The second is an induction on the steps that never      *)
(* opens the tables: what a user holds is what the calls so far have        *)
(* yielded.                                                                 *)
(***************************************************************************)
EXTENDS Firewall, TLAPS

-----------------------------------------------------------------------------
(* The tables.                                                              *)

\* What the calls before the i-th have yielded, and what was there before them.
Acquired(p, i) == {h \in Handles : \E j \in 1..(i - 1) : h \in Procedures[p][j].yields}
Base(p) == IF p = "construct" THEN {} ELSE {"_profile"}

Questions == {"is_on", "app_status", "port_status"}
Writers == {"put_power", "app_allow", "app_disable", "app_remove", "port_allow"}
Writes == {"Add", "Remove", "put_FirewallEnabled"}

\* The i-th call of p uses what p has, and its exit leaves nothing behind.
RowHolds(p, i) ==
  LET c == Procedures[p][i]
      got == Acquired(p, i) IN
  /\ c.uses \subseteq Base(p) \cup got
  /\ c.yields \subseteq Handles
  /\ "_profile" \notin c.release
  /\ p # "construct" => "_profile" \notin c.yields
  /\ c.name # "Item" => got \subseteq c.release
  /\ c.name = "AllocName" =>
       c.yields = {"name"} /\ "name" \notin c.release /\ p # "construct"

\* Which calls are the last ones of their procedures.
RowAnswers(p, i) ==
  LET c == Procedures[p][i]
      last == i = Len(Procedures[p]) IN
  /\ c.name \in Writes => last
  /\ c.name = "Add" => p \in {"app_allow", "app_disable", "port_allow"}
  /\ c.name = "Remove" => p = "app_remove"
  /\ c.name = "put_FirewallEnabled" => p = "put_power"
  /\ p \in Writers /\ last => c.name \in Writes
  /\ c.name \in {"Item", "get_Enabled"} => p \in {"app_status", "port_status"}
  /\ c.name = "get_FirewallEnabled" => p = "is_on"
  /\ p \in Questions /\ last => c.name \in {"get_Enabled", "get_FirewallEnabled"}

\* The end of p leaves _profile, and nothing else that p got.
EndHolds(p) ==
  LET n == Len(Procedures[p]) IN
  /\ n \in Nat \ {0}
  /\ Acquired(p, n + 1) \subseteq AtEnd[p] \cup {"_profile"}
  /\ "_profile" \notin AtEnd[p]
  /\ p = "construct" => "_profile" \in Acquired(p, n + 1)

TableHolds(p) ==
  /\ EndHolds(p)
  /\ \A i \in 1..Len(Procedures[p]) : RowHolds(p, i) /\ RowAnswers(p, i)

LEMMA ConstructTable == TableHolds("construct")
<1> DEFINE p == "construct"
<1>0. Procedures[p] = Construct /\ Len(Construct) = 3
  BY DEF Procedures, Construct
<1>1. RowHolds(p, 1) /\ RowAnswers(p, 1)
  BY <1>0 DEF Construct, RowHolds, RowAnswers, Acquired, Base, Handles, Call, Writes, Writers, Questions
<1>2. RowHolds(p, 2) /\ RowAnswers(p, 2)
  BY <1>0 DEF Construct, RowHolds, RowAnswers, Acquired, Base, Handles, Call, Writes, Writers, Questions
<1>3. RowHolds(p, 3) /\ RowAnswers(p, 3)
  BY <1>0 DEF Construct, RowHolds, RowAnswers, Acquired, Base, Handles, Call, Writes, Writers, Questions
<1>4. EndHolds(p)
  BY <1>0 DEF Construct, EndHolds, Acquired, AtEnd, Handles, Call
<1>5. \A i \in 1..Len(Procedures[p]) : RowHolds(p, i) /\ RowAnswers(p, i)
  <2>1. Len(Procedures[p]) = 3
    BY <1>0
  <2>2. \A i \in 1..3 : i = 1 \/ i = 2 \/ i = 3
    OBVIOUS
  <2> QED
    BY <2>1, <2>2, <1>1, <1>2, <1>3
<1> QED
  BY <1>4, <1>5 DEF TableHolds

LEMMA IsOnTable == TableHolds("is_on")
<1> DEFINE p == "is_on"
<1>0. Procedures[p] = IsOn /\ Len(IsOn) = 1
  BY DEF Procedures, IsOn
<1>1. RowHolds(p, 1) /\ RowAnswers(p, 1)
  BY <1>0 DEF IsOn, RowHolds, RowAnswers, Acquired, Base, Handles, Call, Writes, Writers, Questions
<1>2. EndHolds(p)
  BY <1>0 DEF IsOn, EndHolds, Acquired, AtEnd, Handles, Call
<1>3. \A i \in 1..Len(Procedures[p]) : RowHolds(p, i) /\ RowAnswers(p, i)
  <2>1. Len(Procedures[p]) = 1
    BY <1>0
  <2>2. \A i \in 1..1 : i = 1
    OBVIOUS
  <2> QED
    BY <2>1, <2>2, <1>1
<1> QED
  BY <1>2, <1>3 DEF TableHolds

LEMMA PutPowerTable == TableHolds("put_power")
<1> DEFINE p == "put_power"
<1>0. Procedures[p] = PutPower /\ Len(PutPower) = 1
  BY DEF Procedures, PutPower
<1>1. RowHolds(p, 1) /\ RowAnswers(p, 1)
  BY <1>0 DEF PutPower, RowHolds, RowAnswers, Acquired, Base, Handles, Call, Writes, Writers, Questions
<1>2. EndHolds(p)
  BY <1>0 DEF PutPower, EndHolds, Acquired, AtEnd, Handles, Call
<1>3. \A i \in 1..Len(Procedures[p]) : RowHolds(p, i) /\ RowAnswers(p, i)
  <2>1. Len(Procedures[p]) = 1
    BY <1>0
  <2>2. \A i \in 1..1 : i = 1
    OBVIOUS
  <2> QED
    BY <2>1, <2>2, <1>1
<1> QED
  BY <1>2, <1>3 DEF TableHolds

LEMMA AppStatusTable == TableHolds("app_status")
<1> DEFINE p == "app_status"
<1>0. Procedures[p] = AppStatus /\ Len(AppStatus) = 4
  BY DEF Procedures, AppStatus
<1>1. RowHolds(p, 1) /\ RowAnswers(p, 1)
  BY <1>0 DEF AppStatus, RowHolds, RowAnswers, Acquired, Base, Handles, Call, Writes, Writers, Questions
<1>2. RowHolds(p, 2) /\ RowAnswers(p, 2)
  BY <1>0 DEF AppStatus, RowHolds, RowAnswers, Acquired, Base, Handles, Call, Writes, Writers, Questions
<1>3. RowHolds(p, 3) /\ RowAnswers(p, 3)
  BY <1>0 DEF AppStatus, RowHolds, RowAnswers, Acquired, Base, Handles, Call, Writes, Writers, Questions
<1>4. RowHolds(p, 4) /\ RowAnswers(p, 4)
  BY <1>0 DEF AppStatus, RowHolds, RowAnswers, Acquired, Base, Handles, Call, Writes, Writers, Questions
<1>5. EndHolds(p)
  BY <1>0 DEF AppStatus, EndHolds, Acquired, AtEnd, Handles, Call
<1>6. \A i \in 1..Len(Procedures[p]) : RowHolds(p, i) /\ RowAnswers(p, i)
  <2>1. Len(Procedures[p]) = 4
    BY <1>0
  <2>2. \A i \in 1..4 : i = 1 \/ i = 2 \/ i = 3 \/ i = 4
    OBVIOUS
  <2> QED
    BY <2>1, <2>2, <1>1, <1>2, <1>3, <1>4
<1> QED
  BY <1>5, <1>6 DEF TableHolds

LEMMA AppAllowTable == TableHolds("app_allow")
<1> DEFINE p == "app_allow"
<1>0. Procedures[p] = AppAllow /\ Len(AppAllow) = 7
  BY DEF Procedures, AppAllow
<1>1. RowHolds(p, 1) /\ RowAnswers(p, 1)
  BY <1>0 DEF AppAllow, RowHolds, RowAnswers, Acquired, Base, Handles, Call, Writes, Writers, Questions
<1>2. RowHolds(p, 2) /\ RowAnswers(p, 2)
  BY <1>0 DEF AppAllow, RowHolds, RowAnswers, Acquired, Base, Handles, Call, Writes, Writers, Questions
<1>3. RowHolds(p, 3) /\ RowAnswers(p, 3)
  BY <1>0 DEF AppAllow, RowHolds, RowAnswers, Acquired, Base, Handles, Call, Writes, Writers, Questions
<1>4. RowHolds(p, 4) /\ RowAnswers(p, 4)
  BY <1>0 DEF AppAllow, RowHolds, RowAnswers, Acquired, Base, Handles, Call, Writes, Writers, Questions
<1>5. RowHolds(p, 5) /\ RowAnswers(p, 5)
  BY <1>0 DEF AppAllow, RowHolds, RowAnswers, Acquired, Base, Handles, Call, Writes, Writers, Questions
<1>6. RowHolds(p, 6) /\ RowAnswers(p, 6)
  BY <1>0 DEF AppAllow, RowHolds, RowAnswers, Acquired, Base, Handles, Call, Writes, Writers, Questions
<1>7. RowHolds(p, 7) /\ RowAnswers(p, 7)
  BY <1>0 DEF AppAllow, RowHolds, RowAnswers, Acquired, Base, Handles, Call, Writes, Writers, Questions
<1>8. EndHolds(p)
  BY <1>0 DEF AppAllow, EndHolds, Acquired, AtEnd, Handles, Call
<1>9. \A i \in 1..Len(Procedures[p]) : RowHolds(p, i) /\ RowAnswers(p, i)
  <2>1. Len(Procedures[p]) = 7
    BY <1>0
  <2>2. \A i \in 1..7 : i = 1 \/ i = 2 \/ i = 3 \/ i = 4 \/ i = 5 \/ i = 6 \/ i = 7
    OBVIOUS
  <2> QED
    BY <2>1, <2>2, <1>1, <1>2, <1>3, <1>4, <1>5, <1>6, <1>7
<1> QED
  BY <1>8, <1>9 DEF TableHolds

LEMMA AppDisableTable == TableHolds("app_disable")
<1> DEFINE p == "app_disable"
<1>0. Procedures[p] = AppDisable /\ Len(AppDisable) = 8
  BY DEF Procedures, AppDisable
<1>1. RowHolds(p, 1) /\ RowAnswers(p, 1)
  BY <1>0 DEF AppDisable, RowHolds, RowAnswers, Acquired, Base, Handles, Call, Writes, Writers, Questions
<1>2. RowHolds(p, 2) /\ RowAnswers(p, 2)
  BY <1>0 DEF AppDisable, RowHolds, RowAnswers, Acquired, Base, Handles, Call, Writes, Writers, Questions
<1>3. RowHolds(p, 3) /\ RowAnswers(p, 3)
  BY <1>0 DEF AppDisable, RowHolds, RowAnswers, Acquired, Base, Handles, Call, Writes, Writers, Questions
<1>4. RowHolds(p, 4) /\ RowAnswers(p, 4)
  BY <1>0 DEF AppDisable, RowHolds, RowAnswers, Acquired, Base, Handles, Call, Writes, Writers, Questions
<1>5. RowHolds(p, 5) /\ RowAnswers(p, 5)
  BY <1>0 DEF AppDisable, RowHolds, RowAnswers, Acquired, Base, Handles, Call, Writes, Writers, Questions
<1>6. RowHolds(p, 6) /\ RowAnswers(p, 6)
  BY <1>0 DEF AppDisable, RowHolds, RowAnswers, Acquired, Base, Handles, Call, Writes, Writers, Questions
<1>7. RowHolds(p, 7) /\ RowAnswers(p, 7)
  BY <1>0 DEF AppDisable, RowHolds, RowAnswers, Acquired, Base, Handles, Call, Writes, Writers, Questions
<1>8. RowHolds(p, 8) /\ RowAnswers(p, 8)
  BY <1>0 DEF AppDisable, RowHolds, RowAnswers, Acquired, Base, Handles, Call, Writes, Writers, Questions
<1>9. EndHolds(p)
  BY <1>0 DEF AppDisable, EndHolds, Acquired, AtEnd, Handles, Call
<1>10. \A i \in 1..Len(Procedures[p]) : RowHolds(p, i) /\ RowAnswers(p, i)
  <2>1. Len(Procedures[p]) = 8
    BY <1>0
  <2>2. \A i \in 1..8 : i = 1 \/ i = 2 \/ i = 3 \/ i = 4 \/ i = 5 \/ i = 6 \/ i = 7 \/ i = 8
    OBVIOUS
  <2> QED
    BY <2>1, <2>2, <1>1, <1>2, <1>3, <1>4, <1>5, <1>6, <1>7, <1>8
<1> QED
  BY <1>9, <1>10 DEF TableHolds

LEMMA AppRemoveTable == TableHolds("app_remove")
<1> DEFINE p == "app_remove"
<1>0. Procedures[p] = AppRemove /\ Len(AppRemove) = 3
  BY DEF Procedures, AppRemove
<1>1. RowHolds(p, 1) /\ RowAnswers(p, 1)
  BY <1>0 DEF AppRemove, RowHolds, RowAnswers, Acquired, Base, Handles, Call, Writes, Writers, Questions
<1>2. RowHolds(p, 2) /\ RowAnswers(p, 2)
  BY <1>0 DEF AppRemove, RowHolds, RowAnswers, Acquired, Base, Handles, Call, Writes, Writers, Questions
<1>3. RowHolds(p, 3) /\ RowAnswers(p, 3)
  BY <1>0 DEF AppRemove, RowHolds, RowAnswers, Acquired, Base, Handles, Call, Writes, Writers, Questions
<1>4. EndHolds(p)
  BY <1>0 DEF AppRemove, EndHolds, Acquired, AtEnd, Handles, Call
<1>5. \A i \in 1..Len(Procedures[p]) : RowHolds(p, i) /\ RowAnswers(p, i)
  <2>1. Len(Procedures[p]) = 3
    BY <1>0
  <2>2. \A i \in 1..3 : i = 1 \/ i = 2 \/ i = 3
    OBVIOUS
  <2> QED
    BY <2>1, <2>2, <1>1, <1>2, <1>3
<1> QED
  BY <1>4, <1>5 DEF TableHolds

LEMMA PortStatusTable == TableHolds("port_status")
<1> DEFINE p == "port_status"
<1>0. Procedures[p] = PortStatus /\ Len(PortStatus) = 3
  BY DEF Procedures, PortStatus
<1>1. RowHolds(p, 1) /\ RowAnswers(p, 1)
  BY <1>0 DEF PortStatus, RowHolds, RowAnswers, Acquired, Base, Handles, Call, Writes, Writers, Questions
<1>2. RowHolds(p, 2) /\ RowAnswers(p, 2)
  BY <1>0 DEF PortStatus, RowHolds, RowAnswers, Acquired, Base, Handles, Call, Writes, Writers, Questions
<1>3. RowHolds(p, 3) /\ RowAnswers(p, 3)
  BY <1>0 DEF PortStatus, RowHolds, RowAnswers, Acquired, Base, Handles, Call, Writes, Writers, Questions
<1>4. EndHolds(p)
  BY <1>0 DEF PortStatus, EndHolds, Acquired, AtEnd, Handles, Call
<1>5. \A i \in 1..Len(Procedures[p]) : RowHolds(p, i) /\ RowAnswers(p, i)
  <2>1. Len(Procedures[p]) = 3
    BY <1>0
  <2>2. \A i \in 1..3 : i = 1 \/ i = 2 \/ i = 3
    OBVIOUS
  <2> QED
    BY <2>1, <2>2, <1>1, <1>2, <1>3
<1> QED
  BY <1>4, <1>5 DEF TableHolds

LEMMA PortAllowTable == TableHolds("port_allow")
<1> DEFINE p == "port_allow"
<1>0. Procedures[p] = PortAllow /\ Len(PortAllow) = 7
  BY DEF Procedures, PortAllow
<1>1. RowHolds(p, 1) /\ RowAnswers(p, 1)
  BY <1>0 DEF PortAllow, RowHolds, RowAnswers, Acquired, Base, Handles, Call, Writes, Writers, Questions
<1>2. RowHolds(p, 2) /\ RowAnswers(p, 2)
  BY <1>0 DEF PortAllow, RowHolds, RowAnswers, Acquired, Base, Handles, Call, Writes, Writers, Questions
<1>3. RowHolds(p, 3) /\ RowAnswers(p, 3)
  BY <1>0 DEF PortAllow, RowHolds, RowAnswers, Acquired, Base, Handles, Call, Writes, Writers, Questions
<1>4. RowHolds(p, 4) /\ RowAnswers(p, 4)
  BY <1>0 DEF PortAllow, RowHolds, RowAnswers, Acquired, Base, Handles, Call, Writes, Writers, Questions
<1>5. RowHolds(p, 5) /\ RowAnswers(p, 5)
  BY <1>0 DEF PortAllow, RowHolds, RowAnswers, Acquired, Base, Handles, Call, Writes, Writers, Questions
<1>6. RowHolds(p, 6) /\ RowAnswers(p, 6)
  BY <1>0 DEF PortAllow, RowHolds, RowAnswers, Acquired, Base, Handles, Call, Writes, Writers, Questions
<1>7. RowHolds(p, 7) /\ RowAnswers(p, 7)
  BY <1>0 DEF PortAllow, RowHolds, RowAnswers, Acquired, Base, Handles, Call, Writes, Writers, Questions
<1>8. EndHolds(p)
  BY <1>0 DEF PortAllow, EndHolds, Acquired, AtEnd, Handles, Call
<1>9. \A i \in 1..Len(Procedures[p]) : RowHolds(p, i) /\ RowAnswers(p, i)
  <2>1. Len(Procedures[p]) = 7
    BY <1>0
  <2>2. \A i \in 1..7 : i = 1 \/ i = 2 \/ i = 3 \/ i = 4 \/ i = 5 \/ i = 6 \/ i = 7
    OBVIOUS
  <2> QED
    BY <2>1, <2>2, <1>1, <1>2, <1>3, <1>4, <1>5, <1>6, <1>7
<1> QED
  BY <1>8, <1>9 DEF TableHolds

\* Each exit of each procedure releases what was got, and no more than that.
LEMMA TableIsSound == \A p \in DOMAIN Procedures : TableHolds(p)
<1>1. \A p \in DOMAIN Procedures :
        p = "construct" \/ p = "is_on" \/ p = "put_power" \/ p = "app_status" \/ p = "app_allow"
        \/ p = "app_disable" \/ p = "app_remove" \/ p = "port_status" \/ p = "port_allow"
  BY DEF Procedures
<1> QED
  BY <1>1, ConstructTable, IsOnTable, PutPowerTable, AppStatusTable, AppAllowTable, AppDisableTable, AppRemoveTable, PortStatusTable, PortAllowTable

LEMMA AcquiredNext ==
  ASSUME NEW p \in DOMAIN Procedures, NEW i \in 1..Len(Procedures[p])
  PROVE  Acquired(p, i + 1) = Acquired(p, i) \cup Procedures[p][i].yields
<1>1. Procedures[p][i].yields \subseteq Handles /\ Len(Procedures[p]) \in Nat
  BY TableIsSound DEF TableHolds, RowHolds, EndHolds
<1>2. \A j : j \in 1..((i + 1) - 1) <=> j \in 1..(i - 1) \/ j = i
  BY <1>1
<1> QED
  BY <1>1, <1>2 DEF Acquired

-----------------------------------------------------------------------------
(* The inductive invariant, for one user.                                   *)

Placed(u) ==
  Busy(u) =>
    /\ at[u] \in 1..(Length(u) + 1)
    /\ \/ proc[u] = First[op[u]]
       \/ op[u] \in DOMAIN Second /\ proc[u] = Second[op[u]]
    /\ target[u] \in Argument(op[u])

Holding(u) ==
  /\ op[u] = "none" => held[u] = {}
  /\ op[u] = "idle" => held[u] = {"_profile"}
  /\ Busy(u) /\ at[u] <= Length(u) => held[u] = Base(proc[u]) \cup Acquired(proc[u], at[u])
  /\ AtItsEnd(u) =>
       /\ held[u] \subseteq {"_profile"} \cup Acquired(proc[u], Length(u) + 1)
       /\ "_profile" \in held[u]

Losing(u) ==
  /\ lost[u] = IF "unnamed" \in did[u] THEN {"name"} ELSE {}
  /\ Busy(u) => "unnamed" \notin did[u]

Watching(u) == Busy(u) => rules[target[u]] \in seen[u]

Writing(u) == Busy(u) /\ "wrote" \in did[u] => AtItsEnd(u) /\ proc[u] \in Writers

\* What holds at the end of each procedure.
Ending(u) ==
  AtItsEnd(u) =>
    /\ proc[u] \in Questions /\ yes[u] =>
         "on" \in seen[u] \/ (op[u] = "port_allow" /\ "skipped" \in did[u])
    /\ proc[u] \in Questions /\ ~yes[u] /\ op[u] # "port_allow" =>
         seen[u] \cap {"off", "none"} # {} \/ "missed" \in did[u]
    /\ proc[u] = "put_power" => (IF op[u] = "turn_on" THEN "on" ELSE "off") \in seen[u]
    /\ proc[u] \in {"app_allow", "port_allow"} => "on" \in seen[u]
    /\ proc[u] = "app_disable" => "off" \in seen[u]
    /\ proc[u] = "app_remove" => "none" \in seen[u]

UInv(u) == Placed(u) /\ Holding(u) /\ Losing(u) /\ Watching(u) /\ Writing(u) /\ Ending(u)
IInv == TypeOK /\ \A u \in Users : UInv(u)

\* The procedures of a method, spelled out.
LEMMA Procedure ==
  ASSUME NEW m \in Methods
  PROVE  /\ First[m] \in Questions \cup {"construct", "app_remove"}
         /\ First[m] \in DOMAIN Procedures
         /\ m \in DOMAIN Second => First[m] \in Questions /\ Second[m] \in Writers
         /\ m \in DOMAIN Second => Second[m] \in DOMAIN Procedures
         /\ First[m] = "construct" <=> m = "firewall_t"
         /\ First[m] = "app_remove" <=> m = "app_remove"
         /\ First[m] = "is_on" <=> m \in {"is_on", "turn_on", "turn_off"}
         /\ First[m] = "app_status" <=> m \in {"app_status", "app_allow", "app_disable"}
         /\ First[m] = "port_status" <=> m \in {"port_status", "port_allow"}
         /\ m \in DOMAIN Second <=> m \in {"turn_on", "turn_off", "app_allow", "app_disable", "port_allow"}
         /\ m \in {"turn_on", "turn_off"} => Second[m] = "put_power"
         /\ m \in {"app_allow", "app_disable", "port_allow"} => Second[m] = m
  BY DEF Methods, First, Second, Procedures, Questions, Writers

LEMMA Arguments ==
  ASSUME NEW m \in Methods, NEW t \in Argument(m)
  PROVE  /\ t \in Targets \cup {Power}
         /\ m \in {"is_on", "turn_on", "turn_off", "firewall_t"} => t = Power
         /\ m \in {"port_status", "port_allow"} => t \in Openings
  BY DEF Methods, Argument, Targets

LEMMA CurrentRow ==
  ASSUME IInv, NEW u \in Users, Busy(u), at[u] <= Length(u)
  PROVE  /\ proc[u] \in DOMAIN Procedures
         /\ at[u] \in 1..Length(u)
         /\ Length(u) \in Nat
         /\ RowHolds(proc[u], at[u]) /\ RowAnswers(proc[u], at[u])
<1>1. proc[u] \in DOMAIN Procedures
  BY DEF IInv, TypeOK
<1>2. Len(Procedures[proc[u]]) \in Nat
  BY <1>1, TableIsSound DEF TableHolds, EndHolds
<1>3. at[u] \in 1..Length(u)
  BY <1>2 DEF IInv, UInv, Placed, Length
<1> QED
  BY <1>1, <1>2, <1>3, TableIsSound DEF TableHolds, Length

\* A user who does nothing keeps the invariant, whatever the others write.
LEMMA Bystander ==
  ASSUME NEW v \in Users, UInv(v),
         op'[v] = op[v], target'[v] = target[v], proc'[v] = proc[v], at'[v] = at[v],
         yes'[v] = yes[v], held'[v] = held[v], lost'[v] = lost[v], did'[v] = did[v],
         seen[v] \subseteq seen'[v],
         Busy(v) => rules'[target[v]] \in seen'[v]
  PROVE  UInv(v)'
<1>1. Placed(v)' /\ Holding(v)' /\ Losing(v)' /\ Watching(v)' /\ Writing(v)'
  BY DEF UInv, Placed, Holding, Losing, Watching, Writing, Busy, AtItsEnd, Length
<1>2. Ending(v)'
  BY DEF UInv, Ending, Busy, AtItsEnd, Length
<1> QED
  BY <1>1, <1>2 DEF UInv

LEMMA OthersKeep ==
  ASSUME IInv, NEW u \in Users, rules' = rules,
         \A v \in Users \ {u} :
           /\ op'[v] = op[v] /\ target'[v] = target[v] /\ proc'[v] = proc[v]
           /\ at'[v] = at[v] /\ yes'[v] = yes[v] /\ held'[v] = held[v]
           /\ lost'[v] = lost[v] /\ did'[v] = did[v] /\ seen'[v] = seen[v]
  PROVE  \A v \in Users \ {u} : UInv(v)'
<1> SUFFICES ASSUME NEW v \in Users \ {u} PROVE UInv(v)'
  OBVIOUS
<1>1. UInv(v) /\ v \in Users
  BY DEF IInv
<1>2. Busy(v) => rules'[target[v]] \in seen'[v]
  BY <1>1 DEF UInv, Watching
<1> QED
  BY <1>1, <1>2, Bystander

-----------------------------------------------------------------------------
(* The steps.                                                               *)

LEMMA InitHolds == Init => IInv
<1> SUFFICES ASSUME Init PROVE IInv
  OBVIOUS
<1>1. TypeOK
  BY DEF Init, TypeOK, Methods, Handles, Procedures
<1>2. \A u \in Users : op[u] = "none" /\ ~Busy(u)
  BY DEF Init, Busy, Methods
<1>3. \A u \in Users : UInv(u)
  BY <1>2 DEF Init, UInv, Placed, Holding, Losing, Watching, Writing, Ending, AtItsEnd
<1> QED
  BY <1>1, <1>3 DEF IInv

\* A method that ends with nothing but _profile, or with the BSTR of an empty name.
LEMMA ExitKeeps ==
  ASSUME IInv, NEW u \in Users, NEW h, NEW what, Exit(u, h, what),
         \/ what = {} /\ h \in {{}, {"_profile"}}
         \/ what = {"unnamed"} /\ h \in {{"name"}, {"_profile", "name"}}
  PROVE  IInv'
<1>1. TypeOK'
  BY DEF IInv, TypeOK, Exit, Handles, Procedures, Methods
<1>2. UInv(u)'
  <2>1. op'[u] \in {"idle", "none"} /\ ~Busy(u)'
    BY DEF IInv, TypeOK, Exit, Busy, Methods
  <2>2. lost'[u] = IF "unnamed" \in did'[u] THEN {"name"} ELSE {}
    BY DEF IInv, TypeOK, Exit
  <2>3. Holding(u)'
    BY <2>1 DEF IInv, TypeOK, Exit, Holding, AtItsEnd
  <2> QED
    BY <2>1, <2>2, <2>3 DEF UInv, Placed, Losing, Watching, Writing, Ending, AtItsEnd
<1>3. \A v \in Users \ {u} : UInv(v)'
  BY OthersKeep DEF IInv, TypeOK, Exit
<1> QED
  BY <1>1, <1>2, <1>3 DEF IInv

LEMMA EnterKeeps ==
  ASSUME IInv, NEW u \in Users, NEW m \in Methods, NEW t \in Argument(m), Enter(u, m, t)
  PROVE  IInv'
<1>0. /\ First[m] \in DOMAIN Procedures /\ t \in Targets \cup {Power}
      /\ EndHolds(First[m])
  BY Procedure, Arguments, TableIsSound DEF TableHolds
<1>1. TypeOK'
  BY <1>0 DEF IInv, TypeOK, Enter, Methods
<1>2. /\ op'[u] = m /\ target'[u] = t /\ proc'[u] = First[m] /\ at'[u] = 1
      /\ held'[u] = held[u] /\ lost'[u] = {} /\ did'[u] = {} /\ seen'[u] = {rules[t]}
      /\ rules' = rules
      /\ op[u] = IF m = "firewall_t" THEN "none" ELSE "idle"
  BY DEF IInv, TypeOK, Enter
<1>3. Length(u)' \in Nat \ {0} /\ ~AtItsEnd(u)'
  BY <1>0, <1>2 DEF EndHolds, Length, AtItsEnd
<1>4. held[u] = Base(First[m]) \cup Acquired(First[m], 1)
  <2>1. Acquired(First[m], 1) = {}
    BY DEF Acquired
  <2>2. First[m] = "construct" <=> m = "firewall_t"
    BY Procedure
  <2>3. Holding(u)
    BY DEF IInv, UInv
  <2> QED
    BY <1>2, <2>1, <2>2, <2>3 DEF Holding, Base
<1>5. UInv(u)'
  BY <1>2, <1>3, <1>4 DEF UInv, Placed, Holding, Losing, Watching, Writing, Ending, Methods
<1>6. \A v \in Users \ {u} : UInv(v)'
  BY OthersKeep DEF IInv, TypeOK, Enter
<1> QED
  BY <1>1, <1>5, <1>6 DEF IInv

\* A call that succeeds and writes nothing, in the middle of a procedure or, of a question,
\* at its end with the answer.
LEMMA ProceedHolds ==
  ASSUME IInv, NEW u \in Users, Busy(u), at[u] <= Length(u), Proceed(u)
  PROVE  /\ Placed(u)' /\ Holding(u)'
         /\ held' \in [Users -> SUBSET Handles] /\ at' \in [Users -> Nat]
         /\ op'[u] = op[u] /\ proc'[u] = proc[u] /\ target'[u] = target[u]
         /\ at'[u] = at[u] + 1 /\ Length(u)' = Length(u) /\ Busy(u)'
         /\ op[u] # "none"
<1> USE DEF Length
<1>1. /\ proc[u] \in DOMAIN Procedures /\ at[u] \in 1..Length(u) /\ Length(u) \in Nat
      /\ RowHolds(proc[u], at[u])
  BY CurrentRow
<1>2. Current(u).yields \subseteq Handles
  BY <1>1 DEF RowHolds, Current
<1>3. /\ held' \in [Users -> SUBSET Handles] /\ at' \in [Users -> Nat]
      /\ op'[u] = op[u] /\ proc'[u] = proc[u] /\ target'[u] = target[u]
      /\ at'[u] = at[u] + 1 /\ Length(u)' = Length(u) /\ Busy(u)'
      /\ held'[u] = held[u] \cup Current(u).yields
  BY <1>2 DEF IInv, TypeOK, Proceed, Busy
<1>4. held[u] = Base(proc[u]) \cup Acquired(proc[u], at[u])
  BY DEF IInv, UInv, Holding
<1>5. held'[u] = Base(proc[u]) \cup Acquired(proc[u], at[u] + 1)
  BY <1>1, <1>3, <1>4, AcquiredNext DEF Current
<1>6. at[u] = Length(u) => "_profile" \in held'[u]
  BY <1>1, <1>5, TableIsSound DEF TableHolds, EndHolds, Base
<1>7. Holding(u)'
  BY <1>1, <1>3, <1>5, <1>6 DEF Holding, AtItsEnd, Busy, Methods, Base
<1>8. Placed(u)'
  BY <1>1, <1>3 DEF IInv, UInv, Placed
<1> QED
  BY <1>3, <1>7, <1>8 DEF Busy, Methods

LEMMA SucceedKeeps ==
  ASSUME IInv, NEW u \in Users, Succeed(u) \/ Found(u)
  PROVE  IInv'
<1>1. /\ Busy(u) /\ at[u] <= Length(u) /\ Proceed(u)
      /\ UNCHANGED <<rules, yes, seen, did>>
      /\ Current(u).name \in Plain \cup {"Item"}
  BY DEF Succeed, Found, Calling
<1>2. /\ proc[u] \in DOMAIN Procedures /\ at[u] \in 1..Length(u) /\ Length(u) \in Nat
      /\ RowAnswers(proc[u], at[u])
  BY <1>1, CurrentRow
<1>3. /\ Placed(u)' /\ Holding(u)'
      /\ held' \in [Users -> SUBSET Handles] /\ at' \in [Users -> Nat]
      /\ op'[u] = op[u] /\ proc'[u] = proc[u] /\ target'[u] = target[u]
      /\ at'[u] = at[u] + 1 /\ Length(u)' = Length(u) /\ Busy(u)'
      /\ op[u] # "none"
  BY <1>1, ProceedHolds
<1>4. TypeOK'
  BY <1>1, <1>3 DEF IInv, TypeOK, Proceed
<1>5. AtItsEnd(u)' => proc[u] \in {"construct"}
  <2>1. AtItsEnd(u)' => at[u] = Length(u)
    BY <1>2, <1>3 DEF AtItsEnd
  <2>2. Current(u).name \notin Writes \cup {"get_Enabled", "get_FirewallEnabled"}
    BY <1>1 DEF Plain, Writes
  <2>3. proc[u] \in Questions \cup Writers \cup {"construct"}
    BY <1>2 DEF Procedures, Questions, Writers
  <2> QED
    BY <1>2, <2>1, <2>2, <2>3 DEF RowAnswers, Current, Length
<1>6. "wrote" \notin did[u]
  BY <1>1, <1>2 DEF IInv, UInv, Writing, AtItsEnd
<1>7. UInv(u)'
  <2>1. Losing(u)' /\ Watching(u)' /\ Writing(u)'
    BY <1>1, <1>3, <1>6 DEF IInv, UInv, Losing, Watching, Writing, Proceed
  <2>2. Ending(u)'
    BY <1>3, <1>5 DEF Ending, Questions
  <2> QED
    BY <1>3, <2>1, <2>2 DEF UInv
<1>8. \A v \in Users \ {u} : UInv(v)'
  BY <1>1, OthersKeep DEF IInv, TypeOK, Proceed
<1> QED
  BY <1>4, <1>7, <1>8 DEF IInv

LEMMA NotFoundKeeps ==
  ASSUME IInv, NEW u \in Users, NotFound(u)
  PROVE  IInv'
<1> USE DEF Length
<1>1. /\ Busy(u) /\ at[u] <= Length(u) /\ Current(u).name = "Item"
      /\ at'[u] = Length(u) + 1 /\ yes'[u] = FALSE
      /\ did'[u] = IF RuleOf(Asked(u)) = "none" THEN did[u] ELSE did[u] \cup {"missed"}
      /\ op' = op /\ proc' = proc /\ target' = target /\ held' = held /\ seen' = seen
      /\ rules' = rules /\ lost' = lost
  BY DEF IInv, TypeOK, NotFound, Calling
<1>2. /\ proc[u] \in DOMAIN Procedures /\ at[u] \in 1..Length(u) /\ Length(u) \in Nat
      /\ RowAnswers(proc[u], at[u])
  BY <1>1, CurrentRow
<1>3. proc[u] \in {"app_status", "port_status"}
  BY <1>1, <1>2 DEF RowAnswers, Current
<1>4. TypeOK'
  BY <1>2 DEF IInv, TypeOK, NotFound
<1>5. "wrote" \notin did[u]
  BY <1>1, <1>2 DEF IInv, UInv, Writing, AtItsEnd
<1>6. Holding(u)'
  <2>1. held[u] = {"_profile"} \cup Acquired(proc[u], at[u])
    BY <1>1, <1>3 DEF IInv, UInv, Holding, Base
  <2>2. Acquired(proc[u], at[u]) \subseteq Acquired(proc[u], Length(u) + 1)
    BY <1>2 DEF Acquired
  <2> QED
    BY <1>1, <1>2, <2>1, <2>2 DEF Holding, AtItsEnd, Busy, Methods
<1>7. Ending(u)'
  <2>1. rules[target[u]] \in seen[u] /\ target[u] \in DOMAIN rules
    BY <1>1 DEF IInv, UInv, Watching, TypeOK
  <2>2. rules[target[u]] \in Listed
    BY DEF IInv, TypeOK
  <2>3. op[u] # "port_allow" /\ RuleOf(Asked(u)) = "none" => "none" \in seen[u]
    BY <2>1 DEF RuleOf, Asked
  <2> QED
    BY <1>1, <1>3, <2>3 DEF Ending
<1>8. UInv(u)'
  <2>1. Placed(u)' /\ Losing(u)' /\ Watching(u)' /\ Writing(u)'
    BY <1>1, <1>2, <1>5
       DEF IInv, UInv, Placed, Losing, Watching, Writing, Busy
  <2> QED
    BY <1>6, <1>7, <2>1 DEF UInv
<1>9. \A v \in Users \ {u} : UInv(v)'
  BY <1>1, OthersKeep DEF IInv, TypeOK, NotFound
<1> QED
  BY <1>4, <1>8, <1>9 DEF IInv

\* The answer is the rule's that is in force when the question's last call is made.
LEMMA AnswerKeeps ==
  ASSUME IInv, NEW u \in Users, Enabled(u) \/ FirewallEnabled(u)
  PROVE  IInv'
<1> USE DEF Length
<1>1. PICK rule : Answer(u, rule) /\ Busy(u) /\ at[u] <= Length(u)
                  /\ Current(u).name \in {"get_Enabled", "get_FirewallEnabled"}
                  /\ rule = IF Current(u).name = "get_Enabled" THEN RuleOf(Asked(u))
                                                              ELSE rules[Power]
  BY DEF Enabled, FirewallEnabled, Calling
<1>2. /\ did' \in [Users -> SUBSET {"wrote", "missed", "skipped", "unnamed"}]
      /\ did[u] \subseteq did'[u] /\ did'[u] \subseteq did[u] \cup {"skipped"}
      /\ \A v \in Users \ {u} : did'[v] = did[v]
      /\ Current(u).name = "get_Enabled" /\ Asked(u) # target[u] /\ rule = "on"
            => "skipped" \in did'[u]
  <2>1. CASE Enabled(u)
    <3>1. did' = [did EXCEPT ![u] = IF Asked(u) # target[u] /\ RuleOf(Asked(u)) = "on"
                                    THEN did[u] \cup {"skipped"} ELSE did[u]]
      BY <2>1 DEF Enabled
    <3>2. Current(u).name = "get_Enabled"
      BY <2>1 DEF Enabled, Calling
    <3> QED
      BY <1>1, <3>1, <3>2 DEF IInv, TypeOK
  <2>2. CASE FirewallEnabled(u)
    BY <1>1, <2>2 DEF IInv, TypeOK, FirewallEnabled, Calling
  <2> QED
    BY <1>1, <2>1, <2>2
<1>3. /\ Proceed(u) /\ rules' = rules /\ seen' = seen
      /\ yes' = [yes EXCEPT ![u] = (rule = "on")]
  BY <1>1 DEF Answer
<1>4. yes'[u] = (rule = "on")
  BY <1>3, Zenon DEF IInv, TypeOK
<1>5. /\ proc[u] \in DOMAIN Procedures /\ at[u] \in 1..Length(u) /\ Length(u) \in Nat
      /\ RowAnswers(proc[u], at[u])
  BY <1>1, CurrentRow
<1>6. /\ Placed(u)' /\ Holding(u)'
      /\ held' \in [Users -> SUBSET Handles] /\ at' \in [Users -> Nat]
      /\ op'[u] = op[u] /\ proc'[u] = proc[u] /\ target'[u] = target[u]
      /\ at'[u] = at[u] + 1 /\ Length(u)' = Length(u) /\ Busy(u)'
      /\ op[u] # "none"
  BY <1>1, <1>3, ProceedHolds
<1>7. TypeOK'
  BY <1>2, <1>3, <1>6 DEF IInv, TypeOK, Proceed
<1>8. "wrote" \notin did[u]
  BY <1>1, <1>5 DEF IInv, UInv, Writing, AtItsEnd
<1>9. proc[u] \in Questions
  BY <1>1, <1>5 DEF RowAnswers, Current, Questions
<1>10. /\ rule \in seen[u] \/ (op[u] = "port_allow" /\ (rule = "on" => "skipped" \in did'[u]))
       /\ rule \in Listed
  <2>1. rules[target[u]] \in seen[u] /\ target[u] \in DOMAIN rules /\ rules[target[u]] \in Listed
    BY <1>1 DEF IInv, UInv, Watching, TypeOK
  <2>2. rules[Power] \in Listed
    BY DEF IInv, TypeOK
  <2>3. CASE Current(u).name = "get_Enabled"
    <3>1. rule = RuleOf(Asked(u))
      BY <1>1, <2>3
    <3>2. CASE op[u] # "port_allow" \/ Asked(u) = target[u]
      BY <2>1, <3>1, <3>2 DEF RuleOf, Asked
    <3>3. CASE op[u] = "port_allow" /\ Asked(u) # target[u]
      BY <1>2, <2>3, <3>1, <3>3 DEF RuleOf, Listed, IInv, TypeOK
    <3> QED
      BY <3>2, <3>3
  <2>4. CASE Current(u).name = "get_FirewallEnabled"
    <3>1. proc[u] = "is_on"
      BY <1>5, <2>4 DEF RowAnswers, Current
    <3>2. op[u] \in {"is_on", "turn_on", "turn_off"}
      BY <1>1, <3>1, Procedure DEF IInv, UInv, Placed, Busy, Writers
    <3>3. target[u] = Power
      BY <1>1, <3>2, Arguments DEF IInv, UInv, Placed, Busy
    <3> QED
      BY <1>1, <2>1, <2>4, <3>3
  <2> QED
    BY <1>1, <2>3, <2>4
<1>11. Ending(u)'
  <2>1. yes'[u] => "on" \in seen'[u] \/ (op'[u] = "port_allow" /\ "skipped" \in did'[u])
    BY <1>3, <1>4, <1>6, <1>10
  <2>2. ~yes'[u] /\ op'[u] # "port_allow" => seen'[u] \cap {"off", "none"} # {}
    BY <1>3, <1>4, <1>6, <1>10 DEF Listed
  <2>3. proc'[u] \in Questions
    BY <1>6, <1>9
  <2> QED
    BY <2>1, <2>2, <2>3 DEF Ending, Questions
<1>12. UInv(u)'
  <2>1. lost'[u] = lost[u]
    BY <1>3 DEF Proceed
  <2>2. Losing(u)' /\ Watching(u)' /\ Writing(u)'
    BY <1>1, <1>2, <1>3, <1>6, <1>8, <2>1
       DEF IInv, UInv, Losing, Watching, Writing
  <2> QED
    BY <1>6, <1>11, <2>2 DEF UInv
<1>13. \A v \in Users \ {u} : UInv(v)'
  BY <1>2, <1>3, OthersKeep DEF IInv, TypeOK, Proceed
<1> QED
  BY <1>7, <1>12, <1>13 DEF IInv

\* The last call of a writer: whoever is busy with the same target sees the new rule.
LEMMA WriteKeeps ==
  ASSUME IInv, NEW u \in Users, NEW r \in Listed, Write(u, r),
         Busy(u), at[u] <= Length(u), Current(u).name \in Writes,
         proc[u] = "put_power" => r = IF op[u] = "turn_on" THEN "on" ELSE "off",
         proc[u] \in {"app_allow", "port_allow"} => r = "on",
         proc[u] = "app_disable" => r = "off",
         proc[u] = "app_remove" => r = "none"
  PROVE  IInv'
<1> USE DEF Length
<1>1. /\ proc[u] \in DOMAIN Procedures /\ at[u] \in 1..Length(u) /\ Length(u) \in Nat
      /\ RowAnswers(proc[u], at[u])
  BY CurrentRow
<1>2. at[u] = Length(u) /\ proc[u] \in Writers
  BY <1>1 DEF RowAnswers, Current, Writers, Writes
<1>3. Proceed(u) /\ yes' = yes
  BY DEF Write
<1>4. /\ Placed(u)' /\ Holding(u)'
      /\ held' \in [Users -> SUBSET Handles] /\ at' \in [Users -> Nat]
      /\ op'[u] = op[u] /\ proc'[u] = proc[u] /\ target'[u] = target[u]
      /\ at'[u] = at[u] + 1 /\ Length(u)' = Length(u) /\ Busy(u)'
      /\ op[u] # "none"
  BY <1>3, ProceedHolds
<1>5. /\ rules' = [rules EXCEPT ![target[u]] = r]
      /\ target[u] \in Targets \cup {Power}
      /\ \A v \in Users : /\ seen[v] \subseteq seen'[v]
                          /\ Busy(v) /\ target[v] = target[u] => r \in seen'[v]
      /\ seen' \in [Users -> SUBSET Listed]
      /\ did'[u] = did[u] \cup {"wrote"} /\ \A v \in Users \ {u} : did'[v] = did[v]
      /\ did' \in [Users -> SUBSET {"wrote", "missed", "skipped", "unnamed"}]
  BY DEF IInv, TypeOK, Write
<1>6. TypeOK'
  BY <1>3, <1>4, <1>5 DEF IInv, TypeOK, Proceed
<1>7. rules'[target[u]] = r
  BY <1>5 DEF IInv, TypeOK
<1>8. AtItsEnd(u)'
  BY <1>2, <1>4 DEF AtItsEnd
<1>9. UInv(u)'
  <2>1. lost'[u] = lost[u]
    BY <1>3 DEF Proceed
  <2>2. Losing(u)' /\ Watching(u)' /\ Writing(u)'
    BY <1>2, <1>4, <1>5, <1>7, <1>8, <2>1 DEF IInv, UInv, Losing, Watching, Writing
  <2>3. Ending(u)'
    BY <1>2, <1>4, <1>5 DEF Ending, Questions, Writers
  <2> QED
    BY <1>4, <2>2, <2>3 DEF UInv
<1>10. \A v \in Users \ {u} : UInv(v)'
  <2> SUFFICES ASSUME NEW v \in Users \ {u} PROVE UInv(v)'
    OBVIOUS
  <2>1. /\ op'[v] = op[v] /\ target'[v] = target[v] /\ proc'[v] = proc[v] /\ at'[v] = at[v]
        /\ yes'[v] = yes[v] /\ held'[v] = held[v] /\ lost'[v] = lost[v] /\ did'[v] = did[v]
    BY <1>3, <1>5 DEF IInv, TypeOK, Proceed
  <2>2. Busy(v) => rules'[target[v]] \in seen'[v]
    <3>1. target[v] \in DOMAIN rules
      BY DEF IInv, TypeOK
    <3>2. Busy(v) => rules[target[v]] \in seen[v]
      BY DEF IInv, UInv, Watching
    <3> QED
      BY <1>5, <3>1, <3>2 DEF IInv, TypeOK
  <2> QED
    BY <1>5, <2>1, <2>2, Bystander DEF IInv
<1> QED
  BY <1>6, <1>9, <1>10 DEF IInv

LEMMA WritersKeep ==
  ASSUME IInv, NEW u \in Users, Add(u) \/ Remove(u) \/ PutFirewallEnabled(u)
  PROVE  IInv'
<1>1. /\ Busy(u) /\ at[u] <= Length(u) /\ Current(u).name \in Writes
  BY DEF Add, Remove, PutFirewallEnabled, Calling, Writes
<1>2. RowAnswers(proc[u], at[u])
  BY <1>1, CurrentRow
<1>3. CASE Add(u)
  <2>1. proc[u] \in {"app_allow", "app_disable", "port_allow"}
    BY <1>2, <1>3 DEF Add, Calling, RowAnswers, Current
  <2> QED
    BY <1>1, <1>3, <2>1, WriteKeeps DEF Add, Listed
<1>4. CASE Remove(u)
  <2>1. proc[u] = "app_remove"
    BY <1>2, <1>4 DEF Remove, Calling, RowAnswers, Current
  <2> QED
    BY <1>1, <1>4, <2>1, WriteKeeps DEF Remove, Listed
<1>5. CASE PutFirewallEnabled(u)
  <2>1. proc[u] = "put_power"
    BY <1>2, <1>5 DEF PutFirewallEnabled, Calling, RowAnswers, Current
  <2> QED
    BY <1>1, <1>5, <2>1, WriteKeeps DEF PutFirewallEnabled, Listed
<1> QED
  BY <1>3, <1>4, <1>5

LEMMA FailKeeps ==
  ASSUME IInv, NEW u \in Users, Fail(u) \/ EmptyName(u)
  PROVE  IInv'
<1>1. Busy(u) /\ at[u] <= Length(u) /\ Current(u).name # "Item"
  BY DEF Fail, EmptyName, Calling
<1>2. RowHolds(proc[u], at[u])
  BY <1>1, CurrentRow
<1>3. held[u] = Base(proc[u]) \cup Acquired(proc[u], at[u])
  BY <1>1 DEF IInv, UInv, Holding
<1>4. /\ Acquired(proc[u], at[u]) \subseteq Current(u).release
      /\ "_profile" \notin Current(u).release
  BY <1>1, <1>2 DEF RowHolds, Current
<1>5. CASE Fail(u)
  <2>1. held[u] \ Current(u).release \in {{}, {"_profile"}}
    BY <1>3, <1>4 DEF Base
  <2> QED
    BY <1>5, <2>1, ExitKeeps DEF Fail
<1>6. CASE EmptyName(u)
  <2>1. /\ Current(u).yields = {"name"} /\ "name" \notin Current(u).release
        /\ proc[u] # "construct"
    BY <1>2, <1>6 DEF EmptyName, Calling, RowHolds, Current
  <2>2. (held[u] \cup Current(u).yields) \ Current(u).release = {"_profile", "name"}
    BY <1>3, <1>4, <2>1 DEF Base
  <2> QED
    BY <1>6, <2>2, ExitKeeps DEF EmptyName
<1> QED
  BY <1>5, <1>6

\* What a user holds where a procedure ends, once it has released what it should.
LEMMA EndLeavesProfile ==
  ASSUME IInv, NEW u \in Users, AtItsEnd(u)
  PROVE  /\ held[u] \ AtEnd[proc[u]] = {"_profile"}
         /\ proc[u] \in DOMAIN Procedures
<1>1. proc[u] \in DOMAIN Procedures
  BY DEF IInv, TypeOK
<1>2. EndHolds(proc[u])
  BY <1>1, TableIsSound DEF TableHolds
<1>3. /\ held[u] \subseteq {"_profile"} \cup Acquired(proc[u], Length(u) + 1)
      /\ "_profile" \in held[u]
  BY DEF IInv, UInv, Holding
<1> QED
  BY <1>1, <1>2, <1>3 DEF EndHolds, Length

LEMMA ReturnKeeps ==
  ASSUME IInv, NEW u \in Users, Return(u)
  PROVE  IInv'
BY EndLeavesProfile, ExitKeeps DEF Return

LEMMA GoOnKeeps ==
  ASSUME IInv, NEW u \in Users, GoOn(u)
  PROVE  IInv'
<1>1. /\ AtItsEnd(u) /\ GoesOn(u) /\ Busy(u)
      /\ held[u] \ AtEnd[proc[u]] = {"_profile"}
  BY EndLeavesProfile DEF GoOn, AtItsEnd
<1>2. /\ held'[u] = {"_profile"} /\ proc'[u] = Second[op[u]] /\ at'[u] = 1
      /\ op' = op /\ target' = target /\ rules' = rules /\ yes' = yes /\ lost' = lost
      /\ seen' = seen /\ did' = did
  BY <1>1 DEF IInv, TypeOK, GoOn
<1>3. /\ op[u] \in DOMAIN Second /\ Second[op[u]] \in DOMAIN Procedures
      /\ Second[op[u]] # "construct" /\ proc[u] \in Questions
  BY <1>1, Procedure DEF GoesOn, Busy, Writers
<1>4. Length(u)' \in Nat \ {0} /\ ~AtItsEnd(u)'
  BY <1>2, <1>3, TableIsSound DEF TableHolds, EndHolds, Length, AtItsEnd
<1>5. TypeOK'
  BY <1>3, EndLeavesProfile DEF IInv, TypeOK, GoOn, AtItsEnd, Handles
<1>6. "wrote" \notin did[u]
  BY <1>1, <1>3 DEF IInv, UInv, Writing, Questions, Writers
<1>7. Holding(u)'
  <2>1. Acquired(Second[op[u]], 1) = {}
    BY DEF Acquired
  <2> QED
    BY <1>1, <1>2, <1>3, <1>4, <2>1 DEF Holding, Base, Busy, Methods
<1>8. UInv(u)'
  <2>1. Placed(u)' /\ Losing(u)' /\ Watching(u)' /\ Writing(u)'
    BY <1>1, <1>2, <1>3, <1>4, <1>6
       DEF IInv, UInv, Placed, Losing, Watching, Writing, Busy
  <2> QED
    BY <1>4, <1>7, <2>1 DEF UInv, Ending
<1>9. \A v \in Users \ {u} : UInv(v)'
  BY <1>2, OthersKeep DEF IInv, TypeOK, GoOn
<1> QED
  BY <1>5, <1>8, <1>9 DEF IInv

LEMMA DestroyKeeps ==
  ASSUME IInv, NEW u \in Users, Destroy(u)
  PROVE  IInv'
<1>1. /\ held[u] = {"_profile"} /\ held'[u] = {} /\ op'[u] = "none" /\ ~Busy(u)'
      /\ lost' = lost /\ did' = did /\ rules' = rules
  BY DEF IInv, UInv, Holding, TypeOK, Destroy, Busy, Methods
<1>2. TypeOK'
  BY <1>1 DEF IInv, TypeOK, Destroy
<1>3. UInv(u)'
  BY <1>1 DEF IInv, UInv, Placed, Holding, Losing, Watching, Writing, Ending, AtItsEnd
<1>4. \A v \in Users \ {u} : UInv(v)'
  BY <1>1, OthersKeep DEF IInv, TypeOK, Destroy
<1> QED
  BY <1>2, <1>3, <1>4 DEF IInv

LEMMA NextKeeps == IInv /\ [Next]_vars => IInv'
<1> SUFFICES ASSUME IInv, [Next]_vars PROVE IInv'
  OBVIOUS
<1>1. ASSUME NEW u \in Users, NEW m \in Methods, NEW t \in Argument(m), Enter(u, m, t)
      PROVE  IInv'
  BY <1>1, EnterKeeps
<1>2. ASSUME NEW u \in Users, Step(u) PROVE IInv'
  BY <1>2, SucceedKeeps, NotFoundKeeps, AnswerKeeps, WritersKeep, FailKeeps, GoOnKeeps,
     ReturnKeeps, DestroyKeeps DEF Step
<1>3. CASE UNCHANGED vars
  <2>1. \A u \in Users : UInv(u)'
    BY <1>3, Bystander DEF IInv, UInv, Watching, vars
  <2>2. TypeOK'
    BY <1>3 DEF IInv, TypeOK, vars
  <2> QED
    BY <2>1, <2>2 DEF IInv
<1> QED
  BY <1>1, <1>2, <1>3 DEF Next

LEMMA Invariance == Spec => []IInv
BY InitHolds, NextKeeps, PTL DEF Spec

-----------------------------------------------------------------------------
(* The theorems.                                                            *)

\* Variables keep their types; where there is no object it holds nothing
\* (firewall.hpp:112-156).
THEOREM FirewallTypeCorrect == Spec => []TypeOK
BY Invariance, PTL DEF IInv

\* Whichever COM call fails, in whatever method, every reference and string is released
\* once, but the BSTR of an empty name (firewall.hpp:362, 469, 674).
THEOREM FirewallReleases == Spec => []Released
<1>1. IInv => Released
  BY DEF IInv, UInv, Losing, Released
<1> QED
  BY <1>1, Invariance, PTL

\* No method calls through a reference it has not got or has released.
THEOREM FirewallUsesHeld == Spec => []UsesHeld
<1>1. IInv => UsesHeld
  <2> SUFFICES ASSUME IInv, NEW u \in Users
               PROVE  /\ op[u] = "idle" => "_profile" \in held[u]
                      /\ Busy(u) /\ at[u] <= Length(u) => Current(u).uses \subseteq held[u]
    BY DEF UsesHeld
  <2>1. op[u] = "idle" => "_profile" \in held[u]
    BY DEF IInv, UInv, Holding
  <2>2. ASSUME Busy(u), at[u] <= Length(u) PROVE Current(u).uses \subseteq held[u]
    <3>1. held[u] = Base(proc[u]) \cup Acquired(proc[u], at[u])
      BY <2>2 DEF IInv, UInv, Holding
    <3> QED
      BY <2>2, <3>1, CurrentRow DEF RowHolds, Current
  <2> QED
    BY <2>1, <2>2
<1> QED
  BY <1>1, Invariance, PTL

\* A method that throws has changed no rule: the call that does is its last.
THEOREM FirewallAllOrNothing == Spec => []AllOrNothing
<1>1. IInv => AllOrNothing
  <2> SUFFICES ASSUME IInv, NEW u \in Users, Busy(u), "wrote" \in did[u]
               PROVE  AtItsEnd(u) /\ ~GoesOn(u)
    BY DEF AllOrNothing
  <2>1. AtItsEnd(u) /\ proc[u] \in Writers
    BY DEF IInv, UInv, Writing
  <2>2. op[u] \in DOMAIN Second => First[op[u]] \in Questions
    BY Procedure DEF Busy
  <2> QED
    BY <2>1, <2>2 DEF GoesOn, Questions, Writers
<1> QED
  BY <1>1, Invariance, PTL

\* What a method that returns has promised held at some moment of the call, whatever the
\* other users of the system's firewall did; the two exceptions are in Promise.
THEOREM FirewallPromises == Spec => []Promised
<1>1. IInv => Promised
  <2> SUFFICES ASSUME IInv, NEW u \in Users, AtItsEnd(u), ~GoesOn(u)
               PROVE  Promise(u)
    BY DEF Promised
  <2>1. /\ op[u] \in Methods /\ yes[u] \in BOOLEAN
        /\ \/ proc[u] = First[op[u]]
           \/ op[u] \in DOMAIN Second /\ proc[u] = Second[op[u]]
    BY DEF IInv, UInv, Placed, TypeOK, AtItsEnd, Busy
  <2>2. Ending(u)
    BY DEF IInv, UInv
  <2>3. CASE op[u] \in DOMAIN Second /\ proc[u] = Second[op[u]]
    BY <2>1, <2>2, <2>3, Procedure DEF Ending, Promise
  <2>4. CASE op[u] \in DOMAIN Second /\ proc[u] = First[op[u]]
    <3>1. yes[u] # (op[u] \in NeedsYes)
      BY <2>4 DEF GoesOn
    <3>2. proc[u] \in Questions
      BY <2>1, <2>4, Procedure
    <3>3. op[u] \in NeedsYes <=> op[u] \in {"turn_off", "app_disable"}
      BY DEF NeedsYes
    <3>4. op[u] \in {"turn_on", "turn_off", "app_allow", "app_disable", "port_allow"}
      BY <2>1, <2>4, Procedure
    <3>5. IF op[u] \in {"turn_off", "app_disable"} THEN ~yes[u] ELSE yes[u]
      BY <2>1, <3>1, <3>3
    <3> QED
      BY <2>2, <3>2, <3>4, <3>5 DEF Ending, Promise
  <2>5. CASE op[u] \notin DOMAIN Second
    <3>1. op[u] \in {"firewall_t", "is_on", "app_status", "app_remove", "port_status"}
      BY <2>1, <2>5, Procedure DEF Methods
    <3>2. op[u] \in {"is_on", "app_status", "port_status"} => proc[u] \in Questions
      BY <2>1, <2>5, Procedure DEF Questions
    <3>3. op[u] = "app_remove" => proc[u] = "app_remove"
      BY <2>1, <2>5, Procedure
    <3> QED
      BY <2>1, <2>2, <3>1, <3>2, <3>3 DEF Ending, Promise
  <2> QED
    BY <2>1, <2>3, <2>4, <2>5
<1> QED
  BY <1>1, Invariance, PTL
=============================================================================
