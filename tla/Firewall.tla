------------------------------ MODULE Firewall ------------------------------
(***************************************************************************)
(* firewall_t (src/include/kg/windows/firewall.hpp): an object that asks   *)
(* the Windows firewall, through COM, what it lets pass, and changes it.   *)
(* Every COM call may fail; each has its own clean-up and exception.  The  *)
(* rules belong to the system: the objects of other threads and processes  *)
(* change them between two calls of one method.                            *)
(*                                                                         *)
(* A method runs one or two procedures (app_allow: app_status, then its    *)
(* own).  A procedure is a table of its COM calls in order, with the       *)
(* references each uses, the one it yields, and those the code releases    *)
(* when it fails.  The service itself is external.                         *)
(***************************************************************************)
EXTENDS Integers, Sequences

CONSTANTS
  Users,      \* threads, each with a firewall_t of its own
  Apps,       \* paths of programs
  Openings,   \* pairs of a port and a NET_FW_IP_PROTOCOL
  AnyIp,      \* NET_FW_IP_PROTOCOL_ANY
  Power       \* the switch of the firewall, as a target

Targets == Apps \cup Openings

ASSUME FirewallAssumption ==
  /\ Openings \subseteq Nat \X Nat
  /\ AnyIp \in Nat
  /\ Apps \cap Openings = {}
  /\ Power \notin Targets

VARIABLES
  rules,    \* the system's: what is listed for a target; whether the firewall is on
  op,       \* per user: the method that is running, "idle", or "none" before and after the object
  target,   \* the argument of the method
  proc,     \* the procedure it is in
  at,       \* the call of the procedure that comes next
  yes,      \* the local yes, or fwEnabled of is_on
  held,     \* COM references and BSTRs the object and its locals hold
  lost,     \* history: those the last method did not release
  seen,     \* history: what was listed for target at some time during the method
  did       \* history: what happened in the method ("wrote", "missed", "skipped", "unnamed")

vars == <<rules, op, target, proc, at, yes, held, lost, seen, did>>

\* "on" is a rule in force (or the firewall switched on), "off" one that is listed but
\* disabled, "none" no rule.
Listed == {"on", "off", "none"}

Methods == {"firewall_t", "is_on", "turn_off", "turn_on", "app_status", "app_allow",
            "app_disable", "app_remove", "port_status", "port_allow"}

-----------------------------------------------------------------------------
(* The procedures: what a call uses, yields, and leaves to be released if   *)
(* it fails.  KG_SAFE_RELEASE passes over a reference that is null.         *)

Call(name, uses, yields, release) ==
  [name |-> name, uses |-> uses, yields |-> yields, release |-> release]

Construct ==
  << Call("CoCreateInstance", {}, {"fwMgr"}, {"fwMgr", "fwPolicy"}),
     Call("get_LocalPolicy", {"fwMgr"}, {"fwPolicy"}, {"fwMgr", "fwPolicy"}),
     Call("get_CurrentProfile", {"fwPolicy"}, {"_profile"}, {"fwMgr", "fwPolicy"}) >>

IsOn == << Call("get_FirewallEnabled", {"_profile"}, {}, {}) >>

PutPower == << Call("put_FirewallEnabled", {"_profile"}, {}, {}) >>

AppStatus ==
  << Call("get_AuthorizedApplications", {"_profile"}, {"fwApps"}, {}),
     Call("SysAllocString", {}, {"path"}, {"fwApps"}),
     Call("Item", {"fwApps", "path"}, {"fwApp"}, {}),
     Call("get_Enabled", {"fwApp"}, {}, {"path", "fwApp", "fwApps"}) >>

\* variant: an exit that forgets the path
AppAllowForgets ==
  << Call("get_AuthorizedApplications", {"_profile"}, {"fwApps"}, {}),
     Call("CoCreateInstance", {}, {"fwApp"}, {"fwApps"}),
     Call("SysAllocString", {}, {"path"}, {"fwApp", "fwApps"}),
     Call("put_ProcessImageFileName", {"fwApp", "path"}, {}, {"fwApp", "fwApps", "path"}),
     Call("AllocName", {}, {"name"}, {"fwApp", "fwApps", "path"}),
     Call("put_Name", {"fwApp", "name"}, {}, {"fwApp", "fwApps", "name"}),
     Call("Add", {"fwApps", "fwApp"}, {}, {"fwApp", "fwApps", "path", "name"}) >>

AppAllow ==
  << Call("get_AuthorizedApplications", {"_profile"}, {"fwApps"}, {}),
     Call("CoCreateInstance", {}, {"fwApp"}, {"fwApps"}),
     Call("SysAllocString", {}, {"path"}, {"fwApp", "fwApps"}),
     Call("put_ProcessImageFileName", {"fwApp", "path"}, {}, {"fwApp", "fwApps", "path"}),
     Call("AllocName", {}, {"name"}, {"fwApp", "fwApps", "path"}),
     Call("put_Name", {"fwApp", "name"}, {}, {"fwApp", "fwApps", "path", "name"}),
     Call("Add", {"fwApps", "fwApp"}, {}, {"fwApp", "fwApps", "path", "name"}) >>

\* variant: the application is added before it is disabled
AppDisableEarly ==
  << Call("get_AuthorizedApplications", {"_profile"}, {"fwApps"}, {}),
     Call("CoCreateInstance", {}, {"fwApp"}, {"fwApps"}),
     Call("SysAllocString", {}, {"path"}, {"fwApp", "fwApps"}),
     Call("put_ProcessImageFileName", {"fwApp", "path"}, {}, {"fwApp", "fwApps", "path"}),
     Call("AllocName", {}, {"name"}, {"fwApp", "fwApps", "path"}),
     Call("put_Name", {"fwApp", "name"}, {}, {"fwApp", "fwApps", "path", "name"}),
     Call("Add", {"fwApps", "fwApp"}, {}, {"fwApp", "fwApps", "path", "name"}),
     Call("put_Enabled", {"fwApp"}, {}, {"fwApp", "fwApps", "path", "name"}) >>

AppDisable ==
  << Call("get_AuthorizedApplications", {"_profile"}, {"fwApps"}, {}),
     Call("CoCreateInstance", {}, {"fwApp"}, {"fwApps"}),
     Call("SysAllocString", {}, {"path"}, {"fwApp", "fwApps"}),
     Call("put_ProcessImageFileName", {"fwApp", "path"}, {}, {"fwApp", "fwApps", "path"}),
     Call("AllocName", {}, {"name"}, {"fwApp", "fwApps", "path"}),
     Call("put_Name", {"fwApp", "name"}, {}, {"fwApp", "fwApps", "path", "name"}),
     Call("put_Enabled", {"fwApp"}, {}, {"fwApp", "fwApps", "path", "name"}),
     Call("Add", {"fwApps", "fwApp"}, {}, {"fwApp", "fwApps", "path", "name"}) >>

AppRemove ==
  << Call("get_AuthorizedApplications", {"_profile"}, {"fwApps"}, {}),
     Call("SysAllocString", {}, {"path"}, {"fwApps"}),
     Call("Remove", {"fwApps", "path"}, {}, {"fwApps", "path"}) >>

PortStatus ==
  << Call("get_GloballyOpenPorts", {"_profile"}, {"fwOpenPorts"}, {}),
     Call("Item", {"fwOpenPorts"}, {"fwOpenPort"}, {}),
     Call("get_Enabled", {"fwOpenPort"}, {}, {"fwOpenPort", "fwOpenPorts"}) >>

PortAllow ==
  << Call("get_GloballyOpenPorts", {"_profile"}, {"fwOpenPorts"}, {}),
     Call("CoCreateInstance", {}, {"fwOpenPort"}, {"fwOpenPorts"}),
     Call("put_Port", {"fwOpenPort"}, {}, {"fwOpenPort", "fwOpenPorts"}),
     Call("put_Protocol", {"fwOpenPort"}, {}, {"fwOpenPort", "fwOpenPorts"}),
     Call("AllocName", {}, {"name"}, {"fwOpenPort", "fwOpenPorts"}),
     Call("put_Name", {"fwOpenPort", "name"}, {}, {"name", "fwOpenPort", "fwOpenPorts"}),
     Call("Add", {"fwOpenPorts", "fwOpenPort"}, {}, {"name", "fwOpenPort", "fwOpenPorts"}) >>

Procedures ==
  [construct |-> Construct, is_on |-> IsOn, put_power |-> PutPower,
   app_status |-> AppStatus, app_allow |-> AppAllow, app_disable |-> AppDisable,
   app_remove |-> AppRemove, port_status |-> PortStatus, port_allow |-> PortAllow]

\* variant: the first procedure releases what the second one needs
AtEndProfile ==
  [construct |-> {"fwMgr", "fwPolicy"}, is_on |-> {"_profile"}, put_power |-> {},
   app_status |-> {"path", "fwApp", "fwApps", "_profile"},
   app_allow |-> {"fwApp", "fwApps", "path", "name"},
   app_disable |-> {"fwApp", "fwApps", "path", "name"},
   app_remove |-> {"fwApps", "path"},
   port_status |-> {"fwOpenPort", "fwOpenPorts"},
   port_allow |-> {"name", "fwOpenPort", "fwOpenPorts"}]

\* What a procedure releases at its end.
AtEnd ==
  [construct |-> {"fwMgr", "fwPolicy"}, is_on |-> {}, put_power |-> {},
   app_status |-> {"path", "fwApp", "fwApps"},
   app_allow |-> {"fwApp", "fwApps", "path", "name"},
   app_disable |-> {"fwApp", "fwApps", "path", "name"},
   app_remove |-> {"fwApps", "path"},
   port_status |-> {"fwOpenPort", "fwOpenPorts"},
   port_allow |-> {"name", "fwOpenPort", "fwOpenPorts"}]

\* The procedures of a method: the question it asks first, and what it does then.
First ==
  [firewall_t |-> "construct", is_on |-> "is_on", turn_off |-> "is_on", turn_on |-> "is_on",
   app_status |-> "app_status", app_allow |-> "app_status", app_disable |-> "app_status",
   app_remove |-> "app_remove", port_status |-> "port_status", port_allow |-> "port_status"]

Second ==
  [turn_off |-> "put_power", turn_on |-> "put_power", app_allow |-> "app_allow",
   app_disable |-> "app_disable", port_allow |-> "port_allow"]

\* variant: app_disable tests the answer as app_allow does
NeedsYesOff == {"turn_off"}

\* The answer on which a method goes on to its second procedure.
NeedsYes == {"turn_off", "app_disable"}

Argument(m) ==
  CASE m \in {"app_status", "app_allow", "app_disable", "app_remove"} -> Apps
    [] m \in {"port_status", "port_allow"} -> Openings
    [] OTHER -> {Power}

-----------------------------------------------------------------------------
(* The state of a call.                                                     *)

Busy(u) == op[u] \in Methods
Length(u) == Len(Procedures[proc[u]])
Current(u) == Procedures[proc[u]][at[u]]
Calling(u, name) == Busy(u) /\ at[u] <= Length(u) /\ Current(u).name = name
AtItsEnd(u) == Busy(u) /\ at[u] = Length(u) + 1
GoesOn(u) ==
  /\ op[u] \in DOMAIN Second
  /\ proc[u] = First[op[u]]
  /\ yes[u] = (op[u] \in NeedsYes)

\* The rule a question is about.  port_allow(name, port, protocol) calls
\* port_status(protocol): it asks about the port of that number, for any protocol.
Asked(u) == IF op[u] = "port_allow" THEN <<target[u][2], AnyIp>> ELSE target[u]
RuleOf(t) == IF t \in DOMAIN rules THEN rules[t] ELSE "none"

-----------------------------------------------------------------------------
(* The actions.                                                             *)

Init ==
  /\ rules \in [Targets \cup {Power} -> Listed]
  /\ rules[Power] # "none"
  /\ op = [u \in Users |-> "none"]
  /\ target = [u \in Users |-> Power]
  /\ proc = [u \in Users |-> "construct"]
  /\ at = [u \in Users |-> 1]
  /\ yes = [u \in Users |-> FALSE]
  /\ held = [u \in Users |-> {}]
  /\ lost = [u \in Users |-> {}]
  /\ seen = [u \in Users |-> {}]
  /\ did = [u \in Users |-> {}]

\* A user calls a method; the constructor when it has no object.
Enter(u, m, t) ==
  /\ op[u] = IF m = "firewall_t" THEN "none" ELSE "idle"
  /\ op' = [op EXCEPT ![u] = m]
  /\ target' = [target EXCEPT ![u] = t]
  /\ proc' = [proc EXCEPT ![u] = First[m]]
  /\ at' = [at EXCEPT ![u] = 1]
  /\ yes' = [yes EXCEPT ![u] = FALSE]
  /\ lost' = [lost EXCEPT ![u] = {}]
  /\ seen' = [seen EXCEPT ![u] = {rules[t]}]
  /\ did' = [did EXCEPT ![u] = {}]
  /\ UNCHANGED <<rules, held>>

\* The method ends, by a return or an exception, with what it still holds in h: its locals
\* go out of scope.
Exit(u, h, what) ==
  /\ op' = [op EXCEPT ![u] = IF "_profile" \in h THEN "idle" ELSE "none"]
  /\ held' = [held EXCEPT ![u] = h \cap {"_profile"}]
  /\ lost' = [lost EXCEPT ![u] = h \ {"_profile"}]
  /\ did' = [did EXCEPT ![u] = what]
  /\ target' = [target EXCEPT ![u] = Power]
  /\ proc' = [proc EXCEPT ![u] = "construct"]
  /\ at' = [at EXCEPT ![u] = 1]
  /\ yes' = [yes EXCEPT ![u] = FALSE]
  /\ seen' = [seen EXCEPT ![u] = {}]
  /\ UNCHANGED rules

\* The call succeeds and changes no rule.
Proceed(u) ==
  /\ held' = [held EXCEPT ![u] = @ \cup Current(u).yields]
  /\ at' = [at EXCEPT ![u] = @ + 1]
  /\ UNCHANGED <<op, target, proc, lost>>

Plain == {"CoCreateInstance", "get_LocalPolicy", "get_CurrentProfile",
          "get_AuthorizedApplications", "get_GloballyOpenPorts", "SysAllocString",
          "AllocName", "put_ProcessImageFileName", "put_Name", "put_Port", "put_Protocol",
          "put_Enabled"}

Succeed(u) ==
  /\ \E name \in Plain : Calling(u, name)
  /\ Proceed(u)
  /\ UNCHANGED <<rules, yes, seen, did>>

\* Item finds the rule.
Found(u) ==
  /\ Calling(u, "Item")
  /\ RuleOf(Asked(u)) # "none"
  /\ Proceed(u)
  /\ UNCHANGED <<rules, yes, seen, did>>

\* Item fails: there is no such rule, or the service failed; the code takes one for the
\* other.
NotFound(u) ==
  /\ Calling(u, "Item")
  /\ at' = [at EXCEPT ![u] = Length(u) + 1]
  /\ yes' = [yes EXCEPT ![u] = FALSE]
  /\ did' = [did EXCEPT ![u] = IF RuleOf(Asked(u)) = "none" THEN @ ELSE @ \cup {"missed"}]
  /\ UNCHANGED <<rules, op, target, proc, held, lost, seen>>

Answer(u, rule) ==
  /\ Proceed(u)
  /\ yes' = [yes EXCEPT ![u] = (rule = "on")]
  /\ UNCHANGED <<rules, seen>>

\* get_Enabled of the rule Item has found, which may have gone since.
Enabled(u) ==
  /\ Calling(u, "get_Enabled")
  /\ Answer(u, RuleOf(Asked(u)))
  /\ did' = [did EXCEPT ![u] = IF Asked(u) # target[u] /\ RuleOf(Asked(u)) = "on"
                                THEN @ \cup {"skipped"} ELSE @]

FirewallEnabled(u) ==
  /\ Calling(u, "get_FirewallEnabled")
  /\ Answer(u, rules[Power])
  /\ UNCHANGED did

\* u's call makes the rule for its target r; whoever is busy with that target may see it.
Write(u, r) ==
  /\ Proceed(u)
  /\ rules' = [rules EXCEPT ![target[u]] = r]
  /\ seen' = [v \in Users |-> IF Busy(v) /\ target[v] = target[u] THEN seen[v] \cup {r}
                                                              ELSE seen[v]]
  /\ did' = [did EXCEPT ![u] = @ \cup {"wrote"}]
  /\ UNCHANGED yes

Add(u) ==
  /\ Calling(u, "Add")
  /\ Write(u, IF proc[u] = "app_disable" THEN "off" ELSE "on")

Remove(u) == Calling(u, "Remove") /\ Write(u, "none")

PutFirewallEnabled(u) ==
  /\ Calling(u, "put_FirewallEnabled")
  /\ Write(u, IF op[u] = "turn_on" THEN "on" ELSE "off")

\* The call fails and the method throws.
Fail(u) ==
  /\ Busy(u) /\ at[u] <= Length(u)
  /\ ~Calling(u, "Item")
  /\ Exit(u, held[u] \ Current(u).release, {})

\* SysAllocString made a BSTR of an empty name: the code takes its length 0 for a failure.
EmptyName(u) ==
  /\ Calling(u, "AllocName")
  /\ Exit(u, (held[u] \cup Current(u).yields) \ Current(u).release, {"unnamed"})

\* The question is answered and the method goes on to its second procedure.
GoOn(u) ==
  /\ AtItsEnd(u) /\ GoesOn(u)
  /\ held' = [held EXCEPT ![u] = @ \ AtEnd[proc[u]]]
  /\ proc' = [proc EXCEPT ![u] = Second[op[u]]]
  /\ at' = [at EXCEPT ![u] = 1]
  /\ UNCHANGED <<rules, op, target, yes, lost, seen, did>>

Return(u) ==
  /\ AtItsEnd(u) /\ ~GoesOn(u)
  /\ Exit(u, held[u] \ AtEnd[proc[u]], {})

\* variant: the destructor forgets _profile
DestroyForgets(u) ==
  /\ op[u] = "idle"
  /\ op' = [op EXCEPT ![u] = "none"]
  /\ UNCHANGED <<rules, target, proc, at, yes, held, lost, seen, did>>

\* The destructor.
Destroy(u) ==
  /\ op[u] = "idle"
  /\ op' = [op EXCEPT ![u] = "none"]
  /\ held' = [held EXCEPT ![u] = @ \ {"_profile"}]
  /\ UNCHANGED <<rules, target, proc, at, yes, lost, seen, did>>

Step(u) ==
  \/ Succeed(u) \/ Found(u) \/ NotFound(u) \/ Enabled(u) \/ FirewallEnabled(u)
  \/ Add(u) \/ Remove(u) \/ PutFirewallEnabled(u)
  \/ Fail(u) \/ EmptyName(u) \/ GoOn(u) \/ Return(u) \/ Destroy(u)

Next ==
  \E u \in Users :
    \/ \E m \in Methods : \E t \in Argument(m) : Enter(u, m, t)
    \/ Step(u)

Spec == Init /\ [][Next]_vars

-----------------------------------------------------------------------------
(* Properties.                                                              *)

Handles == {"fwMgr", "fwPolicy", "_profile", "fwApps", "fwApp", "path", "name",
            "fwOpenPorts", "fwOpenPort"}

\* Every variable has its type, and where there is no object it holds nothing.
TypeOK ==
  /\ rules \in [Targets \cup {Power} -> Listed]
  /\ op \in [Users -> Methods \cup {"idle", "none"}]
  /\ target \in [Users -> Targets \cup {Power}]
  /\ proc \in [Users -> DOMAIN Procedures]
  /\ at \in [Users -> Nat]
  /\ yes \in [Users -> BOOLEAN]
  /\ held \in [Users -> SUBSET Handles]
  /\ \A u \in Users : op[u] = "none" => held[u] = {}
  /\ lost \in [Users -> SUBSET Handles]
  /\ seen \in [Users -> SUBSET Listed]
  /\ did \in [Users -> SUBSET {"wrote", "missed", "skipped", "unnamed"}]

\* Whichever call fails, a method releases every reference and string it got, but the BSTR
\* of an empty name, whose length the code tests in place of the pointer (firewall.hpp:362,
\* 469, 674).
Released == \A u \in Users : lost[u] = IF "unnamed" \in did[u] THEN {"name"} ELSE {}

\* A method calls through references it holds: not before it got them, not after it
\* released them, and _profile as long as the object lives.
UsesHeld ==
  \A u \in Users :
    /\ op[u] = "idle" => "_profile" \in held[u]
    /\ Busy(u) /\ at[u] <= Length(u) => Current(u).uses \subseteq held[u]

\* All or nothing: a method changes a rule by its last call, so one that throws has changed
\* none.
AllOrNothing ==
  \A u \in Users : Busy(u) /\ "wrote" \in did[u] => AtItsEnd(u) /\ ~GoesOn(u)

\* What a method that returns has promised was so at some moment of the call, whatever
\* other users did meanwhile; the answer of a question was right at some moment.  Not so
\* where Item failed for a rule that is listed ("missed"), and for port_allow, which asks
\* about another port than its own and adds nothing when that one is open ("skipped",
\* firewall.hpp:625).
Promise(u) ==
  CASE op[u] \in {"turn_on", "app_allow"} -> "on" \in seen[u]
    [] op[u] = "port_allow" -> "on" \in seen[u] \/ "skipped" \in did[u]
    [] op[u] \in {"turn_off", "app_disable"} ->
         seen[u] \cap {"off", "none"} # {} \/ "missed" \in did[u]
    [] op[u] = "app_remove" -> "none" \in seen[u]
    [] op[u] \in {"is_on", "app_status", "port_status"} ->
         \/ yes[u] /\ "on" \in seen[u]
         \/ ~yes[u] /\ (seen[u] \cap {"off", "none"} # {} \/ "missed" \in did[u])
    [] OTHER -> TRUE

Promised == \A u \in Users : AtItsEnd(u) /\ ~GoesOn(u) => Promise(u)

=============================================================================
