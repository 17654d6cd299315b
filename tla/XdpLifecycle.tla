---------------------------- MODULE XdpLifecycle ----------------------------
(***************************************************************************)
(* Loading, replacing and resizing the XDP program of one interface: by    *)
(* the agent, at its start and when a policy outgrows the maps, and by the *)
(* command-line tool.  The interface, the pin directory and xdp-loader's   *)
(* table are shared; every external command is a step that may fail, and   *)
(* the other process, an operator or another program's owner may act       *)
(* between any two.                                                        *)
(*                                                                         *)
(* The eleven maps of an object are one map set.  A policy is the number   *)
(* of entries it needs, 0 is the empty one.  The driver and the generic    *)
(* mode of auto attach are one attempt.                                    *)
(***************************************************************************)
EXTENDS Integers, FiniteSets

CONSTANTS
  Strategies,       \* attach strategies to consider, of "direct", "dispatcher"
  Policies,         \* sizes of policies
  InitCap,          \* requested map capacity, also the tool's
  MaxCap,           \* largest capacity a map can have (u32)
  MaxSets,          \* bound: map sets in use at a time
  MaxFaults,        \* bound: failures and crashes
  MaxOps            \* bound: acts of operators and other programs' owners

ASSUME XdpAssumption ==
  /\ Strategies \subseteq {"direct", "dispatcher"} /\ Policies \subseteq Nat
  /\ MaxCap \in Nat /\ InitCap \in 1..MaxCap /\ MaxSets \in Nat \ {0}
  /\ MaxFaults \in Nat /\ MaxOps \in Nat

(* A power of two exceeds its exponent: arithmetic, which the provers do   *)
(* not know of a power whose exponent varies.                              *)
ASSUME PowersAssumption ==
  \A n \in Policies \cup {2 * c : c \in 1..MaxCap} : \A k \in 0..n : 2 ^ k \in Nat /\ k <= 2 ^ k

VARIABLES
  options,          \* arguments of the agent
  nic,              \* programs attached to the interface
  pins,             \* the pin directory and the map set pinned in it
  maps,             \* map sets
  pc, att,          \* per process: its next step, the locals of attach
  mgr,              \* the agent's LinuxXdpManager
  want, due,        \* the update the agent holds, and whether it is unapplied
  applied,          \* policy last reported as applied
  failed,           \* history: a resize failed since the last attach
  disturbed,        \* history: someone else acted since the agent started
  faults, ops

env == <<options, faults, ops, disturbed>>
policy == <<want, due, applied>>
vars == <<options, nic, pins, maps, pc, att, mgr, want, due, applied, failed, disturbed,
          faults, ops>>

Procs == {"agent", "tool"}
Sets == 1..MaxSets
NoSet == 0
Mixed == -1         \* contents after a write that did not fit
Unapplied == -1

Foreign == [by |-> "other", kind |-> "foreign", maps |-> NoSet]
Programs == {Foreign} \cup [by : Procs, kind : {"link", "netlink", "dispatcher"}, maps : Sets]

NoAttach == [why |-> "start", existed |-> FALSE, loaded |-> FALSE, link |-> "none",
             req |-> InitCap, maps |-> NoSet]
NoManager == [maps |-> NoSet, netlink |-> FALSE]
NoPins == [dir |-> FALSE, maps |-> NoSet]
Fresh(cap) == [cap |-> cap, lpm |-> TRUE, policy |-> 0]

Dispatched(p) == p = "tool" \/ options.strategy = "dispatcher"
AllowReplace(p) == p = "agent" /\ options.replace

\* Whatever is attached is taken off, not only the program that is expected.
OwnAny(p, set, kinds) == nic

\* What ip reports of the interface.
Occupied == nic # {}

\* Entries of xdp-loader's table with the name of our program.
Entries == {q \in nic : q.kind = "dispatcher"}
Own(p, set, kinds) == {q \in nic : q.by = p /\ q.maps = set /\ q.kind \in kinds}

InUse == {pins.maps, mgr.maps} \cup {att[p].maps : p \in Procs} \cup {q.maps : q \in nic}
FreeSet == CHOOSE s \in Sets \ InUse : TRUE
\* A map set can be made: the bound is not reached.
CanMake == pins.maps # NoSet \/ Sets \ InUse # {}

\* Doubling alone.
ExpandedTwice(current, required) == IF required <= current THEN current ELSE 2 * current

\* Doubling, at least what is required, rounded up to a power of two.
Expanded(current, required) ==
  LET target == IF required > 2 * current THEN required ELSE 2 * current
      enough == {r \in {2 ^ k : k \in 0..target} : r >= target}
  IN  IF required <= current THEN current
      ELSE CHOOSE r \in enough : \A t \in enough : r <= t

(* An earlier version of the agent may have left pinned maps, with another *)
(* type of temp_bans, and its entry in the dispatcher's table.             *)
Init ==
  /\ options \in [strategy : Strategies, replace : BOOLEAN, auto : BOOLEAN]
  /\ options.replace => options.strategy = "direct"
  /\ \E left \in {"nothing", "pins", "entry"}, lpm, foreign \in BOOLEAN :
       /\ left = "entry" => options.strategy = "dispatcher"
       /\ pins = IF left = "nothing" THEN NoPins ELSE [dir |-> TRUE, maps |-> 1]
       /\ maps = [s \in Sets |-> IF left # "nothing" /\ s = 1
                                 THEN [cap |-> InitCap, lpm |-> lpm, policy |-> 1]
                                 ELSE Fresh(InitCap)]
       /\ nic = (IF left = "entry" THEN {[by |-> "agent", kind |-> "dispatcher", maps |-> 1]}
                 ELSE {}) \cup (IF foreign THEN {Foreign} ELSE {})
  /\ pc = [p \in Procs |-> "down"] /\ att = [p \in Procs |-> NoAttach]
  /\ mgr = NoManager
  /\ want \in Policies /\ due = TRUE /\ applied = Unapplied
  /\ failed = FALSE /\ disturbed = FALSE /\ faults = 0 /\ ops = 0

Goto(p, step) == pc' = [pc EXCEPT ![p] = step]
Set(p, field, value) == att' = [att EXCEPT ![p] = [@ EXCEPT ![field] = value]]

----------------------------------------------------------------------------
(* LinuxXdpManager::attach, by the agent or by `xdp replace`.              *)

\* The error path: what the attempt attached is detached as its locals drop.
Fail(p) ==
  /\ nic' = nic \ IF att[p].link = "none" THEN {} ELSE Own(p, att[p].maps, {att[p].link})
  /\ Goto(p, "rollback")
  /\ UNCHANGED <<pins, maps, att, mgr, failed>>

AttachSteps == {"begin", "recreate", "load", "unload", "check", "attach", "verify", "finish"}

\* An external command, a system call or the file system fails.
Fault(p) ==
  /\ faults < MaxFaults /\ faults' = faults + 1
  /\ pc[p] \in AttachSteps \ {"begin"} /\ Fail(p)
  /\ UNCHANGED <<options, ops, disturbed, policy>>

\* The pin directory is created if it is missing; whether it was is kept.
Begin(p) ==
  /\ pc[p] = "begin"
  /\ Set(p, "existed", pins.dir)
  /\ pins' = [pins EXCEPT !.dir = TRUE]
  /\ Goto(p, "recreate")
  /\ UNCHANGED <<nic, maps, mgr, failed, env, policy>>

\* Pinned maps whose temp_bans has another type are removed.
Outdated == pins.maps # NoSet /\ ~maps[pins.maps].lpm

Recreate(p) ==
  /\ pc[p] = "recreate"
  /\ \/ /\ ~Outdated
        /\ Goto(p, "load")
        /\ UNCHANGED <<nic, pins, maps, att, mgr, failed>>
     \/ /\ Outdated
        /\ \/ /\ ~Dispatched(p) /\ ~AllowReplace(p) /\ Occupied
              /\ Fail(p)
           \/ /\ Dispatched(p) \/ AllowReplace(p) \/ ~Occupied
              /\ nic' = nic \ IF Dispatched(p) THEN Entries ELSE {}
              /\ pins' = [dir |-> TRUE, maps |-> NoSet]
              /\ Goto(p, "load")
              /\ UNCHANGED <<maps, att, mgr, failed>>
  /\ UNCHANGED <<env, policy>>

\* The object is loaded without the pin directory.
LoadUnpinned(p) ==
  /\ pc[p] = "load"
  /\ Set(p, "maps", FreeSet)
  /\ maps' = [maps EXCEPT ![FreeSet] = Fresh(att[p].req)]
  /\ Goto(p, IF Dispatched(p) THEN "unload" ELSE "check")
  /\ UNCHANGED <<nic, pins, mgr, failed, env, policy>>

\* Maps are taken from their pins, with the size those have, or made and pinned.
Load(p) ==
  /\ pc[p] = "load"
  /\ \/ /\ ~pins.dir /\ Fail(p)
     \/ /\ pins.dir /\ CanMake
        /\ LET s == IF pins.maps = NoSet THEN FreeSet ELSE pins.maps
           IN  /\ Set(p, "maps", s)
               /\ pins' = [pins EXCEPT !.maps = s]
               /\ maps' = IF pins.maps = NoSet THEN [maps EXCEPT ![s] = Fresh(att[p].req)] ELSE maps
        /\ Goto(p, IF Dispatched(p) THEN "unload" ELSE "check")
        /\ UNCHANGED <<nic, mgr, failed>>
  /\ UNCHANGED <<env, policy>>

\* ensure_no_existing_xdp.
CheckNone(p) ==
  /\ pc[p] = "check"
  /\ \/ /\ ~AllowReplace(p) /\ Occupied /\ Fail(p)
     \/ /\ AllowReplace(p) \/ ~Occupied
        /\ Goto(p, "attach")
        /\ UNCHANGED <<nic, pins, maps, att, mgr, failed>>
  /\ UNCHANGED <<env, policy>>

\* aya attaches the program, through a BPF link where the kernel has them.
LinkDirect(p) ==
  /\ ~Occupied
  /\ nic' = {[by |-> p, kind |-> "link", maps |-> att[p].maps]}
  /\ Set(p, "link", "link")

(* The program that was found is exchanged for ours through netlink.  The  *)
(* kernel refuses if a BPF link holds it; an old kernel has none.          *)
ReplaceDirect(p) ==
  /\ Occupied /\ AllowReplace(p)
  /\ nic' = {[by |-> p, kind |-> "netlink", maps |-> att[p].maps]}
  /\ Set(p, "link", "netlink")

AttachDirect(p) ==
  /\ pc[p] = "attach" /\ ~Dispatched(p)
  /\ \/ /\ Occupied /\ (~AllowReplace(p) \/ \E q \in nic : q.kind = "link")
        /\ Fail(p)
     \/ /\ LinkDirect(p) \/ ReplaceDirect(p)
        /\ Goto(p, "finish")
        /\ UNCHANGED <<pins, maps, mgr, failed>>
  /\ UNCHANGED <<env, policy>>

\* unload_dispatcher_programs_by_name.
UnloadEntries(p) ==
  /\ pc[p] = "unload"
  /\ nic' = nic \ Entries
  /\ Goto(p, "attach")
  /\ UNCHANGED <<pins, maps, att, mgr, failed, env, policy>>

\* xdp-loader takes the maps from the pin path, or makes and pins them there.
LoadEntry(p) ==
  /\ pc[p] = "attach" /\ Dispatched(p) /\ CanMake
  /\ LET s == IF pins.maps = NoSet THEN FreeSet ELSE pins.maps
     IN  /\ nic' = nic \cup {[by |-> p, kind |-> "dispatcher", maps |-> s]}
         /\ pins' = [dir |-> TRUE, maps |-> s]
         /\ maps' = IF pins.maps = NoSet THEN [maps EXCEPT ![s] = Fresh(InitCap)] ELSE maps
  /\ Goto(p, "verify")
  /\ UNCHANGED <<att, mgr, failed, env, policy>>

\* Exactly one entry has our name, and it uses the maps that are pinned.
Verified == \E q \in nic : Entries = {q} /\ q.maps = pins.maps

Verify(p) ==
  /\ pc[p] = "verify"
  /\ \/ ~Verified /\ Fail(p)
     \/ /\ Verified
        /\ Set(p, "loaded", TRUE)
        /\ Goto(p, "finish")
        /\ UNCHANGED <<nic, pins, maps, mgr, failed>>
  /\ UNCHANGED <<env, policy>>

\* The agent takes over the maps; a manager it replaces drops its own link.
Finish(p) ==
  /\ pc[p] = "finish"
  /\ IF p = "tool" THEN UNCHANGED <<nic, mgr, failed>>
     ELSE /\ mgr' = [maps |-> att[p].maps, netlink |-> att[p].link = "netlink"]
          /\ nic' = nic \ IF mgr.maps = att[p].maps THEN {} ELSE Own(p, mgr.maps, {"link"})
          /\ failed' = FALSE
  /\ Goto(p, IF p = "tool" THEN "down" ELSE IF att[p].why = "resize" THEN "write" ELSE "run")
  /\ att' = [att EXCEPT ![p] = NoAttach]
  /\ UNCHANGED <<pins, maps, env, policy>>

\* rollback_failed_attach; then a start or a command ends, a resize is reported.
Rollback(p) ==
  /\ pc[p] = "rollback"
  /\ nic' = nic \ IF att[p].loaded THEN Entries ELSE {}
  /\ pins' = IF att[p].existed THEN pins ELSE NoPins
  /\ failed' = (failed \/ att[p].why = "resize")
  /\ Goto(p, IF att[p].why = "resize" THEN "run" ELSE "down")
  /\ att' = [att EXCEPT ![p] = NoAttach]
  /\ UNCHANGED <<maps, mgr, env, policy>>

Attach(p) ==
  \/ Begin(p) \/ Recreate(p) \/ Load(p) \/ CheckNone(p) \/ AttachDirect(p)
  \/ UnloadEntries(p) \/ LoadEntry(p) \/ Verify(p) \/ Finish(p) \/ Rollback(p)

----------------------------------------------------------------------------
(* The agent.                                                              *)

Start ==
  /\ pc["agent"] = "down"
  /\ Goto("agent", "begin")
  /\ due' = TRUE /\ applied' = Unapplied
  /\ failed' = FALSE /\ disturbed' = (pc["tool"] # "down")
  /\ UNCHANGED <<options, nic, pins, maps, att, mgr, want, faults, ops>>

\* Another update, or the empty policy of offline mode.
Update ==
  /\ pc["agent"] = "run"
  /\ want' \in Policies \ {want}
  /\ due' = TRUE
  /\ UNCHANGED <<options, nic, pins, maps, pc, att, mgr, applied, failed, disturbed, faults, ops>>

\* A resize that failed is not tried again.
ApplyOnce ==
  LET cap == maps[mgr.maps].cap
      size == Expanded(cap, want)
  IN  /\ pc["agent"] = "run" /\ due
      /\ \/ size = cap /\ Goto("agent", "write") /\ UNCHANGED att
         \/ /\ size # cap /\ options.auto /\ size <= MaxCap /\ ~failed
            /\ Goto("agent", "detach")
            /\ att' = [att EXCEPT !["agent"] = [NoAttach EXCEPT !.why = "resize", !.req = size]]
      /\ UNCHANGED <<nic, pins, maps, mgr, failed, env, policy>>

\* apply: resize when the policy does not fit; otherwise, or if it may not, no.
Apply ==
  LET cap == maps[mgr.maps].cap
      size == Expanded(cap, want)
  IN  /\ pc["agent"] = "run" /\ due
      /\ \/ size = cap /\ Goto("agent", "write") /\ UNCHANGED att
         \/ /\ size # cap /\ options.auto /\ size <= MaxCap
            /\ Goto("agent", "detach")
            /\ att' = [att EXCEPT !["agent"] = [NoAttach EXCEPT !.why = "resize", !.req = size]]
      /\ UNCHANGED <<nic, pins, maps, mgr, failed, env, policy>>

\* A program that aya attached stays: its link is in the object, not here.
Detach ==
  /\ pc["agent"] = "detach"
  /\ nic' = nic \ (IF options.strategy = "dispatcher" THEN Entries
                   ELSE IF mgr.netlink THEN Own("agent", mgr.maps, {"netlink"}) ELSE {})
  /\ mgr' = [mgr EXCEPT !.netlink = FALSE]
  /\ Goto("agent", "unpin")
  /\ UNCHANGED <<pins, maps, att, failed, env, policy>>

DetachFails ==
  /\ pc["agent"] \in {"detach", "unpin"} /\ faults < MaxFaults
  /\ pc["agent"] = "detach" => options.strategy = "dispatcher"
  /\ faults' = faults + 1
  /\ Goto("agent", "run") /\ att' = [att EXCEPT !["agent"] = NoAttach]
  /\ failed' = TRUE
  /\ UNCHANGED <<options, nic, pins, maps, mgr, ops, disturbed, policy>>

\* remove_map_pin_dir.
Unpin(p) ==
  /\ pc[p] = "unpin"
  /\ pins' = NoPins
  /\ Goto(p, IF p = "agent" THEN "begin" ELSE "down")
  /\ UNCHANGED <<nic, maps, att, mgr, failed, env, policy>>

\* apply_to_current_maps; a table that fills up is left half written.
Write ==
  LET fits == want <= maps[mgr.maps].cap
  IN  /\ pc["agent"] = "write"
      /\ maps' = [maps EXCEPT ![mgr.maps].policy = IF fits THEN want ELSE Mixed]
      /\ due' = ~fits
      /\ applied' = IF fits THEN want ELSE applied
      /\ Goto("agent", "run")
      /\ UNCHANGED <<nic, pins, att, mgr, failed, env, want>>

\* The kernel closes a killed process's links, not what netlink attached.
Kill(p) ==
  /\ pc[p] # "down" /\ faults < MaxFaults /\ faults' = faults + 1
  /\ nic' = {q \in nic : ~(q.by = p /\ q.kind = "link")}
  /\ mgr' = IF p = "agent" THEN NoManager ELSE mgr
  /\ Goto(p, "down") /\ att' = [att EXCEPT ![p] = NoAttach]
  /\ UNCHANGED <<options, pins, maps, failed, ops, disturbed, policy>>

----------------------------------------------------------------------------
(* Commands of the operator, and the owner of another program.             *)

Act == ops < MaxOps /\ ops' = ops + 1

\* The agent is told to stop.  Its own links are dropped; entries of the dispatcher and pins stay.
CommandStop ==
  /\ Act /\ pc["agent"] = "run"
  /\ nic' = nic \ Own("agent", mgr.maps, {"link"} \cup IF mgr.netlink THEN {"netlink"} ELSE {})
  /\ mgr' = NoManager /\ Goto("agent", "down")
  /\ UNCHANGED <<options, pins, maps, att, failed, disturbed, faults, policy>>

CommandReplace ==
  /\ Act /\ options.strategy = "dispatcher" /\ pc["tool"] = "down"
  /\ Goto("tool", "begin") /\ disturbed' = TRUE
  /\ UNCHANGED <<options, nic, pins, maps, att, mgr, failed, faults, policy>>

\* One program by its id, or all of them and then, if so asked, the pins.
CommandUnload(programs, removePins) ==
  /\ Act /\ options.strategy = "dispatcher" /\ pc["tool"] = "down"
  /\ programs # {} /\ (removePins => programs = nic)
  /\ nic' = nic \ programs
  /\ Goto("tool", IF removePins THEN "unpin" ELSE "down") /\ disturbed' = TRUE
  /\ UNCHANGED <<options, pins, maps, att, mgr, failed, faults, policy>>

\* Another program joins the chain, takes a free interface, or replaces ours.
ForeignAttach ==
  /\ Act /\ Foreign \notin nic
  /\ IF options.strategy = "dispatcher" THEN nic' = nic \cup {Foreign} /\ UNCHANGED disturbed
     ELSE /\ \A q \in nic : q.kind = "netlink"
          /\ nic' = {Foreign}
          /\ disturbed' = (disturbed \/ nic # {})
  /\ UNCHANGED <<options, pins, maps, pc, att, mgr, failed, faults, policy>>

----------------------------------------------------------------------------
Agent == Start \/ Attach("agent") \/ Apply \/ Detach \/ Unpin("agent") \/ Write
Tool == Attach("tool") \/ Unpin("tool")
Others ==
  \/ CommandStop \/ CommandReplace \/ ForeignAttach
  \/ \E programs \in {nic} \cup {{q} : q \in nic}, removePins \in BOOLEAN :
       CommandUnload(programs, removePins)

Next ==
  \/ Agent \/ Tool \/ Others \/ Update \/ DetachFails
  \/ \E p \in Procs : Fault(p) \/ Kill(p)

Spec == Init /\ [][Next]_vars

\* A supervisor restarts the agent, which takes its next step.
FairSpec == Spec /\ WF_vars(Agent) /\ WF_vars(Tool)

----------------------------------------------------------------------------
(* Properties.                                                             *)

\* The state of the interface, the pins and both processes is well formed.
TypeOK ==
  /\ options \in [strategy : {"direct", "dispatcher"}, replace : BOOLEAN, auto : BOOLEAN]
  /\ nic \subseteq Programs
  /\ pins \in [dir : BOOLEAN, maps : Sets \cup {NoSet}]
  /\ maps \in [Sets -> [cap : 1..MaxCap, lpm : BOOLEAN, policy : Policies \cup {0, 1, Mixed}]]
  /\ pc \in [Procs -> AttachSteps \cup {"down", "rollback", "run", "write", "detach", "unpin"}]
  /\ att \in [Procs -> [why : {"start", "resize"}, existed : BOOLEAN, loaded : BOOLEAN,
                        link : {"none", "link", "netlink"}, req : 1..MaxCap,
                        maps : Sets \cup {NoSet}]]
  /\ mgr \in [maps : Sets \cup {NoSet}, netlink : BOOLEAN]
  /\ want \in Policies /\ due \in BOOLEAN /\ applied \in Policies \cup {Unapplied}
  /\ failed \in BOOLEAN /\ disturbed \in BOOLEAN
  /\ faults \in 0..MaxFaults /\ ops \in 0..MaxOps

Enforced(p) == \E q \in nic : q.kind # "foreign" /\ q.maps = mgr.maps /\ maps[q.maps].policy = p

(* When apply has returned without an error, the attached program enforces *)
(* the policy, unless someone else unloaded or replaced that program.      *)
AppliedIsEnforced ==
  pc["agent"] = "run" /\ ~due /\ ~disturbed => Enforced(applied)

(* While the agent runs, and no resize has failed, one program of ours is  *)
(* attached, whatever earlier attempts and crashes left, and it, the pins  *)
(* that the monitor opens and the agent's handles are the same maps, which *)
(* hold the policy it reported.                                            *)
LiveMaps ==
  pc["agent"] = "run" /\ ~disturbed /\ ~failed =>
    /\ \E q \in Programs : nic \ {Foreign} = {q} /\ q.maps = mgr.maps
    /\ pins.maps = mgr.maps
    /\ applied # Unapplied => maps[mgr.maps].policy = applied

(* Nobody having interfered, the maps have room for what is about to be    *)
(* written: those the agent took over from pins, and those of a resize.    *)
RoomForWrites ==
  pc["agent"] = "write" /\ ~disturbed => want <= maps[mgr.maps].cap

(* Another program's owner loses it only to the operator, or to an agent   *)
(* that was told to replace it: no clean-up or rollback takes it off.      *)
ForeignKept ==
  [][(Foreign \in nic /\ Foreign \notin nic')
       => (ops' # ops \/ (options.replace /\ pc["agent"] = "attach"))]_vars

(* A policy that outgrows the maps is enforced in the end, with automatic  *)
(* resize under the dispatcher: a failed attempt is made again.            *)
GrowthIsEnforced ==
  \A p \in Policies :
    /\ options.strategy = "dispatcher" /\ options.auto
    /\ want = p /\ due /\ ~disturbed
    /\ mgr.maps # NoSet /\ p > maps[mgr.maps].cap /\ Expanded(maps[mgr.maps].cap, p) <= MaxCap
    ~> Enforced(p) \/ want # p \/ disturbed
=============================================================================
