------------------------- MODULE XdpLifecycleProofs -------------------------
(***************************************************************************)
(* What the life of an XDP program promises, for any capacities, policies, *)
(* number of failures and of interventions: the agent's maps are live, its *)
(* writes have room, and nobody else's program is taken off.  A resize is  *)
(* safe because it starts from an empty pin directory, so that what is     *)
(* loaded has the size that was asked for, and an attempt is finished only *)
(* with one program, which uses the maps that are pinned.                  *)
(***************************************************************************)
EXTENDS XdpLifecycle, WellFoundedInduction, TLAPS

\* The locals and the step of the agent.
A == att["agent"]
At == pc["agent"]
Loaded == {"check", "unload", "attach", "verify", "finish"}
OneProgram(s) == \E q \in Programs : nic \ {Foreign} = {q} /\ q.maps = s

\* Who has maps, and under which strategy.
Typed ==
  /\ TypeOK
  /\ \A p \in Procs : pc[p] \in Loaded => att[p].maps \in Sets
  /\ att["tool"].why = "start"
  /\ At \in {"down", "run", "write"} => A.why = "start"
  /\ At \in {"run", "write", "detach", "unpin"} \/ A.why = "resize" => mgr.maps \in Sets
  /\ At \in {"detach", "unpin"} => A.why = "resize"
  /\ At = "verify" => options.strategy = "dispatcher"
  /\ options.strategy = "dispatcher" => \A q \in nic : q.kind \in {"foreign", "dispatcher"}

\* An attempt to attach: the maps it has loaded are pinned, and at its end one program is ours.
Attaching ==
  /\ A.why = "start" /\ At \in AttachSteps => applied = Unapplied
  /\ At \in Loaded => A.maps = pins.maps
  /\ At = "finish" => OneProgram(A.maps)

\* A resize: the maps to come, then those loaded, have room for the policy.
Growing ==
  A.why = "resize" =>
    /\ At # "rollback" => want <= A.req
    /\ At \in {"begin", "recreate", "load"} => pins.maps = NoSet
    /\ At \in Loaded => maps[A.maps].cap = A.req

\* The agent runs.
Live ==
  /\ At = "write" => want <= maps[mgr.maps].cap
  /\ At \in {"run", "write"} /\ ~failed => OneProgram(mgr.maps) /\ pins.maps = mgr.maps
  /\ At = "run" /\ ~failed /\ applied # Unapplied => maps[mgr.maps].policy = applied

Undisturbed == ~disturbed => pc["tool"] = "down" /\ Attaching /\ Growing /\ Live

IInv == Typed /\ Undisturbed

----------------------------------------------------------------------------
(* Records, capacities, and the effect of a step on the locals.            *)

Locals == [why : {"start", "resize"}, existed : BOOLEAN, loaded : BOOLEAN,
           link : {"none", "link", "netlink"}, req : 1..MaxCap, maps : Sets \cup {NoSet}]
MapSet == [cap : 1..MaxCap, lpm : BOOLEAN, policy : Policies \cup {0, 1, Mixed}]
Options == [strategy : {"direct", "dispatcher"}, replace : BOOLEAN, auto : BOOLEAN]
Steps == AttachSteps \cup {"down", "rollback", "run", "write", "detach", "unpin"}

LEMMA Free == Sets \ InUse # {} => FreeSet \in Sets /\ FreeSet \notin InUse
BY DEF FreeSet

LEMMA Made ==
  ASSUME TypeOK, CanMake
  PROVE  (IF pins.maps = NoSet THEN FreeSet ELSE pins.maps) \in Sets
BY Free DEF CanMake, TypeOK

\* A set of numbers has a least one.
LEMMA LeastOf ==
  ASSUME NEW S, S \subseteq Nat, S # {}
  PROVE  \E r \in S : \A t \in S : r <= t
<1>. DEFINE R == OpToRel(<, Nat)
<1>1. IsWellFoundedOn(R, Nat)
  BY NatLessThanWellFounded
<1>2. PICK r \in S : \A t \in S : ~(<<t, r>> \in R)
  BY <1>1, WFMin
<1>3. \A t \in S : ~(t < r)
  BY <1>2 DEF OpToRel
<1>. QED  BY <1>3

\* The new capacity is enough, and it is the old one only if that is enough.
LEMMA ExpandedFits ==
  ASSUME NEW c \in 1..MaxCap, NEW p \in Policies
  PROVE  /\ Expanded(c, p) \in Nat \ {0}
         /\ p <= Expanded(c, p)
         /\ Expanded(c, p) = c => p <= c
<1>. DEFINE target == IF p > 2 * c THEN p ELSE 2 * c
            enough == {r \in {2 ^ k : k \in 0..target} : r >= target}
<1>1. /\ c \in Nat \ {0} /\ p \in Nat /\ target \in Nat \ {0} /\ target >= p /\ target > c
      /\ target \in Policies \cup {2 * d : d \in 1..MaxCap}
  BY XdpAssumption
<1>2. \A k \in 0..target : 2 ^ k \in Nat /\ k <= 2 ^ k
  BY <1>1, PowersAssumption
<1>. HIDE DEF target
<1>3. enough \subseteq Nat /\ 2 ^ target \in enough
  BY <1>1, <1>2
<1>. HIDE DEF enough
<1>4. \E r \in enough : \A t \in enough : r <= t
  BY <1>3, LeastOf
<1>. DEFINE least == CHOOSE r \in enough : \A t \in enough : r <= t
<1>5. least \in enough
  BY <1>4
<1>6. \A r \in enough : r \in Nat /\ r >= target
  BY <1>1, <1>2 DEF enough
<1>7. Expanded(c, p) = IF p <= c THEN c ELSE least
  BY DEF Expanded, target, enough
<1>8. least \in Nat /\ least >= target
  BY <1>5, <1>6
<1>. HIDE DEF least
<1>. QED  BY <1>1, <1>7, <1>8

LEMMA FreshTyped ==
  ASSUME NEW c \in 1..MaxCap
  PROVE  Fresh(c) \in MapSet /\ Fresh(c).cap = c
BY DEF Fresh, MapSet

Goes(p, step) ==
  /\ pc' \in [Procs -> Steps] /\ pc'[p] = step
  /\ \A o \in Procs : o # p => pc'[o] = pc[o]

Notes(p, why, existed, loaded, link, req, set) ==
  /\ att' \in [Procs -> Locals]
  /\ att'[p].why = why /\ att'[p].existed = existed /\ att'[p].loaded = loaded
  /\ att'[p].link = link /\ att'[p].req = req /\ att'[p].maps = set
  /\ \A o \in Procs : o # p => att'[o] = att[o]

LEMMA GotoEffect ==
  ASSUME TypeOK, NEW p \in Procs, NEW step \in Steps, Goto(p, step)
  PROVE  Goes(p, step)
BY DEF TypeOK, Goto, Steps, Goes

LEMMA SetEffect ==
  ASSUME TypeOK, NEW p \in Procs
  PROVE  /\ \A v \in BOOLEAN : Set(p, "existed", v) =>
              Notes(p, att[p].why, v, att[p].loaded, att[p].link, att[p].req, att[p].maps)
         /\ \A v \in BOOLEAN : Set(p, "loaded", v) =>
              Notes(p, att[p].why, att[p].existed, v, att[p].link, att[p].req, att[p].maps)
         /\ \A v \in {"link", "netlink"} : Set(p, "link", v) =>
              Notes(p, att[p].why, att[p].existed, att[p].loaded, v, att[p].req, att[p].maps)
         /\ \A v \in Sets : Set(p, "maps", v) =>
              Notes(p, att[p].why, att[p].existed, att[p].loaded, att[p].link, att[p].req, v)
<1>1. att \in [Procs -> Locals]
  BY DEF TypeOK, Locals
<1>2. ASSUME NEW v \in BOOLEAN, Set(p, "existed", v)
      PROVE  Notes(p, att[p].why, v, att[p].loaded, att[p].link, att[p].req, att[p].maps)
  BY <1>1, <1>2 DEF Set, Notes, Locals
<1>3. ASSUME NEW v \in BOOLEAN, Set(p, "loaded", v)
      PROVE  Notes(p, att[p].why, att[p].existed, v, att[p].link, att[p].req, att[p].maps)
  BY <1>1, <1>3 DEF Set, Notes, Locals
<1>4. ASSUME NEW v \in {"link", "netlink"}, Set(p, "link", v)
      PROVE  Notes(p, att[p].why, att[p].existed, att[p].loaded, v, att[p].req, att[p].maps)
  BY <1>1, <1>4 DEF Set, Notes, Locals
<1>5. ASSUME NEW v \in Sets, Set(p, "maps", v)
      PROVE  Notes(p, att[p].why, att[p].existed, att[p].loaded, att[p].link, att[p].req, v)
  BY <1>1, <1>5 DEF Set, Notes, Locals
<1>. QED  BY <1>2, <1>3, <1>4, <1>5

LEMMA ClearEffect ==
  ASSUME TypeOK, NEW p \in Procs, att' = [att EXCEPT ![p] = NoAttach]
  PROVE  Notes(p, "start", FALSE, FALSE, "none", InitCap, NoSet)
<1>1. att \in [Procs -> Locals] /\ NoAttach \in Locals
  BY XdpAssumption DEF TypeOK, Locals, NoAttach
<1>. QED  BY <1>1 DEF Notes, NoAttach

LEMMA ResizeEffect ==
  ASSUME TypeOK, NEW size \in 1..MaxCap,
         att' = [att EXCEPT !["agent"] = [NoAttach EXCEPT !.why = "resize", !.req = size]]
  PROVE  Notes("agent", "resize", FALSE, FALSE, "none", size, NoSet)
<1>. DEFINE a == [NoAttach EXCEPT !.why = "resize", !.req = size]
<1>1. att \in [Procs -> Locals] /\ a \in Locals
  BY XdpAssumption DEF TypeOK, Locals, NoAttach
<1>2. /\ a.why = "resize" /\ a.existed = FALSE /\ a.loaded = FALSE /\ a.link = "none"
      /\ a.req = size /\ a.maps = NoSet
  BY DEF NoAttach
<1>. HIDE DEF a
<1>. QED  BY <1>1, <1>2 DEF Notes, Procs, a

MapSetIs(s, cap, p) ==
  /\ maps' \in [Sets -> MapSet] /\ maps'[s].cap = cap /\ maps'[s].policy = p
  /\ \A t \in Sets : t # s => maps'[t] = maps[t]

LEMMA MadeEffect ==
  ASSUME TypeOK, NEW s \in Sets, NEW cap \in 1..MaxCap, maps' = [maps EXCEPT ![s] = Fresh(cap)]
  PROVE  MapSetIs(s, cap, 0)
<1>1. maps \in [Sets -> MapSet] /\ Fresh(cap) \in MapSet
  BY FreshTyped DEF TypeOK, MapSet
<1>. QED  BY <1>1 DEF MapSetIs, Fresh

LEMMA WrittenEffect ==
  ASSUME TypeOK, NEW s \in Sets, NEW p \in Policies \cup {Mixed},
         maps' = [maps EXCEPT ![s].policy = p]
  PROVE  MapSetIs(s, maps[s].cap, p)
<1>1. maps \in [Sets -> MapSet]
  BY DEF TypeOK, MapSet
<1>. QED  BY <1>1 DEF MapSetIs, MapSet

----------------------------------------------------------------------------
(* The steps of an attempt to attach.                                      *)

\* While the command-line tool is at work, the agent is disturbed.
LEMMA ToolDisturbs ==
  ASSUME Undisturbed, pc["tool"] # "down", disturbed' = disturbed
  PROVE  Undisturbed'
BY DEF Undisturbed

LEMMA FailStep ==
  ASSUME IInv, NEW p \in Procs, pc[p] # "down", Fail(p), faults' \in 0..MaxFaults,
         UNCHANGED <<options, ops, disturbed, policy>>
  PROVE  IInv'
<1>1. Goes(p, "rollback") /\ nic' \subseteq nic
  BY GotoEffect DEF Fail, IInv, Typed, Steps
<1>2. UNCHANGED <<options, disturbed, want, applied, pins, maps, att, mgr, failed>>
  BY DEF Fail, policy
<1>3. TypeOK'
  BY <1>1 DEF Fail, IInv, Typed, TypeOK, Goes, Steps, policy
<1>4. Typed'
  BY <1>1, <1>2, <1>3 DEF IInv, Typed, Goes, At, A, Loaded, Procs
<1>5. CASE p = "tool"
  BY <1>2, <1>4, <1>5, ToolDisturbs DEF IInv
<1>6. CASE p = "agent"
  BY <1>1, <1>2, <1>4, <1>6
     DEF IInv, Undisturbed, Attaching, Growing, Live, Goes, At, A, Loaded, Procs, AttachSteps
<1>. QED  BY <1>5, <1>6 DEF Procs

LEMMA BeginStep == ASSUME IInv, NEW p \in Procs, Begin(p) PROVE IInv'
<1>1. /\ pins' \in [dir : BOOLEAN, maps : Sets \cup {NoSet}] /\ pins'.maps = pins.maps
      /\ pins.dir \in BOOLEAN
  BY DEF Begin, IInv, Typed, TypeOK
<1>2. Goes(p, "recreate") /\ pc[p] = "begin"
  BY GotoEffect DEF Begin, IInv, Typed, Steps, AttachSteps
<1>3. Notes(p, att[p].why, pins.dir, att[p].loaded, att[p].link, att[p].req, att[p].maps)
  BY <1>1, SetEffect DEF Begin, IInv, Typed
<1>4. UNCHANGED <<nic, maps, mgr, failed, env, policy>>
  BY DEF Begin
<1>5. TypeOK'
  BY <1>1, <1>2, <1>3, <1>4 DEF IInv, Typed, TypeOK, Goes, Steps, Notes, Locals, env, policy
<1>6. Typed'
  BY <1>2, <1>3, <1>4, <1>5 DEF IInv, Typed, Goes, Notes, At, A, Loaded, env, Procs
<1>7. CASE p = "tool"
  BY <1>2, <1>4, <1>6, <1>7, ToolDisturbs DEF IInv, env
<1>8. CASE p = "agent"
  BY <1>1, <1>2, <1>3, <1>4, <1>6, <1>8
     DEF IInv, Undisturbed, Attaching, Growing, Live, Goes, Notes, At, A, Loaded, Procs,
         AttachSteps, env, policy
<1>. QED  BY <1>7, <1>8 DEF Procs

LEMMA RecreateStep == ASSUME IInv, NEW p \in Procs, Recreate(p) PROVE IInv'
<1>1. pc[p] = "recreate" /\ UNCHANGED <<env, policy>> /\ faults' \in 0..MaxFaults
  BY DEF Recreate, IInv, Typed, TypeOK, env
<1>2. CASE Fail(p)
  BY <1>1, <1>2, FailStep DEF env
<1>3. CASE ~Fail(p)
  <2>1. /\ Goto(p, "load") /\ UNCHANGED <<maps, att, mgr, failed>> /\ nic' \subseteq nic
        /\ pins' = pins \/ pins' = [dir |-> TRUE, maps |-> NoSet]
    BY <1>3 DEF Recreate
  <2>2. pins' \in [dir : BOOLEAN, maps : Sets \cup {NoSet}] /\ pins'.maps \in {pins.maps, NoSet}
    <3>1. CASE pins' = pins
      BY <3>1 DEF IInv, Typed, TypeOK
    <3>2. CASE pins' = [dir |-> TRUE, maps |-> NoSet]
      BY <3>2
    <3>. QED  BY <2>1, <3>1, <3>2
  <2>3. Goes(p, "load")
    BY <2>1, GotoEffect DEF IInv, Typed, Steps, AttachSteps
  <2>4. TypeOK'
    BY <1>1, <2>1, <2>2, <2>3 DEF IInv, Typed, TypeOK, Goes, Steps, env, policy
  <2>5. Typed'
    BY <1>1, <2>1, <2>3, <2>4 DEF IInv, Typed, Goes, At, A, Loaded, env, Procs
  <2>6. CASE p = "tool"
    BY <1>1, <2>5, <2>6, ToolDisturbs DEF IInv, env
  <2>7. CASE p = "agent"
    BY <1>1, <2>1, <2>2, <2>3, <2>5, <2>7
       DEF IInv, Undisturbed, Attaching, Growing, Live, Goes, At, A, Loaded, Procs,
           AttachSteps, env, policy
  <2>. QED  BY <2>6, <2>7 DEF Procs
<1>. QED  BY <1>2, <1>3

LEMMA LoadStep == ASSUME IInv, NEW p \in Procs, Load(p) PROVE IInv'
<1>1. pc[p] = "load" /\ UNCHANGED <<env, policy>> /\ faults' \in 0..MaxFaults
  BY DEF Load, IInv, Typed, TypeOK, env
<1>2. CASE Fail(p)
  BY <1>1, <1>2, FailStep DEF env
<1>3. CASE ~Fail(p)
  <2>. DEFINE s == IF pins.maps = NoSet THEN FreeSet ELSE pins.maps
              step == IF Dispatched(p) THEN "unload" ELSE "check"
  <2>1. s \in Sets
    BY <1>3, Made DEF Load, IInv, Typed
  <2>2. Goes(p, step)
    BY <1>3, GotoEffect DEF Load, IInv, Typed, Steps, AttachSteps
  <2>3. Notes(p, att[p].why, att[p].existed, att[p].loaded, att[p].link, att[p].req, s)
    BY <1>3, <2>1, SetEffect DEF Load, IInv, Typed
  <2>4. pins' \in [dir : BOOLEAN, maps : Sets \cup {NoSet}] /\ pins'.maps = s
    BY <1>3, <2>1 DEF Load, IInv, Typed, TypeOK
  <2>5. maps' \in [Sets -> MapSet] /\ (pins.maps = NoSet => maps'[s].cap = att[p].req)
    <3>1. att[p].req \in 1..MaxCap
      BY DEF IInv, Typed, TypeOK
    <3>2. maps \in [Sets -> MapSet]
      BY DEF IInv, Typed, TypeOK, MapSet
    <3>. QED  BY <1>3, <2>1, <3>1, <3>2, MadeEffect DEF Load, IInv, Typed, MapSetIs
  <2>6. UNCHANGED <<nic, mgr, failed>>
    BY <1>3 DEF Load
  <2>. HIDE DEF s
  <2>7. TypeOK'
    BY <1>1, <2>1, <2>2, <2>3, <2>4, <2>5, <2>6
       DEF IInv, Typed, TypeOK, Goes, Steps, Notes, Locals, MapSet, env, policy
  <2>8. Typed'
    BY <1>1, <2>1, <2>2, <2>3, <2>6, <2>7
       DEF IInv, Typed, Goes, Notes, At, A, Loaded, env, Procs
  <2>9. CASE p = "tool"
    BY <1>1, <2>8, <2>9, ToolDisturbs DEF IInv, env
  <2>10. CASE p = "agent"
    BY <1>1, <2>2, <2>3, <2>4, <2>5, <2>6, <2>8, <2>10
       DEF IInv, Undisturbed, Attaching, Growing, Live, Goes, Notes, At, A, Loaded, Procs,
           AttachSteps, env, policy
  <2>. QED  BY <2>9, <2>10 DEF Procs
<1>. QED  BY <1>2, <1>3

\* A step of attach that only goes on.
LEMMA GoOnStep ==
  ASSUME IInv, NEW p \in Procs, pc[p] \in AttachSteps, NEW step \in Steps, Goto(p, step),
         nic' \subseteq nic, UNCHANGED <<pins, maps, att, mgr, failed, env, policy>>,
         step \in {"attach", "rollback"}, pc[p] \in Loaded
  PROVE  IInv'
<1>1. Goes(p, step)
  BY GotoEffect DEF IInv, Typed
<1>2. TypeOK'
  BY <1>1 DEF IInv, Typed, TypeOK, Goes, Steps, env, policy
<1>3. Typed'
  BY <1>1, <1>2 DEF IInv, Typed, Goes, At, A, Loaded, env, Procs
<1>4. CASE p = "tool"
  BY <1>3, <1>4, ToolDisturbs DEF IInv, env, AttachSteps
<1>5. CASE p = "agent"
  BY <1>1, <1>3, <1>5
     DEF IInv, Undisturbed, Attaching, Growing, Live, Goes, At, A, Loaded, Procs,
         AttachSteps, env, policy
<1>. QED  BY <1>4, <1>5 DEF Procs

LEMMA CheckNoneStep == ASSUME IInv, NEW p \in Procs, CheckNone(p) PROVE IInv'
<1>1. pc[p] = "check" /\ UNCHANGED <<env, policy>> /\ faults' \in 0..MaxFaults
  BY DEF CheckNone, IInv, Typed, TypeOK, env
<1>2. CASE Fail(p)
  BY <1>1, <1>2, FailStep DEF env
<1>3. CASE Goto(p, "attach") /\ UNCHANGED <<nic, pins, maps, att, mgr, failed>>
  BY <1>1, <1>3, GoOnStep DEF AttachSteps, Steps, Loaded
<1>. QED  BY <1>2, <1>3 DEF CheckNone

LEMMA UnloadEntriesStep == ASSUME IInv, NEW p \in Procs, UnloadEntries(p) PROVE IInv'
<1>1. /\ pc[p] = "unload" /\ Goto(p, "attach") /\ nic' \subseteq nic
      /\ UNCHANGED <<pins, maps, att, mgr, failed, env, policy>>
  BY DEF UnloadEntries
<1>. QED  BY <1>1, GoOnStep DEF AttachSteps, Steps, Loaded

LEMMA AttachDirectStep == ASSUME IInv, NEW p \in Procs, AttachDirect(p) PROVE IInv'
<1>1. /\ pc[p] = "attach" /\ UNCHANGED <<env, policy>> /\ faults' \in 0..MaxFaults
      /\ ~Dispatched(p)
  BY DEF AttachDirect, IInv, Typed, TypeOK, env
<1>2. CASE Fail(p)
  BY <1>1, <1>2, FailStep DEF env
<1>3. ASSUME ~Fail(p) PROVE IInv'
  <2>1. p = "agent" /\ options.strategy # "dispatcher" /\ A.maps \in Sets
    BY <1>1 DEF Dispatched, Procs, IInv, Typed, Loaded, A
  <2>2. PICK kind \in {"link", "netlink"} :
          nic' = {[by |-> p, kind |-> kind, maps |-> att[p].maps]} /\ Set(p, "link", kind)
    BY <1>3 DEF AttachDirect, LinkDirect, ReplaceDirect
  <2>3. Goes(p, "finish") /\ UNCHANGED <<pins, maps, mgr, failed>>
    BY <1>3, GotoEffect DEF AttachDirect, IInv, Typed, Steps, AttachSteps
  <2>4. Notes(p, att[p].why, att[p].existed, att[p].loaded, kind, att[p].req, att[p].maps)
    BY <2>2, SetEffect DEF IInv, Typed
  <2>. DEFINE q == [by |-> p, kind |-> kind, maps |-> att[p].maps]
  <2>5. q \in Programs /\ q # Foreign /\ q.maps = A.maps
    BY <2>1 DEF Programs, Foreign, A, Procs
  <2>6. nic' = {q}
    BY <2>2
  <2>. HIDE DEF q
  <2>7. TypeOK'
    BY <1>1, <2>3, <2>4, <2>5, <2>6
       DEF IInv, Typed, TypeOK, Goes, Steps, Notes, Locals, env, policy
  <2>8. Typed'
    BY <1>1, <2>1, <2>3, <2>4, <2>7 DEF IInv, Typed, Goes, Notes, At, A, Loaded, env, Procs
  <2>9. OneProgram(A.maps)'
    <3>1. nic' \ {Foreign} = {q} /\ A'.maps = A.maps
      BY <2>1, <2>4, <2>5, <2>6 DEF Notes, A
    <3>. QED  BY <2>5, <3>1 DEF OneProgram
  <2>. QED
    BY <1>1, <2>1, <2>3, <2>4, <2>8, <2>9
       DEF IInv, Undisturbed, Attaching, Growing, Live, Goes, Notes, At, A, Loaded, Procs,
           AttachSteps, env, policy
<1>. QED  BY <1>2, <1>3

LEMMA LoadEntryStep == ASSUME IInv, NEW p \in Procs, LoadEntry(p) PROVE IInv'
<1>. DEFINE s == IF pins.maps = NoSet THEN FreeSet ELSE pins.maps
            q == [by |-> p, kind |-> "dispatcher", maps |-> s]
<1>1. pc[p] = "attach" /\ Dispatched(p) /\ UNCHANGED <<att, mgr, failed, env, policy>>
  BY DEF LoadEntry
<1>2. s \in Sets
  BY Made DEF LoadEntry, IInv, Typed
<1>3. Goes(p, "verify")
  BY GotoEffect DEF LoadEntry, IInv, Typed, Steps, AttachSteps
<1>4. pins' \in [dir : BOOLEAN, maps : Sets \cup {NoSet}] /\ pins'.maps = s
  BY <1>2 DEF LoadEntry
<1>5. maps' \in [Sets -> MapSet] /\ (pins.maps # NoSet => maps' = maps)
  <2>1. InitCap \in 1..MaxCap /\ maps \in [Sets -> MapSet]
    BY XdpAssumption DEF IInv, Typed, TypeOK, MapSet
  <2>. QED  BY <1>2, <2>1, MadeEffect DEF LoadEntry, IInv, Typed, MapSetIs
<1>6. nic' = nic \cup {q} /\ q \in Programs /\ q.kind = "dispatcher"
  BY <1>2 DEF LoadEntry, Programs
<1>7. s # NoSet /\ (pins.maps # NoSet => s = pins.maps)
  BY <1>2, XdpAssumption DEF Sets, NoSet
<1>. HIDE DEF s, q
<1>8. TypeOK'
  BY <1>1, <1>3, <1>4, <1>5, <1>6 DEF IInv, Typed, TypeOK, Goes, Steps, MapSet, env, policy
<1>9. Typed'
  BY <1>1, <1>3, <1>6, <1>8 DEF IInv, Typed, Goes, At, A, Loaded, Dispatched, env, Procs
<1>10. CASE p = "tool"
  BY <1>1, <1>9, <1>10, ToolDisturbs DEF IInv, env
<1>11. CASE p = "agent"
  <2>1. A.maps \in Sets /\ A.maps # NoSet
    BY <1>1, <1>11, XdpAssumption DEF IInv, Typed, Loaded, A, Sets, NoSet, Procs
  <2>2. ~disturbed => pins.maps = A.maps
    BY <1>1, <1>11 DEF IInv, Undisturbed, Attaching, At, Loaded
  <2>. QED
    BY <1>1, <1>3, <1>4, <1>5, <1>7, <1>9, <1>11, <2>1, <2>2
       DEF IInv, Undisturbed, Attaching, Growing, Live, Goes, At, A, Loaded, Procs,
           AttachSteps, env, policy
<1>. QED  BY <1>10, <1>11 DEF Procs

LEMMA VerifyStep == ASSUME IInv, NEW p \in Procs, Verify(p) PROVE IInv'
<1>1. pc[p] = "verify" /\ UNCHANGED <<env, policy>> /\ faults' \in 0..MaxFaults
  BY DEF Verify, IInv, Typed, TypeOK, env
<1>2. CASE Fail(p)
  BY <1>1, <1>2, FailStep DEF env
<1>3. ASSUME ~Fail(p) PROVE IInv'
  <2>1. Verified /\ Set(p, "loaded", TRUE) /\ UNCHANGED <<nic, pins, maps, mgr, failed>>
    BY <1>3 DEF Verify
  <2>2. Goes(p, "finish")
    BY <1>3, GotoEffect DEF Verify, IInv, Typed, Steps, AttachSteps
  <2>3. Notes(p, att[p].why, att[p].existed, TRUE, att[p].link, att[p].req, att[p].maps)
    BY <2>1, SetEffect DEF IInv, Typed
  <2>4. TypeOK'
    BY <1>1, <2>1, <2>2, <2>3
       DEF IInv, Typed, TypeOK, Goes, Steps, Notes, Locals, env, policy
  <2>5. Typed'
    BY <1>1, <2>1, <2>2, <2>3, <2>4 DEF IInv, Typed, Goes, Notes, At, A, Loaded, env, Procs
  <2>6. CASE p = "tool"
    BY <1>1, <2>5, <2>6, ToolDisturbs DEF IInv, env
  <2>7. CASE p = "agent"
    <3>1. ASSUME ~disturbed PROVE OneProgram(A.maps)'
      <4>1. pins.maps = A.maps
        BY <1>1, <2>7, <3>1 DEF IInv, Undisturbed, Attaching, At, Loaded
      <4>2. PICK q \in nic : Entries = {q} /\ q.maps = pins.maps
        BY <2>1 DEF Verified
      <4>3. \A r \in nic : r.kind \in {"foreign", "dispatcher"}
        BY <1>1, <2>7 DEF IInv, Typed, At
      <4>4. \A r \in nic : r \in Programs /\ (r.kind = "foreign" => r = Foreign)
        BY DEF IInv, Typed, TypeOK, Programs
      <4>5. nic \ {Foreign} = {q}
        BY <4>2, <4>3, <4>4 DEF Entries, Foreign
      <4>6. A'.maps = A.maps /\ nic' = nic
        BY <2>1, <2>3, <2>7 DEF Notes, A
      <4>. QED  BY <4>1, <4>2, <4>4, <4>5, <4>6 DEF OneProgram
    <3>. QED
      BY <1>1, <2>1, <2>2, <2>3, <2>5, <2>7, <3>1
         DEF IInv, Undisturbed, Attaching, Growing, Live, Goes, Notes, At, A, Loaded, Procs,
             AttachSteps, env, policy
  <2>. QED  BY <2>6, <2>7 DEF Procs
<1>. QED  BY <1>2, <1>3

LEMMA FinishStep == ASSUME IInv, NEW p \in Procs, Finish(p) PROVE IInv'
<1>. DEFINE step == IF p = "tool" THEN "down" ELSE IF att[p].why = "resize" THEN "write" ELSE "run"
<1>1. pc[p] = "finish" /\ att[p].maps \in Sets
  BY DEF Finish, IInv, Typed, Loaded
<1>2. Goes(p, step)
  BY GotoEffect DEF Finish, IInv, Typed, Steps, AttachSteps
<1>3. Notes(p, "start", FALSE, FALSE, "none", InitCap, NoSet)
  BY ClearEffect DEF Finish, IInv, Typed
<1>4. UNCHANGED <<pins, maps, env, policy>> /\ nic' \subseteq nic /\ failed' \in BOOLEAN
  BY DEF Finish, IInv, Typed, TypeOK
<1>5. CASE p = "tool"
  <2>1. mgr' = mgr
    BY <1>5 DEF Finish
  <2>2. TypeOK'
    BY <1>2, <1>3, <1>4, <2>1 DEF IInv, Typed, TypeOK, Goes, Steps, Notes, Locals, env, policy
  <2>3. Typed'
    BY <1>2, <1>3, <1>4, <1>5, <2>1, <2>2
       DEF IInv, Typed, Goes, Notes, At, A, Loaded, env, Procs
  <2>. QED  BY <1>1, <1>4, <1>5, <2>3, ToolDisturbs DEF IInv, env
<1>6. CASE p = "agent"
  <2>1. /\ mgr' = [maps |-> att[p].maps, netlink |-> att[p].link = "netlink"]
        /\ nic' = nic \ IF mgr.maps = att[p].maps THEN {} ELSE Own(p, mgr.maps, {"link"})
    BY <1>6 DEF Finish
  <2>2. mgr' \in [maps : Sets \cup {NoSet}, netlink : BOOLEAN] /\ mgr'.maps = A.maps
    BY <1>1, <1>6, <2>1 DEF A
  <2>3. TypeOK'
    BY <1>2, <1>3, <1>4, <2>2 DEF IInv, Typed, TypeOK, Goes, Steps, Notes, Locals, env, policy
  <2>4. Typed'
    BY <1>1, <1>2, <1>3, <1>4, <1>6, <2>2, <2>3
       DEF IInv, Typed, Goes, Notes, At, A, Loaded, env, Procs
  <2>5. ASSUME ~disturbed PROVE OneProgram(mgr.maps)'
    <3>1. PICK q \in Programs : nic \ {Foreign} = {q} /\ q.maps = A.maps
      BY <1>1, <1>6, <2>5 DEF IInv, Undisturbed, Attaching, At, OneProgram
    <3>2. nic' \ {Foreign} = {q}
      BY <1>6, <2>1, <3>1 DEF Own, A
    <3>. QED  BY <2>2, <3>1, <3>2 DEF OneProgram
  <2>6. ASSUME ~disturbed PROVE /\ pc["tool"] = "down" /\ pins.maps = A.maps
                                /\ A.why = "start" => applied = Unapplied
                                /\ A.why = "resize" => want <= maps[A.maps].cap
    BY <1>1, <1>6, <2>6
       DEF IInv, Undisturbed, Attaching, Growing, At, A, Loaded, AttachSteps
  <2>7. A.why \in {"start", "resize"}
    BY DEF IInv, Typed, TypeOK, A, Procs
  <2>. QED
    BY <1>2, <1>3, <1>4, <1>6, <2>2, <2>4, <2>5, <2>6, <2>7
       DEF IInv, Undisturbed, Attaching, Growing, Live, Goes, Notes, At, A, Loaded, Procs,
           AttachSteps, env, policy
<1>. QED  BY <1>5, <1>6 DEF Procs

LEMMA RollbackStep == ASSUME IInv, NEW p \in Procs, Rollback(p) PROVE IInv'
<1>. DEFINE step == IF att[p].why = "resize" THEN "run" ELSE "down"
<1>1. /\ pc[p] = "rollback" /\ UNCHANGED <<maps, mgr, env, policy>> /\ nic' \subseteq nic
      /\ failed' = (failed \/ att[p].why = "resize")
  BY DEF Rollback
<1>2. Goes(p, step)
  BY GotoEffect DEF Rollback, IInv, Typed, Steps, AttachSteps
<1>3. Notes(p, "start", FALSE, FALSE, "none", InitCap, NoSet)
  BY ClearEffect DEF Rollback, IInv, Typed
<1>4. pins' \in [dir : BOOLEAN, maps : Sets \cup {NoSet}] /\ failed' \in BOOLEAN
  <2>1. NoPins \in [dir : BOOLEAN, maps : Sets \cup {NoSet}]
    BY DEF NoPins
  <2>. QED  BY <2>1 DEF Rollback, IInv, Typed, TypeOK
<1>5. TypeOK'
  BY <1>1, <1>2, <1>3, <1>4 DEF IInv, Typed, TypeOK, Goes, Steps, Notes, Locals, env, policy
<1>6. Typed'
  BY <1>1, <1>2, <1>3, <1>5 DEF IInv, Typed, Goes, Notes, At, A, Loaded, env, Procs
<1>7. CASE p = "tool"
  BY <1>1, <1>6, <1>7, ToolDisturbs DEF IInv, env
<1>8. CASE p = "agent"
  BY <1>1, <1>2, <1>3, <1>6, <1>8
     DEF IInv, Undisturbed, Attaching, Growing, Live, Goes, Notes, At, A, Loaded, Procs,
         AttachSteps, env, policy
<1>. QED  BY <1>7, <1>8 DEF Procs

LEMMA FaultStep == ASSUME IInv, NEW p \in Procs, Fault(p) PROVE IInv'
<1>1. pc[p] # "down" /\ faults' \in 0..MaxFaults
  BY XdpAssumption DEF Fault, AttachSteps, IInv, Typed, TypeOK
<1>. QED  BY <1>1, FailStep DEF Fault

LEMMA AttachStep == ASSUME IInv, NEW p \in Procs, Attach(p) PROVE IInv'
BY BeginStep, RecreateStep, LoadStep, CheckNoneStep, AttachDirectStep, UnloadEntriesStep,
   LoadEntryStep, VerifyStep, FinishStep, RollbackStep DEF Attach

----------------------------------------------------------------------------
(* The agent.                                                              *)

LEMMA StartStep == ASSUME IInv, Start PROVE IInv'
<1>1. Goes("agent", "begin") /\ At = "down"
  BY GotoEffect DEF Start, IInv, Typed, Steps, AttachSteps, Procs, At
<1>2. /\ applied' = Unapplied /\ due' = TRUE /\ failed' = FALSE
      /\ disturbed' = (pc["tool"] # "down")
      /\ UNCHANGED <<options, nic, pins, maps, att, mgr, want, faults, ops>>
  BY DEF Start
<1>3. TypeOK'
  BY <1>1, <1>2 DEF IInv, Typed, TypeOK, Goes, Steps
<1>4. Typed'
  BY <1>1, <1>2, <1>3 DEF IInv, Typed, Goes, At, A, Loaded, Procs
<1>. QED
  BY <1>1, <1>2, <1>4
     DEF IInv, Typed, Undisturbed, Attaching, Growing, Live, Goes, At, A, Loaded, Procs

LEMMA UpdateStep == ASSUME IInv, Update PROVE IInv'
<1>1. /\ At = "run" /\ want' \in Policies /\ due' = TRUE
      /\ UNCHANGED <<options, nic, pins, maps, pc, att, mgr, applied, failed, disturbed, faults,
                     ops>>
  BY DEF Update, At
<1>2. TypeOK'
  BY <1>1 DEF IInv, Typed, TypeOK
<1>3. Typed'
  BY <1>1, <1>2 DEF IInv, Typed, At, A
<1>4. A.why = "start"
  BY <1>1 DEF IInv, Typed
<1>5. OneProgram(mgr.maps) <=> OneProgram(mgr.maps)'
  BY <1>1 DEF OneProgram
<1>. QED
  BY <1>1, <1>3, <1>4, <1>5 DEF IInv, Undisturbed, Attaching, Growing, Live, At, A, Loaded

LEMMA ApplyStep == ASSUME IInv, Apply PROVE IInv'
<1>. DEFINE cap == maps[mgr.maps].cap
            size == Expanded(cap, want)
<1>1. At = "run" /\ UNCHANGED <<nic, pins, maps, mgr, failed, env, policy>>
  BY DEF Apply, At
<1>2. mgr.maps \in Sets /\ A.why = "start" /\ cap \in 1..MaxCap /\ want \in Policies
  BY <1>1 DEF IInv, Typed, TypeOK
<1>3. size \in Nat \ {0} /\ want <= size /\ (size = cap => want <= cap)
  BY <1>2, ExpandedFits
<1>4. CASE size = cap
  <2>1. Goes("agent", "write") /\ att' = att
    BY <1>4, GotoEffect DEF Apply, IInv, Typed, Steps, AttachSteps, Procs
  <2>2. TypeOK'
    BY <1>1, <2>1 DEF IInv, Typed, TypeOK, Goes, Steps, env, policy
  <2>3. Typed'
    BY <1>1, <1>2, <2>1, <2>2 DEF IInv, Typed, Goes, At, A, Loaded, env, Procs
  <2>. QED
    BY <1>1, <1>2, <1>3, <1>4, <2>1, <2>3
       DEF IInv, Undisturbed, Attaching, Growing, Live, Goes, At, A, Loaded, Procs,
           AttachSteps, env, policy, OneProgram
<1>5. CASE size # cap
  <2>1. /\ size <= MaxCap /\ Goto("agent", "detach")
        /\ att' = [att EXCEPT !["agent"] = [NoAttach EXCEPT !.why = "resize", !.req = size]]
    BY <1>5 DEF Apply
  <2>2. size \in 1..MaxCap
    BY <1>3, <2>1, XdpAssumption
  <2>. HIDE DEF size
  <2>3. Goes("agent", "detach")
    BY <2>1, GotoEffect DEF IInv, Typed, Steps, AttachSteps, Procs
  <2>4. Notes("agent", "resize", FALSE, FALSE, "none", size, NoSet)
    BY <2>1, <2>2, ResizeEffect DEF IInv, Typed
  <2>5. TypeOK'
    BY <1>1, <2>3, <2>4 DEF IInv, Typed, TypeOK, Goes, Steps, Notes, Locals, env, policy
  <2>6. Typed'
    BY <1>1, <1>2, <2>3, <2>4, <2>5 DEF IInv, Typed, Goes, Notes, At, A, Loaded, env, Procs
  <2>. QED
    BY <1>1, <1>3, <2>3, <2>4, <2>6
       DEF IInv, Undisturbed, Attaching, Growing, Live, Goes, Notes, At, A, Loaded, Procs,
           AttachSteps, env, policy
<1>. QED  BY <1>4, <1>5

LEMMA DetachStep == ASSUME IInv, Detach PROVE IInv'
<1>1. /\ At = "detach" /\ nic' \subseteq nic
      /\ UNCHANGED <<pins, maps, att, failed, env, policy>>
  BY DEF Detach, At
<1>2. Goes("agent", "unpin")
  BY GotoEffect DEF Detach, IInv, Typed, Steps, AttachSteps, Procs
<1>3. mgr' \in [maps : Sets \cup {NoSet}, netlink : BOOLEAN] /\ mgr'.maps = mgr.maps
  BY DEF Detach, IInv, Typed, TypeOK
<1>4. TypeOK'
  BY <1>1, <1>2, <1>3 DEF IInv, Typed, TypeOK, Goes, Steps, env, policy
<1>5. Typed'
  BY <1>1, <1>2, <1>3, <1>4 DEF IInv, Typed, Goes, At, A, Loaded, env, Procs
<1>. QED
  BY <1>1, <1>2, <1>3, <1>5
     DEF IInv, Undisturbed, Attaching, Growing, Live, Goes, At, A, Loaded, Procs,
         AttachSteps, env, policy

LEMMA DetachFailsStep == ASSUME IInv, DetachFails PROVE IInv'
<1>1. /\ At \in {"detach", "unpin"} /\ failed' = TRUE /\ faults' \in 0..MaxFaults
      /\ UNCHANGED <<options, nic, pins, maps, mgr, ops, disturbed, policy>>
  BY XdpAssumption DEF DetachFails, At, IInv, Typed, TypeOK
<1>2. Goes("agent", "run")
  BY GotoEffect DEF DetachFails, IInv, Typed, Steps, AttachSteps, Procs
<1>3. Notes("agent", "start", FALSE, FALSE, "none", InitCap, NoSet)
  BY ClearEffect DEF DetachFails, IInv, Typed, Procs
<1>4. TypeOK'
  BY <1>1, <1>2, <1>3 DEF IInv, Typed, TypeOK, Goes, Steps, Notes, Locals, policy
<1>5. Typed'
  BY <1>1, <1>2, <1>3, <1>4 DEF IInv, Typed, Goes, Notes, At, A, Loaded, Procs
<1>. QED
  BY <1>1, <1>2, <1>3, <1>5
     DEF IInv, Undisturbed, Attaching, Growing, Live, Goes, Notes, At, A, Loaded, Procs,
         AttachSteps, policy

LEMMA UnpinStep == ASSUME IInv, NEW p \in Procs, Unpin(p) PROVE IInv'
<1>1. /\ pc[p] = "unpin" /\ pins' = NoPins
      /\ UNCHANGED <<nic, maps, att, mgr, failed, env, policy>>
  BY DEF Unpin
<1>2. Goes(p, IF p = "agent" THEN "begin" ELSE "down")
  BY GotoEffect DEF Unpin, IInv, Typed, Steps, AttachSteps
<1>3. pins' \in [dir : BOOLEAN, maps : Sets \cup {NoSet}] /\ pins'.maps = NoSet
  BY <1>1 DEF NoPins
<1>4. TypeOK'
  BY <1>1, <1>2, <1>3 DEF IInv, Typed, TypeOK, Goes, Steps, env, policy
<1>5. Typed'
  BY <1>1, <1>2, <1>3, <1>4 DEF IInv, Typed, Goes, At, A, Loaded, env, Procs
<1>6. CASE p = "tool"
  BY <1>1, <1>5, <1>6, ToolDisturbs DEF IInv, env
<1>7. CASE p = "agent"
  <2>1. A.why = "resize"
    BY <1>1, <1>7 DEF IInv, Typed, At
  <2>. QED
    BY <1>1, <1>2, <1>3, <1>5, <1>7, <2>1
       DEF IInv, Undisturbed, Attaching, Growing, Live, Goes, At, A, Loaded, Procs,
           AttachSteps, env, policy
<1>. QED  BY <1>6, <1>7 DEF Procs

LEMMA WriteStep == ASSUME IInv, Write PROVE IInv'
<1>. DEFINE fits == want <= maps[mgr.maps].cap
            p == IF fits THEN want ELSE Mixed
<1>1. /\ At = "write" /\ due' = ~fits /\ applied' = (IF fits THEN want ELSE applied)
      /\ UNCHANGED <<nic, pins, att, mgr, failed, env, want>>
  BY DEF Write, At
<1>2. mgr.maps \in Sets /\ A.why = "start" /\ want \in Policies
  BY <1>1 DEF IInv, Typed, TypeOK
<1>3. Goes("agent", "run")
  BY GotoEffect DEF Write, IInv, Typed, Steps, AttachSteps, Procs
<1>4. MapSetIs(mgr.maps, maps[mgr.maps].cap, p)
  BY <1>2, WrittenEffect DEF Write, IInv, Typed
<1>5. due' \in BOOLEAN /\ applied' \in Policies \cup {Unapplied}
  BY <1>1, <1>2 DEF IInv, Typed, TypeOK
<1>6. TypeOK'
  BY <1>1, <1>3, <1>4, <1>5 DEF IInv, Typed, TypeOK, Goes, Steps, MapSetIs, MapSet, env
<1>7. Typed'
  BY <1>1, <1>2, <1>3, <1>6 DEF IInv, Typed, Goes, At, A, Loaded, env, Procs
<1>8. ~disturbed => fits
  BY <1>1 DEF IInv, Undisturbed, Live
<1>9. ~disturbed => maps'[mgr.maps].policy = applied'
  BY <1>1, <1>4, <1>8 DEF MapSetIs
<1>. QED
  BY <1>1, <1>2, <1>3, <1>7, <1>9
     DEF IInv, Undisturbed, Attaching, Growing, Live, Goes, At, A, Loaded, Procs, AttachSteps,
         OneProgram, env

LEMMA KillStep == ASSUME IInv, NEW p \in Procs, Kill(p) PROVE IInv'
<1>1. /\ pc[p] # "down" /\ faults' \in 0..MaxFaults /\ nic' \subseteq nic
      /\ mgr' = IF p = "agent" THEN NoManager ELSE mgr
      /\ UNCHANGED <<options, pins, maps, failed, ops, disturbed, policy>>
  BY XdpAssumption DEF Kill, IInv, Typed, TypeOK
<1>2. Goes(p, "down")
  BY GotoEffect DEF Kill, IInv, Typed, Steps, AttachSteps
<1>3. Notes(p, "start", FALSE, FALSE, "none", InitCap, NoSet)
  BY ClearEffect DEF Kill, IInv, Typed
<1>4. mgr' \in [maps : Sets \cup {NoSet}, netlink : BOOLEAN]
  BY <1>1 DEF IInv, Typed, TypeOK, NoManager
<1>5. TypeOK'
  BY <1>1, <1>2, <1>3, <1>4 DEF IInv, Typed, TypeOK, Goes, Steps, Notes, Locals, policy
<1>6. Typed'
  BY <1>1, <1>2, <1>3, <1>5 DEF IInv, Typed, Goes, Notes, At, A, Loaded, Procs
<1>7. CASE p = "tool"
  BY <1>1, <1>6, <1>7, ToolDisturbs DEF IInv
<1>8. CASE p = "agent"
  BY <1>1, <1>2, <1>3, <1>6, <1>8
     DEF IInv, Undisturbed, Attaching, Growing, Live, Goes, Notes, At, A, Loaded, Procs,
         AttachSteps, policy
<1>. QED  BY <1>7, <1>8 DEF Procs

----------------------------------------------------------------------------
(* The operator, and the owner of another program.                         *)

LEMMA CommandStopStep == ASSUME IInv, CommandStop PROVE IInv'
<1>1. /\ At = "run" /\ ops' \in 0..MaxOps /\ nic' \subseteq nic /\ mgr' = NoManager
      /\ UNCHANGED <<options, pins, maps, att, failed, disturbed, faults, policy>>
  BY XdpAssumption DEF CommandStop, Act, At, IInv, Typed, TypeOK
<1>2. Goes("agent", "down")
  BY GotoEffect DEF CommandStop, IInv, Typed, Steps, AttachSteps, Procs
<1>3. mgr' \in [maps : Sets \cup {NoSet}, netlink : BOOLEAN] /\ A.why = "start"
  BY <1>1 DEF NoManager, IInv, Typed
<1>4. TypeOK'
  BY <1>1, <1>2, <1>3 DEF IInv, Typed, TypeOK, Goes, Steps, policy
<1>5. Typed'
  BY <1>1, <1>2, <1>3, <1>4 DEF IInv, Typed, Goes, At, A, Loaded, Procs
<1>. QED
  BY <1>1, <1>2, <1>3, <1>5
     DEF IInv, Undisturbed, Attaching, Growing, Live, Goes, At, A, Loaded, Procs,
         AttachSteps, policy

LEMMA CommandReplaceStep == ASSUME IInv, CommandReplace PROVE IInv'
<1>1. /\ pc["tool"] = "down" /\ ops' \in 0..MaxOps /\ disturbed' = TRUE
      /\ UNCHANGED <<options, nic, pins, maps, att, mgr, failed, faults, policy>>
  BY XdpAssumption DEF CommandReplace, Act, IInv, Typed, TypeOK
<1>2. Goes("tool", "begin")
  BY GotoEffect DEF CommandReplace, IInv, Typed, Steps, AttachSteps, Procs
<1>3. TypeOK'
  BY <1>1, <1>2 DEF IInv, Typed, TypeOK, Goes, Steps, policy
<1>4. Typed'
  BY <1>1, <1>2, <1>3 DEF IInv, Typed, Goes, At, A, Loaded, Procs
<1>. QED  BY <1>1, <1>4 DEF IInv, Undisturbed

LEMMA CommandUnloadStep ==
  ASSUME IInv, NEW programs \in {nic} \cup {{q} : q \in nic}, NEW removePins \in BOOLEAN,
         CommandUnload(programs, removePins)
  PROVE  IInv'
<1>1. /\ pc["tool"] = "down" /\ ops' \in 0..MaxOps /\ disturbed' = TRUE /\ nic' \subseteq nic
      /\ UNCHANGED <<options, pins, maps, att, mgr, failed, faults, policy>>
  BY XdpAssumption DEF CommandUnload, Act, IInv, Typed, TypeOK
<1>2. Goes("tool", IF removePins THEN "unpin" ELSE "down")
  BY GotoEffect DEF CommandUnload, IInv, Typed, Steps, AttachSteps, Procs
<1>3. TypeOK'
  BY <1>1, <1>2 DEF IInv, Typed, TypeOK, Goes, Steps, policy
<1>4. Typed'
  BY <1>1, <1>2, <1>3 DEF IInv, Typed, Goes, At, A, Loaded, Procs
<1>. QED  BY <1>1, <1>4 DEF IInv, Undisturbed

LEMMA ForeignAttachStep == ASSUME IInv, ForeignAttach PROVE IInv'
<1>0. ops' \in 0..MaxOps
  BY XdpAssumption DEF ForeignAttach, Act, IInv, Typed, TypeOK
<1>1. /\ ops' \in 0..MaxOps
      /\ nic' = nic \cup {Foreign} \/ nic' = {Foreign}
      /\ ~disturbed' => ~disturbed /\ nic' = nic \cup {Foreign}
      /\ disturbed' \in BOOLEAN
      /\ UNCHANGED <<options, pins, maps, pc, att, mgr, failed, faults, policy>>
  <2>1. disturbed \in BOOLEAN
    BY DEF IInv, Typed, TypeOK
  <2>. QED  BY <1>0, <2>1 DEF ForeignAttach
<1>2. nic' \subseteq Programs /\ Foreign.kind = "foreign"
  BY <1>1 DEF IInv, Typed, TypeOK, Programs, Foreign
<1>3. TypeOK'
  BY <1>1, <1>2 DEF IInv, Typed, TypeOK, policy
<1>4. Typed'
  BY <1>1, <1>2, <1>3 DEF IInv, Typed, At, A, Loaded
<1>5. ASSUME ~disturbed' PROVE ~disturbed /\ nic' \ {Foreign} = nic \ {Foreign}
  BY <1>1, <1>5
<1>6. ASSUME ~disturbed', NEW s, OneProgram(s) PROVE OneProgram(s)'
  BY <1>5, <1>6 DEF OneProgram
<1>. QED
  BY <1>1, <1>4, <1>5, <1>6
     DEF IInv, Undisturbed, Attaching, Growing, Live, At, A, policy

----------------------------------------------------------------------------
(* The theorems.                                                           *)

LEMMA IInvInit == Init => IInv
<1>. SUFFICES ASSUME Init PROVE IInv
  OBVIOUS
<1>1. /\ nic \subseteq Programs /\ \A q \in nic : q.kind \in {"foreign", "dispatcher"}
  BY XdpAssumption DEF Init, Programs, Foreign, Procs, Sets
<1>2. pins \in [dir : BOOLEAN, maps : Sets \cup {NoSet}]
  BY XdpAssumption DEF Init, NoPins, Sets
<1>3. maps \in [Sets -> MapSet]
  BY XdpAssumption DEF Init, MapSet, Fresh
<1>4. options \in Options /\ disturbed = FALSE
  BY XdpAssumption DEF Init, Options
<1>5. att \in [Procs -> Locals] /\ mgr \in [maps : Sets \cup {NoSet}, netlink : BOOLEAN]
  BY XdpAssumption DEF Init, NoAttach, Locals, NoManager
<1>6. TypeOK
  <2>1. pc \in [Procs -> Steps]
    BY DEF Init, Steps
  <2>2. /\ want \in Policies /\ due \in BOOLEAN /\ applied \in Policies \cup {Unapplied}
        /\ failed \in BOOLEAN /\ faults \in 0..MaxFaults /\ ops \in 0..MaxOps
    <3>1. 0 \in 0..MaxFaults /\ 0 \in 0..MaxOps
      BY XdpAssumption
    <3>2. want \in Policies /\ due = TRUE /\ applied = Unapplied
      BY DEF Init
    <3>3. failed = FALSE /\ faults = 0 /\ ops = 0
      BY DEF Init
    <3>. QED  BY <3>1, <3>2, <3>3
  <2>. QED
    BY <1>1, <1>2, <1>3, <1>4, <1>5, <2>1, <2>2 DEF TypeOK, Options, MapSet, Locals, Steps
<1>7. \A p \in Procs : pc[p] = "down" /\ att[p].why = "start"
  BY DEF Init, NoAttach
<1>. QED  BY <1>1, <1>6, <1>7 DEF IInv, Typed, Undisturbed, Attaching, Growing, Live, At, A, Loaded,
                                  Procs, AttachSteps, Init

LEMMA IInvStep == IInv /\ [Next]_vars => IInv'
<1>. SUFFICES ASSUME IInv, [Next]_vars PROVE IInv'
  OBVIOUS
<1>1. CASE Agent
  BY <1>1, StartStep, AttachStep, ApplyStep, DetachStep, UnpinStep, WriteStep DEF Agent, Procs
<1>2. CASE Tool
  BY <1>2, AttachStep, UnpinStep DEF Tool, Procs
<1>3. CASE Others
  BY <1>3, CommandStopStep, CommandReplaceStep, CommandUnloadStep, ForeignAttachStep DEF Others
<1>4. CASE UNCHANGED vars
  <2>1. TypeOK'
    BY <1>4 DEF IInv, Typed, TypeOK, vars, env
  <2>. QED
    BY <1>4, <2>1 DEF IInv, Typed, Undisturbed, Attaching, Growing, Live, At, A, OneProgram, vars
<1>. QED  BY <1>1, <1>2, <1>3, <1>4, UpdateStep, DetachFailsStep, FaultStep, KillStep DEF Next

(* Whatever fails and whoever interferes, the interface, the pins and the  *)
(* locals of both processes are well formed; the agent has maps whenever   *)
(* it runs (LinuxXdpManager).                                              *)
THEOREM TypeCorrect == Spec => []TypeOK
BY IInvInit, IInvStep, PTL DEF Spec, IInv, Typed

LEMMA IInvHolds == Spec => []IInv
BY IInvInit, IInvStep, PTL DEF Spec

(* While the agent runs undisturbed and no resize has failed, exactly one  *)
(* program of ours is attached, with the agent's maps, which are those     *)
(* that are pinned and hold the policy it reported (attach, resize_maps).  *)
THEOREM MapsAreLive == Spec => []LiveMaps
<1>1. IInv => LiveMaps
  BY DEF IInv, Undisturbed, Live, At, OneProgram, LiveMaps
<1>. QED  BY <1>1, IInvHolds, PTL

(* Undisturbed, the agent never writes a policy to maps without room for   *)
(* it: neither to those a start found pinned, nor to those a resize made   *)
(* (resized_map_sizes, ensure_capacity).                                   *)
THEOREM WritesHaveRoom == Spec => []RoomForWrites
<1>1. IInv => RoomForWrites
  BY DEF IInv, Undisturbed, Live, At, RoomForWrites
<1>. QED  BY <1>1, IInvHolds, PTL

\* One step: every clean-up is of programs that are ours.
LEMMA ForeignStep ==
  ASSUME IInv, [Next]_vars, Foreign \in nic, Foreign \notin nic'
  PROVE  ops' # ops \/ (options.replace /\ pc["agent"] = "attach")
<1>1. /\ \A p \in Procs : \A s, kinds : Foreign \notin Own(p, s, kinds)
      /\ Foreign \notin Entries
  BY DEF Own, Entries, Foreign, Procs
<1>2. ASSUME NEW p \in Procs, Attach(p) \/ Fault(p) \/ Kill(p) \/ Unpin(p)
      PROVE  options.replace /\ pc["agent"] = "attach"
  <2>1. ~Fail(p)
    BY <1>1 DEF Fail
  <2>2. ~Fault(p) /\ ~Kill(p) /\ ~Unpin(p)
    BY <2>1, <1>2 DEF Fault, Kill, Unpin, Foreign, Procs
  <2>3. ~Begin(p) /\ ~Recreate(p) /\ ~Load(p) /\ ~CheckNone(p) /\ ~UnloadEntries(p)
    BY <1>1, <2>1 DEF Begin, Recreate, Load, CheckNone, UnloadEntries
  <2>4. ~LoadEntry(p) /\ ~Verify(p) /\ ~Finish(p) /\ ~Rollback(p)
    BY <1>1, <2>1, <1>2 DEF LoadEntry, Verify, Finish, Rollback
  <2>5. AttachDirect(p)
    BY <1>2, <2>2, <2>3, <2>4 DEF Attach
  <2>. QED  BY <2>1, <2>5 DEF AttachDirect, LinkDirect, ReplaceDirect, AllowReplace, Occupied
<1>3. ~Start /\ ~Apply /\ ~Detach /\ ~Write /\ ~Update /\ ~DetachFails /\ ~UNCHANGED vars
  BY <1>1 DEF Start, Apply, Detach, Write, Update, DetachFails, vars, Procs
<1>4. ASSUME Act PROVE ops' # ops
  BY <1>4 DEF Act, IInv, Typed, TypeOK
<1>5. CASE Others
  BY <1>4, <1>5 DEF Others, CommandStop, CommandReplace, ForeignAttach, CommandUnload
<1>. QED  BY <1>2, <1>3, <1>5 DEF Next, Agent, Tool, Procs

(* Another program on the interface is taken off only by the operator, or  *)
(* by an agent that was told to replace it: no roll-back, clean-up of old  *)
(* entries or detach for a resize does (rollback_failed_attach,            *)
(* unload_dispatcher_programs_by_name, drop).                              *)
THEOREM OthersAreKept == Spec => ForeignKept
<1>1. IInv /\ [Next]_vars =>
        [(Foreign \in nic /\ Foreign \notin nic')
           => (ops' # ops \/ (options.replace /\ pc["agent"] = "attach"))]_vars
  BY ForeignStep
<1>. QED  BY <1>1, IInvHolds, PTL DEF Spec, ForeignKept
=============================================================================
