------------------------ MODULE JailLifecycleProofs ------------------------
(***************************************************************************)
(* The safety theorems of JailLifecycle, for any number of runs,           *)
(* processes, configurations and files, and any set of faults.  In this    *)
(* order: type correctness and the inductive invariant; what one step of   *)
(* netcage, podman, the user or the host can do to a pair, to a netns and  *)
(* to a process; that every step preserves each conjunct of the invariant, *)
(* and that the invariant implies the properties; the refinement of        *)
(* JailPromise, from the same invariant.                                   *)
(***************************************************************************)
EXTENDS JailLifecycle, TLAPS

USE DEF Families, PCs, BeforeJail, Building, TearingDown,
    Managing, Finished, Seen, TargetOf, AllFix

-----------------------------------------------------------------------------
(***************************************************************************)
(* The operators the actions are made of.                                  *)
(***************************************************************************)

\* The idle job is a job: there is a run id and a configuration to choose.
LEMMA NoJobIsJob == NoJob \in Job
<1>1. (CHOOSE r \in Runs : TRUE) \in Runs
  BY LifecycleAssumption DEF LifecycleAssumption
<1>2. (CHOOSE c \in Configs : TRUE) \in Configs
  BY LifecycleAssumption DEF LifecycleAssumption
<1>3. QED BY <1>1, <1>2 DEF NoJob, Job, AllVerbs

\* The target of a process is one of the runs.
LEMMA TargetIsRun == TypeOK => \A p \in Procs : TargetOf(p) \in Runs
BY DEF TypeOK, Job

\* The part of the type invariant that a change of a netns touches.
NetnsTypes ==
    /\ fw \in [Runs -> SUBSET Families]
    /\ applying \in [Runs -> BOOLEAN]
    /\ dns \in [Runs -> BOOLEAN]
    /\ seen \in [Procs -> Seen]

\* Making, losing or keeping a netns keeps the types of its state.
LEMMA NetnsStep ==
    ASSUME TypeOK
    PROVE  /\ \A r \in Runs : FreshNetns(r) => NetnsTypes'
           /\ \A r \in Runs : NoNetns(r) => NetnsTypes'
           /\ UNCHANGED netns => NetnsTypes'
<1>1. \A S : SeenAfter(S) \in [Procs -> Seen]
  BY DEF SeenAfter, TypeOK
<1>2. ASSUME NEW r \in Runs, FreshNetns(r) PROVE NetnsTypes'
  <2>1. fw' \in [Runs -> SUBSET Families]
    BY <1>2 DEF FreshNetns, TypeOK
  <2>2. applying' \in [Runs -> BOOLEAN] /\ dns' \in [Runs -> BOOLEAN]
    BY <1>2 DEF FreshNetns, TypeOK
  <2>3. QED BY <1>1, <1>2, <2>1, <2>2 DEF FreshNetns, NetnsTypes
<1>3. ASSUME NEW r \in Runs, NoNetns(r) PROVE NetnsTypes'
  <2>1. fw' \in [Runs -> SUBSET Families]
    BY <1>3 DEF NoNetns, TypeOK
  <2>2. applying' \in [Runs -> BOOLEAN] /\ dns' \in [Runs -> BOOLEAN]
    BY <1>3 DEF NoNetns, TypeOK
  <2>3. QED BY <1>1, <1>3, <2>1, <2>2 DEF NoNetns, NetnsTypes
<1>4. UNCHANGED netns => NetnsTypes'
  BY DEF netns, NetnsTypes, TypeOK
<1>5. QED BY <1>2, <1>3, <1>4

SidecarType == sidecar \in [Runs -> {"absent", "stopped", "running", "removed"}]

\* Reviving a sidecar keeps the types of the sidecar and of its netns.
LEMMA ReviveStep ==
    ASSUME TypeOK, NEW r \in Runs, Revive(r)
    PROVE  SidecarType' /\ NetnsTypes'
<1>1. CASE UNCHANGED <<sidecar, fw, applying, dns, seen>>
  BY <1>1 DEF TypeOK, SidecarType, NetnsTypes
<1>2. CASE sidecar' = [sidecar EXCEPT ![r] = "running"] /\ FreshNetns(r)
  BY <1>2, NetnsStep DEF TypeOK, SidecarType
<1>3. QED BY <1>1, <1>2 DEF Revive

ControlTypes ==
    /\ pc \in [Procs -> PCs]
    /\ outcome \in [Procs -> {"none", "ok", "refused", "failed"}]

\* An error return, before or after the deferred Teardown, keeps the types.
LEMMA ReturnStep ==
    ASSUME TypeOK, NEW p \in Procs, NEW from
    PROVE  /\ Abort(p, from) => ControlTypes'
           /\ Refuse(p, from) => ControlTypes'
           /\ UNCHANGED outcome => \A to \in PCs : Goto(p, from, to) => ControlTypes'
           /\ \A to \in PCs, o \in {"ok", "failed"} :
                 Goto(p, from, to) /\ End(p, o) => ControlTypes'
<1>1. \A to \in PCs : Goto(p, from, to) => pc' \in [Procs -> PCs]
  BY DEF Goto, TypeOK
<1>2. \A o \in {"none", "ok", "refused", "failed"} : End(p, o) =>
        outcome' \in [Procs -> {"none", "ok", "refused", "failed"}]
  BY DEF End, TypeOK
<1>3. ToTeardown(p) \in PCs /\ "done" \in PCs
  BY DEF ToTeardown
<1>4. UNCHANGED outcome => outcome' \in [Procs -> {"none", "ok", "refused", "failed"}]
  BY DEF TypeOK
<1>5. Abort(p, from) => ControlTypes'
  BY <1>1, <1>2, <1>3 DEF Abort, ControlTypes
<1>6. Refuse(p, from) => ControlTypes'
  BY <1>1, <1>2, <1>3 DEF Refuse, ControlTypes
<1>7. QED BY <1>1, <1>2, <1>4, <1>5, <1>6 DEF ControlTypes

\* How a run or a start leaves its last step.
Called(p) ==
    /\ pc[p] = "tool"
    /\ \/ pc' = [pc EXCEPT ![p] = "attached"] /\ UNCHANGED outcome
       \/ /\ pc' = [pc EXCEPT ![p] = ToTeardown(p)]
          /\ \E o \in {"ok", "failed"} : outcome' = [outcome EXCEPT ![p] = o]
    /\ UNCHANGED <<job, at, cancelled, left, probes, fix, mid, minted, baked>>

\* podman is attached to the tool, or it ended and the command returns, whether it
\* is told of an error or not.
LEMMA CalledStep ==
    ASSUME NEW p \in Procs, RunTool(p) \/ StartTool(p)
    PROVE  Called(p)
<1>1. ASSUME ToolCallErrs(p)
      PROVE  /\ pc[p] = "tool" /\ pc' = [pc EXCEPT ![p] = ToTeardown(p)]
             /\ \E o \in {"ok", "failed"} : outcome' = [outcome EXCEPT ![p] = o]
  BY <1>1 DEF ToolCallErrs, Goto, End
<1>2. ASSUME Goto(p, "tool", "attached")
      PROVE  pc[p] = "tool" /\ pc' = [pc EXCEPT ![p] = "attached"]
  BY <1>2 DEF Goto
<1>3. ToolCallErrs(p) \/ (Goto(p, "tool", "attached") /\ UNCHANGED outcome)
  BY DEF RunTool, StartTool, ComesUp
<1>4. UNCHANGED <<job, at, cancelled, left, probes, fix, mid, minted, baked>>
  BY DEF RunTool, StartTool, create, files
<1>5. QED BY <1>1, <1>2, <1>3, <1>4 DEF Called

\* The tool is brought up, behind the sidecar podman revives; or a run leaves it
\* created; or nothing becomes of it.
Making(p, r) ==
    /\ Revive(r) \/ UNCHANGED <<sidecar, fw, applying, dns, seen>>
    /\ \/ UNCHANGED <<tool, launcher, autorm>>
       \/ /\ Revive(r) /\ HaveMounts(r)
          /\ tool' = [tool EXCEPT ![r] = "running"]
          /\ launcher' = [launcher EXCEPT ![r] = p]
          /\ \/ StartTool(p) /\ tool[r] = "stopped" /\ UNCHANGED autorm
             \/ RunTool(p) /\ autorm' = [autorm EXCEPT ![r] = job[p].rm]
       \/ /\ RunTool(p) /\ SidecarExists(r) /\ UNCHANGED launcher
          /\ \/ tool' = [tool EXCEPT ![r] = "stopped"]
             \/ job[p].rm /\ tool' = [tool EXCEPT ![r] = "removed"]
          /\ autorm' = [autorm EXCEPT ![r] = job[p].rm]

LEMMA MakingStep ==
    ASSUME NEW p \in Procs, RunTool(p) \/ StartTool(p)
    PROVE  Making(p, TargetOf(p))
<1> DEFINE r == TargetOf(p)
<1>1. CASE RunTool(p)
  BY <1>1 DEF RunTool, ComesUp, Making, conts, netns
<1>2. CASE StartTool(p)
  <2>1. UNCHANGED autorm
    BY <1>2 DEF StartTool, create
  <2>2. CASE tool[r] = "stopped" /\ ComesUp(p)
    BY <1>2, <2>1, <2>2 DEF ComesUp, Making
  <2>3. CASE UNCHANGED <<conts, netns, launcher>>
    BY <2>1, <2>3 DEF Making, conts, netns
  <2>4. CASE Revive(r) /\ UNCHANGED <<tool, launcher>>
    BY <2>1, <2>4 DEF Making
  <2>5. QED BY <1>2, <2>2, <2>3, <2>4 DEF StartTool
<1>3. QED BY <1>1, <1>2

\* What is left of a pair of which podman removes a part, or the whole.
Losing(r) ==
    /\ \/ tool' = tool
       \/ Up(r) /\ tool' = [tool EXCEPT ![r] = ToolAtRest(r)]
       \/ ToolExists(r) /\ tool' = [tool EXCEPT ![r] = "removed"]
    /\ \/ UNCHANGED <<sidecar, fw, applying, dns, seen>>
       \/ NoNetns(r) /\ \/ sidecar' = sidecar /\ ~SidecarExists(r)
                        \/ SidecarExists(r) /\ \E s \in {"stopped", "removed"} :
                              sidecar' = [sidecar EXCEPT ![r] = s]

LEMMA LosingStep ==
    ASSUME TypeOK, NEW p \in Procs, RemoveTool(p) \/ RemoveSidecar(p) \/ RemovePair(p)
    PROVE  Losing(TargetOf(p))
<1> DEFINE r == TargetOf(p)
<1>1. r \in Runs
  BY TargetIsRun
<1> HIDE DEF r
<1>2. ASSUME ToolRemoved(r)
      PROVE  tool' = tool \/ (ToolExists(r) /\ tool' = [tool EXCEPT ![r] = "removed"])
  BY <1>1, <1>2 DEF ToolRemoved, TypeOK
<1>3. ASSUME ToolPartly(r)
      PROVE  \/ tool' = tool
             \/ Up(r) /\ tool' = [tool EXCEPT ![r] = ToolAtRest(r)]
             \/ ToolExists(r) /\ tool' = [tool EXCEPT ![r] = "removed"]
  BY <1>2, <1>3 DEF ToolPartly
<1>4. ASSUME SidecarRemoved(r)
      PROVE  NoNetns(r) /\ \/ sidecar' = sidecar /\ ~SidecarExists(r)
                           \/ SidecarExists(r) /\ \E s \in {"stopped", "removed"} :
                                 sidecar' = [sidecar EXCEPT ![r] = s]
  BY <1>1, <1>4 DEF SidecarRemoved, TypeOK
<1>5. ASSUME SidecarPartly(r)
      PROVE  \/ UNCHANGED <<sidecar, fw, applying, dns, seen>>
             \/ NoNetns(r) /\ \/ sidecar' = sidecar /\ ~SidecarExists(r)
                              \/ SidecarExists(r) /\ \E s \in {"stopped", "removed"} :
                                    sidecar' = [sidecar EXCEPT ![r] = s]
  BY <1>4, <1>5 DEF SidecarPartly, SidecarExists, netns
<1>6. CASE RemoveTool(p)
  BY <1>2, <1>3, <1>6 DEF RemoveTool, Losing, netns, r
<1>7. CASE RemoveSidecar(p)
  BY <1>4, <1>5, <1>7 DEF RemoveSidecar, Losing, netns, r
<1>8. CASE RemovePair(p)
  BY <1>2, <1>3, <1>4, <1>5, <1>8
  DEF RemovePair, PairRemoved, PairPartly, DependentsRemoved, Losing, conts, netns, r
<1>9. QED BY <1>6, <1>7, <1>8 DEF r

-----------------------------------------------------------------------------
(***************************************************************************)
(* Type correctness.                                                       *)
(***************************************************************************)

\* The cursor over the files stays in range.
LEMMA CursorInRange ==
    \A n \in 1..(NFix + 1) : /\ NextFile(n, NFix) \in 1..(NFix + 1)
                             /\ NextFile(n, LastFile) \in 1..(NFix + 1)
BY LifecycleAssumption DEF NextFile, LastFile, LifecycleAssumption

\* A process writing the fixed files is at one of them: StartDNS rewinds the
\* cursor that a sweep leaves anywhere.
FixCursor == \A p \in Procs : pc[p] = "fix" => at[p] \in AllFix

\* The cursor is at one of the fixed files whenever one is written.
LEMMA CursorStep == TypeOK /\ FixCursor /\ [Next]_vars => FixCursor'
<1> SUFFICES ASSUME TypeOK, FixCursor, [Next]_vars PROVE FixCursor'
  OBVIOUS
<1> USE DEF TypeOK, FixCursor
<1>1. ASSUME NEW p \in Procs, Launch(p) PROVE FixCursor'
  BY <1>1 DEF Launch, Goto
<1>2. ASSUME NEW p \in Procs, ResolveTool(p) PROVE FixCursor'
  BY <1>2 DEF ResolveTool, Refuse, Goto
<1>3. ASSUME NEW p \in Procs, FindHelper(p) PROVE FixCursor'
  BY <1>3 DEF FindHelper, Refuse, Goto
<1>4. ASSUME NEW p \in Procs, Reconcile(p) PROVE FixCursor'
  BY <1>4 DEF Reconcile, Refuse, Goto
<1>5. ASSUME NEW p \in Procs, CreateSidecar(p) PROVE FixCursor'
  BY <1>5 DEF CreateSidecar, Abort, ToTeardown, FreshNetns, Goto
<1>6. ASSUME NEW p \in Procs, ReviveSidecar(p) PROVE FixCursor'
  BY <1>6 DEF ReviveSidecar, Abort, ToTeardown, Revive, FreshNetns, AfterRevive, Goto
<1>7. ASSUME NEW p \in Procs, ProbeV4(p) PROVE FixCursor'
  BY <1>7 DEF ProbeV4, Abort, ToTeardown, RulesPresent, Goto
<1>8. ASSUME NEW p \in Procs, ProbeV6(p) PROVE FixCursor'
  BY <1>8 DEF ProbeV6, Abort, ToTeardown, RulesPresent, Goto
<1>9. ASSUME NEW p \in Procs, StartDNS(p) PROVE FixCursor'
  BY <1>9, LifecycleAssumption DEF StartDNS, Abort, ToTeardown, conts, netns, create,
       files, ends, Goto, LifecycleAssumption
<1>10. ASSUME NEW p \in Procs, WriteFix(p) PROVE FixCursor'
  BY <1>10, LifecycleAssumption DEF WriteFix, Abort, ToTeardown, NextFile, AllFix,
       conts, netns, create, files, ends, Goto, LifecycleAssumption
<1>11. ASSUME NEW p \in Procs, StatMachineID(p) PROVE FixCursor'
  BY <1>11 DEF StatMachineID, Abort, ToTeardown, AfterFiles, AfterReach, Goto
<1>12. ASSUME NEW p \in Procs, MintMachineID(p) PROVE FixCursor'
  BY <1>12 DEF MintMachineID, Abort, ToTeardown, AfterFiles, AfterReach, Goto
<1>13. ASSUME NEW p \in Procs, OpenReachback(p) PROVE FixCursor'
  BY <1>13 DEF OpenReachback, Abort, ToTeardown, Revive, FreshNetns, Goto
<1>14. ASSUME NEW p \in Procs, CloseReachback(p) PROVE FixCursor'
  BY <1>14 DEF CloseReachback, Abort, ToTeardown, AfterReach, Goto
<1>14a. ASSUME NEW p \in Procs, OpenDirect(p) PROVE FixCursor'
  BY <1>14a DEF OpenDirect, Revive, FreshNetns, Goto
<1>14b. ASSUME NEW p \in Procs, CloseDirect(p) PROVE FixCursor'
  BY <1>14b DEF CloseDirect, Goto
<1>15. ASSUME NEW p \in Procs, RunTool(p) PROVE FixCursor'
  BY <1>15, CalledStep DEF Called, ToTeardown
<1>16. ASSUME NEW p \in Procs, StartTool(p) PROVE FixCursor'
  BY <1>16, CalledStep DEF Called, ToTeardown
<1>17. ASSUME NEW p \in Procs, Detach(p) PROVE FixCursor'
  BY <1>17 DEF Detach, ToTeardown, Goto
<1>18. ASSUME NEW p \in Procs, Sweep(p) PROVE FixCursor'
  BY <1>18 DEF Sweep, NextFile, LastFile, AfterSweep, AllFix, Goto
<1>19. ASSUME NEW p \in Procs, RemoveTool(p) PROVE FixCursor'
  BY <1>19 DEF RemoveTool, Leaves, Goto
<1>20. ASSUME NEW p \in Procs, RemoveSidecar(p) PROVE FixCursor'
  BY <1>20 DEF RemoveSidecar, Leaves, NoNetns, Goto
<1>21. ASSUME NEW p \in Procs, Guard(p) PROVE FixCursor'
  BY <1>21 DEF Guard, Refuse, Goto
<1>22. ASSUME NEW p \in Procs, StopNamed(p) PROVE FixCursor'
  BY <1>22 DEF StopNamed, StopSidecar, NoNetns, ToolAtRest, Goto
<1>23. ASSUME NEW p \in Procs, RemovePair(p) PROVE FixCursor'
  BY <1>23 DEF RemovePair, NoNetns, AfterRm, AfterRmError, Goto
<1>24. ASSUME NEW p \in Procs, CheckSidecar(p) PROVE FixCursor'
  BY <1>24 DEF CheckSidecar, Refuse, Goto
<1>25. ASSUME NEW p \in Procs, CheckNamed(p) PROVE FixCursor'
  BY <1>25 DEF CheckNamed, Refuse, Goto
<1>26. ASSUME NEW p \in Procs, Exec(p) PROVE FixCursor'
  BY <1>26 DEF Exec, Goto
<1>27. ASSUME NEW p \in Procs, ProbeEnds(p) PROVE FixCursor'
  BY <1>27 DEF ProbeEnds
<1>28. ASSUME NEW p \in Procs, Interrupt(p) PROVE FixCursor'
  BY <1>28 DEF Interrupt
<1>29. ASSUME NEW p \in Procs, Kill(p) PROVE FixCursor'
  BY <1>29 DEF Kill
<1>30. ASSUME NEW r \in Runs, ApplyRules(r) PROVE FixCursor'
  BY <1>30 DEF ApplyRules
<1>31. ASSUME NEW r \in Runs, RuleFails(r) PROVE FixCursor'
  BY <1>31 DEF RuleFails
<1>32. ASSUME NEW r \in Runs, ToolExits(r) PROVE FixCursor'
  BY <1>32 DEF ToolExits, ToolAtRest
<1>33. ASSUME NEW r \in Runs, SidecarDies(r) PROVE FixCursor'
  BY <1>33 DEF SidecarDies, StopSidecar, NoNetns
<1>34. ASSUME NEW r \in Runs, RawStart(r) PROVE FixCursor'
  BY <1>34 DEF RawStart, Revive, FreshNetns
<1>35. ASSUME NEW r \in Runs, TempSweep(r) PROVE FixCursor'
  BY <1>35 DEF TempSweep
<1>36. ASSUME Reboot PROVE FixCursor'
  BY <1>36 DEF Reboot
<1>37. CASE UNCHANGED vars
  BY <1>37 DEF vars
<1>38. QED BY <1>1, <1>2, <1>3, <1>4, <1>5, <1>6, <1>7, <1>8, <1>9, <1>10, <1>11,
     <1>12, <1>13, <1>14, <1>14a, <1>14b, <1>15, <1>16, <1>17, <1>18, <1>19, <1>20,
     <1>21, <1>22,
     <1>23, <1>24, <1>25, <1>26, <1>27, <1>28, <1>29, <1>30, <1>31, <1>32, <1>33,
     <1>34, <1>35, <1>36, <1>37 DEF Next, Work, BuildStep, TeardownStep, ManageStep,
     Environment
-----------------------------------------------------------------------------
\* Every variable keeps its type through every step of netcage and its environment.
LEMMA TypeStep == TypeOK /\ FixCursor /\ [Next]_vars => TypeOK'
<1> SUFFICES ASSUME TypeOK, FixCursor, [Next]_vars PROVE TypeOK'
  OBVIOUS
<1>1. ASSUME NEW p \in Procs, Launch(p) PROVE TypeOK'
  BY <1>1 DEF Launch, TypeOK, conts, netns, create, files, ends, Goto
<1>2. ASSUME NEW p \in Procs, ResolveTool(p) PROVE TypeOK'
  <2>1. ControlTypes'
    BY <1>2, ReturnStep DEF ResolveTool
  <2>2. QED BY <1>2, <2>1 DEF ResolveTool, ControlTypes, TypeOK, conts, netns, create, files
<1>3. ASSUME NEW p \in Procs, FindHelper(p) PROVE TypeOK'
  <2>1. ControlTypes'
    BY <1>3, ReturnStep DEF FindHelper
  <2>2. QED BY <1>3, <2>1 DEF FindHelper, ControlTypes, TypeOK, conts, netns, create, files
<1>4. ASSUME NEW p \in Procs, Reconcile(p) PROVE TypeOK'
  <2>1. ControlTypes'
    BY <1>4, ReturnStep DEF Reconcile
  <2>2. QED BY <1>4, <2>1 DEF Reconcile, ControlTypes, TypeOK, conts, netns, create, files
<1>5. ASSUME NEW p \in Procs, CreateSidecar(p) PROVE TypeOK'
  <2>1. TargetOf(p) \in Runs
    BY TargetIsRun
  <2>2. ControlTypes'
    BY <1>5, ReturnStep DEF CreateSidecar
  <2>3. SidecarType' /\ NetnsTypes'
    BY <1>5, <2>1, NetnsStep DEF CreateSidecar, SidecarType, TypeOK
  <2>4. baked' \in [Runs -> Configs \cup {NoConfig}]
    BY <1>5, <2>1 DEF CreateSidecar, TypeOK, Job
  <2>5. QED BY <1>5, <2>1, <2>2, <2>3, <2>4 DEF CreateSidecar, SidecarType, NetnsTypes,
       ControlTypes, TypeOK, conts, netns, create, files, ends
<1>6. ASSUME NEW p \in Procs, ReviveSidecar(p) PROVE TypeOK'
  <2>1. TargetOf(p) \in Runs
    BY TargetIsRun
  <2>2. ControlTypes'
    BY <1>6, ReturnStep DEF ReviveSidecar, AfterRevive
  <2>3. SidecarType' /\ NetnsTypes'
    BY <1>6, <2>1, NetnsStep, ReviveStep DEF ReviveSidecar, SidecarType, TypeOK
  <2>4. QED BY <1>6, <2>1, <2>2, <2>3 DEF ReviveSidecar, SidecarType, NetnsTypes,
       ControlTypes, TypeOK, conts, netns, create, files, ends
<1>7. ASSUME NEW p \in Procs, ProbeV4(p) PROVE TypeOK'
  <2>1. ControlTypes'
    BY <1>7, ReturnStep DEF ProbeV4
  <2>2. seen' \in [Procs -> Seen]
    BY <1>7 DEF ProbeV4, TypeOK
  <2>3. QED BY <1>7, <2>1, <2>2 DEF ProbeV4, ControlTypes, TypeOK, conts, create, files, ends
<1>8. ASSUME NEW p \in Procs, ProbeV6(p) PROVE TypeOK'
  <2>1. ControlTypes'
    BY <1>8, ReturnStep DEF ProbeV6
  <2>2. QED BY <1>8, <2>1 DEF ProbeV6, ControlTypes, TypeOK, conts, netns, create, files, ends
<1>9. ASSUME NEW p \in Procs, StartDNS(p) PROVE TypeOK'
  <2>1. TargetOf(p) \in Runs
    BY TargetIsRun
  <2>2. ControlTypes'
    BY <1>9, ReturnStep DEF StartDNS
  <2>3. dns' \in [Runs -> BOOLEAN]
    <3>1. UNCHANGED dns \/ dns' = [dns EXCEPT ![TargetOf(p)] = TRUE]
      BY <1>9 DEF StartDNS, Helper
    <3>2. QED BY <3>1 DEF TypeOK
  <2>4. 1 \in 1..(NFix + 1)
    BY LifecycleAssumption DEF LifecycleAssumption
  <2>5. at' \in [Procs -> 1..(NFix + 1)]
    BY <1>9, <2>4 DEF StartDNS, TypeOK
  <2>6. QED BY <1>9, <2>1, <2>2, <2>3, <2>4, <2>5 DEF StartDNS, ControlTypes, TypeOK,
       conts, netns, create, files, ends
<1>10. ASSUME NEW p \in Procs, WriteFix(p) PROVE TypeOK'
  <2>1. TargetOf(p) \in Runs
    BY TargetIsRun
  <2>2. ControlTypes'
    BY <1>10, ReturnStep DEF WriteFix
  <2>3. at[p] \in 1..(NFix + 1) /\ NextFile(at[p], NFix) \in 1..(NFix + 1)
    <3>1. at[p] \in 1..(NFix + 1)
      BY DEF TypeOK
    <3>2. QED BY <3>1, CursorInRange
  <2>4. at' \in [Procs -> 1..(NFix + 1)]
    <3>1. \E n \in {1, NextFile(at[p], NFix)} : at' = [at EXCEPT ![p] = n]
      BY <1>10 DEF WriteFix
    <3>2. 1 \in 1..(NFix + 1)
      BY LifecycleAssumption DEF LifecycleAssumption
    <3>3. QED BY <3>1, <3>2, <2>3 DEF TypeOK
  <2>5. fix' \in [Runs -> SUBSET AllFix]
    <3>1. CASE UNCHANGED fix
      BY <3>1 DEF TypeOK
    <3>2. CASE pc[p] = "fix" /\ fix' = [fix EXCEPT ![TargetOf(p)] = @ \cup {at[p]}]
      BY <3>2, <2>1 DEF TypeOK, FixCursor
    <3>3. QED BY <1>10, <3>1, <3>2 DEF WriteFix, Goto, Abort
  <2>6. QED BY <1>10, <2>1, <2>2, <2>3, <2>4, <2>5 DEF WriteFix, ControlTypes, TypeOK,
       conts, netns, create, files, ends
<1>11. ASSUME NEW p \in Procs, StatMachineID(p) PROVE TypeOK'
  BY <1>11 DEF StatMachineID, Abort, ToTeardown, AfterFiles, AfterReach, TypeOK, conts, netns,
       create, files, Goto, End
<1>12. ASSUME NEW p \in Procs, MintMachineID(p) PROVE TypeOK'
  <2>1. AfterFiles(p) \in PCs
    BY DEF AfterFiles, AfterReach
  <2>2. ControlTypes'
    BY <1>12, <2>1, ReturnStep DEF MintMachineID
  <2>3. mid' \in [Runs -> Nat] /\ minted' \in Nat
    BY <1>12 DEF MintMachineID, Mint, TypeOK
  <2>4. QED BY <1>12, <2>2, <2>3 DEF MintMachineID, ControlTypes, TypeOK, conts, netns,
       create
<1>13. ASSUME NEW p \in Procs, OpenReachback(p) PROVE TypeOK'
  <2>1. TargetOf(p) \in Runs
    BY TargetIsRun
  <2>2. ControlTypes'
    BY <1>13, ReturnStep DEF OpenReachback
  <2>3. SidecarType' /\ NetnsTypes'
    BY <1>13, <2>1, NetnsStep, ReviveStep DEF OpenReachback, SidecarType, TypeOK
  <2>4. QED BY <1>13, <2>1, <2>2, <2>3 DEF OpenReachback, SidecarType, NetnsTypes,
       ControlTypes, TypeOK, conts, netns, create, files, ends
<1>14. ASSUME NEW p \in Procs, CloseReachback(p) PROVE TypeOK'
  <2>1. AfterReach(p) \in PCs
    BY DEF AfterReach
  <2>2. ControlTypes'
    BY <1>14, <2>1, ReturnStep DEF CloseReachback
  <2>3. probes' \in SUBSET Procs
    BY <1>14 DEF CloseReachback, TypeOK
  <2>4. QED BY <1>14, <2>2, <2>3 DEF CloseReachback, ControlTypes, TypeOK, conts,
       netns, create, files, ends
<1>14a. ASSUME NEW p \in Procs, OpenDirect(p) PROVE TypeOK'
  <2>1. TargetOf(p) \in Runs
    BY TargetIsRun
  <2>2. ControlTypes'
    BY <1>14a, ReturnStep DEF OpenDirect, ends
  <2>3. SidecarType' /\ NetnsTypes'
    BY <1>14a, <2>1, NetnsStep, ReviveStep DEF OpenDirect, SidecarType, TypeOK
  <2>4. QED BY <1>14a, <2>1, <2>2, <2>3 DEF OpenDirect, SidecarType, NetnsTypes,
       ControlTypes, TypeOK, conts, netns, create, files, ends
<1>14b. ASSUME NEW p \in Procs, CloseDirect(p) PROVE TypeOK'
  <2>1. ControlTypes'
    BY <1>14b, ReturnStep DEF CloseDirect, ends
  <2>2. probes' \in SUBSET Procs
    BY <1>14b DEF CloseDirect, TypeOK
  <2>3. QED BY <1>14b, <2>1, <2>2 DEF CloseDirect, ControlTypes, TypeOK, conts,
       netns, create, files, ends
<1>15. ASSUME NEW p \in Procs, RunTool(p) PROVE TypeOK'
  <2>1. TargetOf(p) \in Runs /\ Called(p) /\ Making(p, TargetOf(p))
    BY <1>15, TargetIsRun, CalledStep, MakingStep
  <2>2. ControlTypes'
    BY <2>1 DEF Called, ToTeardown, ControlTypes, TypeOK
  <2>3. SidecarType' /\ NetnsTypes'
    BY <2>1, NetnsStep, ReviveStep DEF Making, netns, SidecarType, TypeOK
  <2>4. tool' \in [Runs -> {"absent", "stopped", "running", "stranded", "removed"}]
    BY <2>1 DEF Making, TypeOK
  <2>5. launcher' \in [Runs -> Procs \cup {Nobody, User}]
    BY <2>1 DEF Making, TypeOK
  <2>6. autorm' \in [Runs -> BOOLEAN]
    BY <2>1 DEF Making, TypeOK, Job
  <2>7. QED BY <2>1, <2>2, <2>3, <2>4, <2>5, <2>6 DEF Called, SidecarType,
       NetnsTypes, ControlTypes, TypeOK
<1>16. ASSUME NEW p \in Procs, StartTool(p) PROVE TypeOK'
  <2>1. TargetOf(p) \in Runs /\ Called(p) /\ Making(p, TargetOf(p))
    BY <1>16, TargetIsRun, CalledStep, MakingStep
  <2>2. ControlTypes'
    BY <2>1 DEF Called, ToTeardown, ControlTypes, TypeOK
  <2>3. SidecarType' /\ NetnsTypes'
    BY <2>1, NetnsStep, ReviveStep DEF Making, netns, SidecarType, TypeOK
  <2>4. tool' \in [Runs -> {"absent", "stopped", "running", "stranded", "removed"}]
    BY <2>1 DEF Making, TypeOK
  <2>5. launcher' \in [Runs -> Procs \cup {Nobody, User}]
    BY <2>1 DEF Making, TypeOK
  <2>6. autorm' \in [Runs -> BOOLEAN]
    BY <2>1 DEF Making, TypeOK, Job
  <2>7. QED BY <2>1, <2>2, <2>3, <2>4, <2>5, <2>6 DEF Called, SidecarType,
       NetnsTypes, ControlTypes, TypeOK
<1>17. ASSUME NEW p \in Procs, Detach(p) PROVE TypeOK'
  BY <1>17 DEF Detach, ToTeardown, TypeOK, conts, netns, create, files, Goto, End
<1>18. ASSUME NEW p \in Procs, Sweep(p) PROVE TypeOK'
  <2>1. TargetOf(p) \in Runs
    BY TargetIsRun
  <2>2. ControlTypes'
    BY <1>18, ReturnStep DEF Sweep, AfterSweep, ends
  <2>3. at[p] \in 1..(NFix + 1) /\ NextFile(at[p], LastFile) \in 1..(NFix + 1)
    <3>1. at[p] \in 1..(NFix + 1)
      BY DEF TypeOK
    <3>2. QED BY <3>1, CursorInRange
  <2>4. fix' \in [Runs -> SUBSET AllFix] /\ mid' \in [Runs -> Nat]
    BY <1>18, <2>1 DEF Sweep, TypeOK
  <2>5. at' \in [Procs -> 1..(NFix + 1)]
    BY <1>18, <2>3 DEF Sweep, TypeOK
  <2>6. QED BY <1>18, <2>1, <2>2, <2>3, <2>4, <2>5 DEF Sweep, ControlTypes, TypeOK,
       conts, netns, create, files, ends
<1>19. ASSUME NEW p \in Procs, RemoveTool(p) PROVE TypeOK'
  <2>1. TargetOf(p) \in Runs /\ Losing(TargetOf(p))
    BY <1>19, TargetIsRun, LosingStep
  <2>2. ControlTypes'
    BY <1>19, ReturnStep DEF RemoveTool
  <2>3. tool' \in [Runs -> {"absent", "stopped", "running", "stranded", "removed"}]
    BY <2>1 DEF Losing, ToolAtRest, TypeOK
  <2>4. left' \in [Procs -> {"nothing", "reported", "silent"}]
    BY <1>19 DEF RemoveTool, Leaves, TypeOK
  <2>5. QED BY <1>19, <2>2, <2>3, <2>4 DEF RemoveTool, ControlTypes, TypeOK, netns,
       create, files
<1>20. ASSUME NEW p \in Procs, RemoveSidecar(p) PROVE TypeOK'
  <2>1. TargetOf(p) \in Runs /\ Losing(TargetOf(p))
    BY <1>20, TargetIsRun, LosingStep
  <2>2. ControlTypes'
    BY <1>20, ReturnStep DEF RemoveSidecar
  <2>3. SidecarType' /\ NetnsTypes'
    BY <2>1, NetnsStep DEF Losing, netns, SidecarType, TypeOK
  <2>4. left' \in [Procs -> {"nothing", "reported", "silent"}]
    BY <1>20 DEF RemoveSidecar, Leaves, TypeOK
  <2>5. QED BY <1>20, <2>2, <2>3, <2>4 DEF RemoveSidecar, SidecarType,
       NetnsTypes, ControlTypes, TypeOK, create, files
<1>21. ASSUME NEW p \in Procs, Guard(p) PROVE TypeOK'
  <2>1. ControlTypes'
    BY <1>21, ReturnStep DEF Guard
  <2>2. QED BY <1>21, <2>1 DEF Guard, ControlTypes, TypeOK, conts, netns, create, files
<1>22. ASSUME NEW p \in Procs, StopNamed(p) PROVE TypeOK'
  <2>1. TargetOf(p) \in Runs
    BY TargetIsRun
  <2>2. ControlTypes'
    BY <1>22 DEF StopNamed, End, Goto, ControlTypes, TypeOK
  <2>3. SidecarType' /\ NetnsTypes'
    BY <1>22, <2>1, NetnsStep DEF StopNamed, StopSidecar, conts, SidecarType, TypeOK
  <2>4. tool' \in [Runs -> {"absent", "stopped", "running", "stranded", "removed"}]
    BY <1>22, <2>1 DEF StopNamed, StopSidecar, ToolAtRest, conts, TypeOK
  <2>5. QED BY <1>22, <2>1, <2>2, <2>3, <2>4 DEF StopNamed, SidecarType, NetnsTypes,
       ControlTypes, TypeOK, conts, netns, create, files, ends
<1>23. ASSUME NEW p \in Procs, RemovePair(p) PROVE TypeOK'
  <2>1. TargetOf(p) \in Runs /\ Losing(TargetOf(p))
    BY <1>23, TargetIsRun, LosingStep
  <2>2. ControlTypes'
    BY <1>23, ReturnStep DEF RemovePair, AfterRm, AfterRmError
  <2>3. SidecarType' /\ NetnsTypes'
    BY <2>1, NetnsStep DEF Losing, netns, SidecarType, TypeOK
  <2>4. tool' \in [Runs -> {"absent", "stopped", "running", "stranded", "removed"}]
    BY <2>1 DEF Losing, ToolAtRest, TypeOK
  <2>5. probes' \subseteq Procs
    BY <1>23 DEF RemovePair, PairRemoved, PairPartly, DependentsRemoved, TypeOK
  <2>6. QED BY <1>23, <2>2, <2>3, <2>4, <2>5 DEF RemovePair, SidecarType, NetnsTypes,
       ControlTypes, TypeOK, create, files
<1>24. ASSUME NEW p \in Procs, CheckSidecar(p) PROVE TypeOK'
  <2>1. ControlTypes'
    BY <1>24, ReturnStep DEF CheckSidecar
  <2>2. QED BY <1>24, <2>1 DEF CheckSidecar, ControlTypes, TypeOK, conts, netns, create, files
<1>25. ASSUME NEW p \in Procs, CheckNamed(p) PROVE TypeOK'
  <2>1. ControlTypes'
    BY <1>25, ReturnStep DEF CheckNamed
  <2>2. QED BY <1>25, <2>1 DEF CheckNamed, ControlTypes, TypeOK, conts, netns, create, files
<1>26. ASSUME NEW p \in Procs, Exec(p) PROVE TypeOK'
  BY <1>26 DEF Exec, TypeOK, conts, netns, create, files, Goto, End
<1>27. ASSUME NEW p \in Procs, ProbeEnds(p) PROVE TypeOK'
  BY <1>27 DEF ProbeEnds, TypeOK, conts, netns, create, files, ends
<1>28. ASSUME NEW p \in Procs, Interrupt(p) PROVE TypeOK'
  BY <1>28 DEF Interrupt, TypeOK, conts, netns, create, files, ends
<1>29. ASSUME NEW p \in Procs, Kill(p) PROVE TypeOK'
  BY <1>29 DEF Kill, TypeOK, conts, netns, create, files, ends
<1>30. ASSUME NEW r \in Runs, ApplyRules(r) PROVE TypeOK'
  BY <1>30 DEF ApplyRules, TypeOK, conts, create, files, ends
<1>31. ASSUME NEW r \in Runs, RuleFails(r) PROVE TypeOK'
  BY <1>31 DEF RuleFails, TypeOK, conts, create, files, ends
<1>32. ASSUME NEW r \in Runs, ToolExits(r) PROVE TypeOK'
  BY <1>32 DEF ToolExits, ToolAtRest, TypeOK, netns, create, files, ends
<1>33. ASSUME NEW r \in Runs, SidecarDies(r) PROVE TypeOK'
  BY <1>33 DEF SidecarDies, StopSidecar, NoNetns, TypeOK, create, files, ends, SeenAfter
<1>34. ASSUME NEW r \in Runs, RawStart(r) PROVE TypeOK'
  <2>1. SidecarType' /\ NetnsTypes'
    BY <1>34, ReviveStep DEF RawStart
  <2>2. QED BY <1>34, <2>1 DEF RawStart, SidecarType, NetnsTypes, TypeOK, conts, netns,
       create, files, ends
<1>35. ASSUME NEW r \in Runs, TempSweep(r) PROVE TypeOK'
  BY <1>35 DEF TempSweep, TypeOK, conts, netns, create, ends
<1>36. ASSUME Reboot PROVE TypeOK'
  BY <1>36 DEF Reboot, TypeOK, create, files, ends, SeenAfter
<1>37. CASE UNCHANGED vars
  BY <1>37 DEF vars, TypeOK
<1>38. QED BY <1>1, <1>2, <1>3, <1>4, <1>5, <1>6, <1>7, <1>8, <1>9, <1>10, <1>11,
     <1>12, <1>13, <1>14, <1>14a, <1>14b, <1>15, <1>16, <1>17, <1>18, <1>19, <1>20,
     <1>21, <1>22,
     <1>23, <1>24, <1>25, <1>26, <1>27, <1>28, <1>29, <1>30, <1>31, <1>32, <1>33,
     <1>34, <1>35, <1>36, <1>37 DEF Next, Work, BuildStep, TeardownStep, ManageStep,
     Environment

\* TypeOK holds of every state the program can reach.
THEOREM TypeCorrect == Spec => []TypeOK
<1>1. Init => TypeOK
  BY NoJobIsJob, LifecycleAssumption DEF Init, TypeOK, LifecycleAssumption
<1>2. Init => FixCursor
  BY DEF Init, FixCursor
<1>3. TypeOK /\ FixCursor /\ [Next]_vars => TypeOK' /\ FixCursor'
  BY TypeStep, CursorStep
<1>4. QED BY <1>1, <1>2, <1>3, PTL DEF Spec

-----------------------------------------------------------------------------
(***************************************************************************)
(* The inductive invariant.                                                *)
(***************************************************************************)
RunJob(p)   == job[p].verb = "run"
StartJob(p) == job[p].verb = "start"
JailJob(p)  == RunJob(p) \/ StartJob(p)

\* What a process that was not launched yet is.
IdleInv == \A p \in Procs :
    pc[p] = "idle" => /\ job[p].verb = "none" /\ seen[p] = "none"
                      /\ outcome[p] = "none" /\ left[p] = "nothing"

\* A command is where its verb takes it.
PathInv == \A p \in Procs :
    /\ pc[p] \in {"resolve", "helper", "inspect", "attached"} \cup Building => JailJob(p)
    /\ pc[p] \in {"resolve", "inspect"} => StartJob(p)
    /\ pc[p] \in {"guard"} \cup Managing => ~JailJob(p)
    /\ pc[p] = "rmPair" => job[p].verb = "rm"
    /\ pc[p] = "sweep" => job[p].verb = "rm" \/ (JailJob(p) /\ job[p].rm)
    /\ pc[p] \in {"tdTool", "tdSidecar"} => JailJob(p) /\ job[p].rm
    /\ outcome[p] = "refused" => pc[p] \in Finished

\* A run id belongs to one run, and without a run there is no pair.
RunIdInv ==
    /\ \A p, q \in Procs :
          RunJob(p) /\ RunJob(q) /\ TargetOf(p) = TargetOf(q) => p = q
    /\ \A r \in Runs : sidecar[r] # "absent" \/ tool[r] # "absent"
          => \E p \in Procs : RunJob(p) /\ TargetOf(p) = r

\* A start that was not refused, from the reconcile on.
Reconciled(p) ==
    StartJob(p) /\ \/ pc[p] \in Building \cup {"attached"} \cup TearingDown
                   \/ pc[p] = "done" /\ outcome[p] # "refused"

\* How far a run has got tells which of its containers were created, and the
\* configuration that a run or a start has passed is the baked one.
CreatedInv == \A p \in Procs :
    /\ RunJob(p) /\ pc[p] \in {"helper", "sidecar"} => sidecar[TargetOf(p)] = "absent"
    /\ RunJob(p) /\ pc[p] \in {"helper"} \cup Building => tool[TargetOf(p)] = "absent"
    /\ StartJob(p) /\ pc[p] \in {"helper", "inspect"} => tool[TargetOf(p)] # "absent"
    /\ Reconciled(p) => tool[TargetOf(p)] # "absent" /\ sidecar[TargetOf(p)] # "absent"
    /\ (\/ pc[p] \in (Building \ {"sidecar"}) \cup {"attached"}
        \/ StartJob(p) /\ pc[p] = "sidecar")
            => sidecar[TargetOf(p)] # "absent" /\ baked[TargetOf(p)] = job[p].cfg

\* What a process has read still holds in the netns it read.
SeenInv == \A p \in Procs :
    /\ seen[p] = "current" => /\ sidecar[TargetOf(p)] = "running"
                              /\ "v4" \in fw[TargetOf(p)]
    /\ pc[p] \in {"v6"} \cup Verified => seen[p] # "none"
    /\ pc[p] \in Verified /\ seen[p] = "current" => fw[TargetOf(p)] = Families

\* The process that brought a tool up had verified its jail, the baked one.
LauncherInv == \A r \in Runs, p \in Procs :
    launcher[r] = p =>
        /\ TargetOf(p) = r
        /\ pc[p] \in {"attached"} \cup TearingDown \cup Finished
        /\ sidecar[r] # "absent" /\ baked[r] = job[p].cfg
        /\ seen[p] # "none"
        /\ seen[p] = "current" => fw[r] = Families

\* A process that is about to remove containers, or has done so.
Remover(p) ==
    /\ Removes(p)
    /\ pc[p] \notin {"idle", "xSidecar", "xNamed"} \cup BeforeJail

\* Whatever is removed, or will be by podman's --rm, was asked to be.
RemovedInv ==
    \A r \in Runs : sidecar[r] = "removed" \/ tool[r] = "removed" \/ autorm[r]
        => \E p \in Procs : TargetOf(p) = r /\ Remover(p)

\* What an ephemeral Teardown was not denied is gone for good.
GoneInv == \A p \in Procs :
    /\ pc[p] = "tdSidecar" /\ left[p] = "nothing" => ~ToolExists(TargetOf(p))
    /\ EndedEphemeral(p) /\ left[p] = "nothing" => Gone(TargetOf(p))

JailInv ==
    /\ IdleInv /\ PathInv /\ RunIdInv /\ CreatedInv
    /\ SeenInv /\ LauncherInv /\ RemovedInv /\ GoneInv

-----------------------------------------------------------------------------
(***************************************************************************)
(* What a step can do to a pair, to a netns and to a process.              *)
(***************************************************************************)
\* About to remove a container, or to create one that podman will remove.
Removing(p) == \/ pc[p] \in {"tdTool", "tdSidecar", "rmPair"}
               \/ pc[p] = "tool" /\ RunJob(p) /\ job[p].rm

\* The containers of a run come and go at the hands of the right processes.
PairMoves(r) ==
    /\ sidecar[r] # "absent" => sidecar'[r] # "absent"
    /\ tool[r] # "absent" => tool'[r] # "absent"
    /\ SidecarExists(r)' /\ ~SidecarExists(r) => sidecar[r] = "absent"
    /\ ToolExists(r)' /\ ~ToolExists(r) => tool[r] = "absent"
    /\ (sidecar[r] = "absent" /\ sidecar'[r] # "absent") \/ baked'[r] # baked[r]
            => \E p \in Procs : TargetOf(p) = r /\ CreateSidecar(p)
    /\ tool[r] = "absent" /\ tool'[r] # "absent"
            => \E p \in Procs : TargetOf(p) = r /\ RunTool(p)
    /\ sidecar'[r] = "removed" \/ tool'[r] = "removed" \/ autorm'[r]
            => \/ sidecar[r] = "removed" \/ tool[r] = "removed" \/ autorm[r]
               \/ \E p \in Procs : TargetOf(p) = r /\ Removing(p)

\* The netns that p has read goes away, or it stays and only gains rules.
NetnsMoves(p) ==
    \/ seen[p] = "current" /\ seen'[p] = "gone"
    \/ /\ seen'[p] = seen[p]
       /\ seen[p] = "current" => /\ sidecar'[TargetOf(p)] = sidecar[TargetOf(p)]
                                 /\ fw[TargetOf(p)] \subseteq fw'[TargetOf(p)]
    \/ ProbeV4(p)

\* Where p goes on its way to the tool, and what it has made sure of.
ControlMoves(p) ==
    \/ pc'[p] = pc[p]
    \/ Launch(p)
    \/ pc[p] = "resolve" /\ pc'[p] = "helper" /\ ToolExists(TargetOf(p))
    \/ pc[p] = "helper" /\ RunJob(p) /\ pc'[p] = "sidecar"
    \/ pc[p] = "helper" /\ ~RunJob(p) /\ pc'[p] = "inspect"
    \/ /\ pc[p] = "inspect" /\ pc'[p] = "sidecar"
       /\ SidecarExists(TargetOf(p)) /\ SameConfig(p)
    \/ /\ pc[p] = "sidecar" /\ pc'[p] = "v4"
       /\ RunJob(p) => CreateSidecar(p) /\ sidecar'[TargetOf(p)] = "running"
    \/ pc[p] = "v4" /\ pc'[p] = "v6" /\ ProbeV4(p)
    \/ pc[p] = "v6" /\ pc'[p] = "dns" /\ "v6" \in fw[TargetOf(p)] /\ UNCHANGED netns
    \/ pc[p] \in Verified \ {"attached"} /\ pc'[p] \in Verified \ {"dns", "attached"}
    \/ pc[p] = "tool" /\ pc'[p] = "attached"
    \/ /\ pc[p] \in Building \cup {"attached", "rmPair"} \cup TearingDown
       /\ pc'[p] \in TearingDown
    \/ pc[p] \in {"guard"} \cup Managing /\ pc'[p] \in Managing
    \/ pc'[p] \in Finished

\* Who a tool was brought up by changes only when a tool is brought up.
LauncherMoves(r) ==
    \/ launcher'[r] = launcher[r]
    \/ launcher'[r] = User
    \/ \E p \in Procs : /\ TargetOf(p) = r /\ launcher'[r] = p
                        /\ pc[p] = "tool"
                        /\ pc'[p] \in {"attached"} \cup TearingDown \cup Finished

\* How an ephemeral Teardown comes to its last step, and to its end.
TeardownMoves(p) ==
    /\ pc'[p] = "tdSidecar" /\ left'[p] = "nothing"
          => \/ pc[p] = "tdSidecar" /\ left[p] = "nothing"
             \/ pc[p] = "tdTool" /\ ~ToolExists(TargetOf(p))'
    /\ pc'[p] = "done" /\ left'[p] = "nothing" /\ JailJob(p) /\ job[p].rm
         /\ outcome'[p] # "refused"
          => \/ pc[p] = "done" /\ left[p] = "nothing" /\ outcome[p] # "refused"
             \/ /\ pc[p] = "tdSidecar" /\ left[p] = "nothing"
                /\ ~SidecarExists(TargetOf(p))'

-----------------------------------------------------------------------------

\* A step creates a container only as its run, and removes one only as a command
\* that is about to.
LEMMA PairStep ==
    ASSUME TypeOK, [Next]_vars, CreatedInv
    PROVE  \A r \in Runs : PairMoves(r)
<1> SUFFICES ASSUME NEW s \in Runs PROVE PairMoves(s)
  OBVIOUS
<1> USE DEF TypeOK, PairMoves, SidecarExists, ToolExists, Removing, RunJob, Up
<1>1. ASSUME NEW p \in Procs, Launch(p) PROVE PairMoves(s)
  BY <1>1 DEF Launch, conts, netns, create, files, ends, Goto
<1>2. ASSUME NEW p \in Procs, ResolveTool(p) PROVE PairMoves(s)
  BY <1>2 DEF ResolveTool, Refuse, conts, netns, create, files, Goto, End
<1>3. ASSUME NEW p \in Procs, FindHelper(p) PROVE PairMoves(s)
  BY <1>3 DEF FindHelper, Refuse, conts, netns, create, files, Goto, End
<1>4. ASSUME NEW p \in Procs, Reconcile(p) PROVE PairMoves(s)
  BY <1>4 DEF Reconcile, Refuse, conts, netns, create, files, Goto, End
<1>5. ASSUME NEW p \in Procs, CreateSidecar(p) PROVE PairMoves(s)
  <2>1. TargetOf(p) \in Runs
    BY TargetIsRun
  <2>2. sidecar[TargetOf(p)] = "absent"
    BY <1>5 DEF CreateSidecar, CreatedInv, Goto, Abort
  <2>3. UNCHANGED <<tool, autorm>>
    BY <1>5 DEF CreateSidecar
  <2>4. CASE s # TargetOf(p)
    <3>1. sidecar'[s] = sidecar[s] /\ baked'[s] = baked[s]
      BY <1>5, <2>1, <2>4 DEF CreateSidecar
    <3>2. QED BY <2>3, <3>1
  <2>5. CASE s = TargetOf(p)
    <3>1. sidecar'[s] # "removed"
      BY <1>5, <2>1, <2>2, <2>5 DEF CreateSidecar
    <3>2. QED BY <1>5, <2>2, <2>3, <2>5, <3>1
  <2>6. QED BY <2>4, <2>5
<1>6. ASSUME NEW p \in Procs, ReviveSidecar(p) PROVE PairMoves(s)
  BY <1>6 DEF ReviveSidecar, Abort, ToTeardown, Revive, FreshNetns, AfterRevive, netns,
       create, files, Goto, End
<1>7. ASSUME NEW p \in Procs, ProbeV4(p) PROVE PairMoves(s)
  BY <1>7 DEF ProbeV4, Abort, ToTeardown, RulesPresent, conts, create, files, Goto, End
<1>8. ASSUME NEW p \in Procs, ProbeV6(p) PROVE PairMoves(s)
  BY <1>8 DEF ProbeV6, Abort, ToTeardown, RulesPresent, conts, netns, create, files,
       Goto, End
<1>9. ASSUME NEW p \in Procs, StartDNS(p) PROVE PairMoves(s)
  BY <1>9 DEF StartDNS, Abort, ToTeardown, conts, create, files, Goto, End
<1>10. ASSUME NEW p \in Procs, WriteFix(p) PROVE PairMoves(s)
  BY <1>10 DEF WriteFix, Abort, ToTeardown, NextFile, AllFix, conts, netns, create,
       Goto, End
<1>11. ASSUME NEW p \in Procs, StatMachineID(p) PROVE PairMoves(s)
  BY <1>11 DEF StatMachineID, Abort, ToTeardown, AfterFiles, AfterReach, conts, netns, create,
       files, Goto, End
<1>12. ASSUME NEW p \in Procs, MintMachineID(p) PROVE PairMoves(s)
  BY <1>12 DEF MintMachineID, Abort, ToTeardown, AfterFiles, AfterReach, conts, netns, create,
       Goto, End
<1>13. ASSUME NEW p \in Procs, OpenReachback(p) PROVE PairMoves(s)
  BY <1>13 DEF OpenReachback, Abort, ToTeardown, Revive, FreshNetns, netns, create,
       files, Goto, End
<1>14. ASSUME NEW p \in Procs, CloseReachback(p) PROVE PairMoves(s)
  BY <1>14 DEF CloseReachback, Abort, ToTeardown, AfterReach, conts, netns, create, files, Goto, End
<1>14a. ASSUME NEW p \in Procs, OpenDirect(p) PROVE PairMoves(s)
  BY <1>14a DEF OpenDirect, Revive, FreshNetns, netns, create, ends,
       files, Goto, End
<1>14b. ASSUME NEW p \in Procs, CloseDirect(p) PROVE PairMoves(s)
  BY <1>14b DEF CloseDirect, conts, netns, create, ends, files, Goto, End
<1>15. ASSUME NEW p \in Procs, RunTool(p) PROVE PairMoves(s)
  <2>1. TargetOf(p) \in Runs /\ Called(p) /\ Making(p, TargetOf(p))
    BY <1>15, TargetIsRun, CalledStep, MakingStep
  <2>2. (Removing(p) <=> job[p].rm) /\ RunJob(p)
    BY <1>15, <2>1 DEF RunTool, Called
  <2>3. tool[TargetOf(p)] = "absent"
    BY <2>1, <2>2 DEF CreatedInv, Called, Building
  <2>4. \/ UNCHANGED sidecar
        \/ SidecarExists(TargetOf(p)) /\ sidecar' = [sidecar EXCEPT ![TargetOf(p)] = "running"]
    BY <2>1 DEF Making, Revive
  <2>5. baked' = baked
    BY <2>1 DEF Called
  <2>6. \/ UNCHANGED <<tool, autorm>>
        \/ /\ autorm' = [autorm EXCEPT ![TargetOf(p)] = job[p].rm]
           /\ \E s2 \in {"running", "stopped"} : tool' = [tool EXCEPT ![TargetOf(p)] = s2]
        \/ /\ job[p].rm
           /\ autorm' = [autorm EXCEPT ![TargetOf(p)] = job[p].rm]
           /\ tool' = [tool EXCEPT ![TargetOf(p)] = "removed"]
    BY <2>1, <2>3 DEF Making
  <2>7. CASE s # TargetOf(p)
    <3>1. sidecar'[s] = sidecar[s] /\ tool'[s] = tool[s] /\ autorm'[s] = autorm[s]
      BY <2>1, <2>4, <2>6, <2>7
    <3>2. QED BY <2>5, <3>1
  <2>8. CASE s = TargetOf(p)
    <3>1. /\ sidecar[s] # "absent" => sidecar'[s] # "absent"
          /\ sidecar[s] = "absent" => sidecar'[s] = "absent"
          /\ SidecarExists(s)' => SidecarExists(s)
          /\ sidecar'[s] = "removed" => sidecar[s] = "removed"
      BY <2>1, <2>4, <2>8
    <3>2. /\ tool[s] = "absent" /\ ~ToolExists(s)
          /\ tool'[s] = "removed" \/ autorm'[s] => autorm[s] \/ job[p].rm
      BY <2>1, <2>3, <2>6, <2>8
    <3>3. QED BY <1>15, <2>2, <2>5, <2>8, <3>1, <3>2
  <2>9. QED BY <2>7, <2>8
<1>16. ASSUME NEW p \in Procs, StartTool(p) PROVE PairMoves(s)
  <2>1. TargetOf(p) \in Runs /\ Called(p) /\ Making(p, TargetOf(p))
    BY <1>16, TargetIsRun, CalledStep, MakingStep
  <2>2. ~RunTool(p)
    BY <1>16 DEF StartTool, RunTool
  <2>3. \/ UNCHANGED tool
        \/ tool[TargetOf(p)] = "stopped" /\ tool' = [tool EXCEPT ![TargetOf(p)] = "running"]
    BY <2>1, <2>2 DEF Making
  <2>4. \/ UNCHANGED sidecar
        \/ SidecarExists(TargetOf(p)) /\ sidecar' = [sidecar EXCEPT ![TargetOf(p)] = "running"]
    BY <2>1 DEF Making, Revive
  <2>5. UNCHANGED <<baked, autorm>>
    BY <2>1, <2>2 DEF Called, Making
  <2>6. QED BY <2>1, <2>3, <2>4, <2>5
<1>17. ASSUME NEW p \in Procs, Detach(p) PROVE PairMoves(s)
  BY <1>17 DEF Detach, ToTeardown, conts, netns, create, files, Goto, End
<1>18. ASSUME NEW p \in Procs, Sweep(p) PROVE PairMoves(s)
  BY <1>18 DEF Sweep, NextFile, LastFile, AfterSweep, AllFix, conts, netns, create,
       ends, Goto
<1>19. ASSUME NEW p \in Procs, RemoveTool(p) PROVE PairMoves(s)
  <2>1. TargetOf(p) \in Runs /\ Losing(TargetOf(p))
    BY <1>19, TargetIsRun, LosingStep
  <2>2. Removing(p) /\ UNCHANGED <<baked, autorm>>
    BY <1>19 DEF RemoveTool, Goto, create
  <2>3. QED BY <2>1, <2>2 DEF Losing, ToolAtRest
<1>20. ASSUME NEW p \in Procs, RemoveSidecar(p) PROVE PairMoves(s)
  <2>1. TargetOf(p) \in Runs /\ Losing(TargetOf(p))
    BY <1>20, TargetIsRun, LosingStep
  <2>2. Removing(p) /\ UNCHANGED <<baked, autorm>>
    BY <1>20 DEF RemoveSidecar, Goto, create
  <2>3. QED BY <2>1, <2>2 DEF Losing, ToolAtRest
<1>21. ASSUME NEW p \in Procs, Guard(p) PROVE PairMoves(s)
  BY <1>21 DEF Guard, Refuse, conts, netns, create, files, Goto, End
<1>22. ASSUME NEW p \in Procs, StopNamed(p) PROVE PairMoves(s)
  BY <1>22 DEF StopNamed, StopSidecar, NoNetns, ToolAtRest, conts, netns, create,
       files, Goto, End
<1>23. ASSUME NEW p \in Procs, RemovePair(p) PROVE PairMoves(s)
  <2>1. TargetOf(p) \in Runs /\ Losing(TargetOf(p))
    BY <1>23, TargetIsRun, LosingStep
  <2>2. Removing(p) /\ UNCHANGED <<baked, autorm>>
    BY <1>23 DEF RemovePair, Goto, create
  <2>3. QED BY <2>1, <2>2 DEF Losing, ToolAtRest
<1>24. ASSUME NEW p \in Procs, CheckSidecar(p) PROVE PairMoves(s)
  BY <1>24 DEF CheckSidecar, Refuse, conts, netns, create, files, Goto, End
<1>25. ASSUME NEW p \in Procs, CheckNamed(p) PROVE PairMoves(s)
  BY <1>25 DEF CheckNamed, Refuse, conts, netns, create, files, Goto, End
<1>26. ASSUME NEW p \in Procs, Exec(p) PROVE PairMoves(s)
  BY <1>26 DEF Exec, conts, netns, create, files, Goto, End
<1>27. ASSUME NEW p \in Procs, ProbeEnds(p) PROVE PairMoves(s)
  BY <1>27 DEF ProbeEnds, conts, netns, create, files, ends
<1>28. ASSUME NEW p \in Procs, Interrupt(p) PROVE PairMoves(s)
  BY <1>28 DEF Interrupt, conts, netns, create, files, ends
<1>29. ASSUME NEW p \in Procs, Kill(p) PROVE PairMoves(s)
  BY <1>29 DEF Kill, conts, netns, create, files, ends
<1>30. ASSUME NEW r \in Runs, ApplyRules(r) PROVE PairMoves(s)
  BY <1>30 DEF ApplyRules, conts, create, files, ends
<1>31. ASSUME NEW r \in Runs, RuleFails(r) PROVE PairMoves(s)
  BY <1>31 DEF RuleFails, conts, create, files, ends
<1>32. ASSUME NEW r \in Runs, ToolExits(r) PROVE PairMoves(s)
  BY <1>32 DEF ToolExits, ToolAtRest, netns, create, files, ends
<1>33. ASSUME NEW r \in Runs, SidecarDies(r) PROVE PairMoves(s)
  BY <1>33 DEF SidecarDies, StopSidecar, NoNetns, create, files, ends
<1>34. ASSUME NEW r \in Runs, RawStart(r) PROVE PairMoves(s)
  BY <1>34 DEF RawStart, Revive, FreshNetns, create, files, ends
<1>35. ASSUME NEW r \in Runs, TempSweep(r) PROVE PairMoves(s)
  BY <1>35 DEF TempSweep, conts, netns, create, ends
<1>36. ASSUME Reboot PROVE PairMoves(s)
  BY <1>36 DEF Reboot, create, files, ends
<1>37. CASE UNCHANGED vars
  BY <1>37 DEF vars
<1>38. QED BY <1>1, <1>2, <1>3, <1>4, <1>5, <1>6, <1>7, <1>8, <1>9, <1>10, <1>11,
     <1>12, <1>13, <1>14, <1>14a, <1>14b, <1>15, <1>16, <1>17, <1>18, <1>19, <1>20,
     <1>21, <1>22,
     <1>23, <1>24, <1>25, <1>26, <1>27, <1>28, <1>29, <1>30, <1>31, <1>32, <1>33,
     <1>34, <1>35, <1>36, <1>37 DEF Next, Work, BuildStep, TeardownStep, ManageStep,
     Environment

\* A process that removes containers stays one.
LEMMA RemoverStep ==
    ASSUME TypeOK, [Next]_vars
    PROVE  \A p \in Procs : Remover(p) => Remover(p)'
<1> SUFFICES ASSUME NEW q \in Procs, Remover(q) PROVE Remover(q)'
  OBVIOUS
<1> USE DEF TypeOK, Remover, Removes
<1>1. ASSUME NEW p \in Procs, Launch(p) PROVE Remover(q)'
  BY <1>1 DEF Launch, conts, netns, create, files, ends, Goto
<1>2. ASSUME NEW p \in Procs, ResolveTool(p) PROVE Remover(q)'
  BY <1>2 DEF ResolveTool, Refuse, conts, netns, create, files, Goto, End
<1>3. ASSUME NEW p \in Procs, FindHelper(p) PROVE Remover(q)'
  BY <1>3 DEF FindHelper, Refuse, conts, netns, create, files, Goto, End
<1>4. ASSUME NEW p \in Procs, Reconcile(p) PROVE Remover(q)'
  BY <1>4 DEF Reconcile, Refuse, conts, netns, create, files, Goto, End
<1>5. ASSUME NEW p \in Procs, CreateSidecar(p) PROVE Remover(q)'
  BY <1>5 DEF CreateSidecar, Abort, ToTeardown, FreshNetns, netns, files, Goto, End
<1>6. ASSUME NEW p \in Procs, ReviveSidecar(p) PROVE Remover(q)'
  BY <1>6 DEF ReviveSidecar, Abort, ToTeardown, Revive, FreshNetns, AfterRevive, netns,
       create, files, Goto, End
<1>7. ASSUME NEW p \in Procs, ProbeV4(p) PROVE Remover(q)'
  BY <1>7 DEF ProbeV4, Abort, ToTeardown, RulesPresent, conts, create, files, Goto, End
<1>8. ASSUME NEW p \in Procs, ProbeV6(p) PROVE Remover(q)'
  BY <1>8 DEF ProbeV6, Abort, ToTeardown, RulesPresent, conts, netns, create, files,
       Goto, End
<1>9. ASSUME NEW p \in Procs, StartDNS(p) PROVE Remover(q)'
  BY <1>9 DEF StartDNS, Abort, ToTeardown, conts, create, files, Goto, End
<1>10. ASSUME NEW p \in Procs, WriteFix(p) PROVE Remover(q)'
  BY <1>10 DEF WriteFix, Abort, ToTeardown, NextFile, AllFix, conts, netns, create,
       Goto, End
<1>11. ASSUME NEW p \in Procs, StatMachineID(p) PROVE Remover(q)'
  BY <1>11 DEF StatMachineID, Abort, ToTeardown, AfterFiles, AfterReach, conts, netns, create,
       files, Goto, End
<1>12. ASSUME NEW p \in Procs, MintMachineID(p) PROVE Remover(q)'
  BY <1>12 DEF MintMachineID, Abort, ToTeardown, AfterFiles, AfterReach, conts, netns, create,
       Goto, End
<1>13. ASSUME NEW p \in Procs, OpenReachback(p) PROVE Remover(q)'
  BY <1>13 DEF OpenReachback, Abort, ToTeardown, Revive, FreshNetns, netns, create,
       files, Goto, End
<1>14. ASSUME NEW p \in Procs, CloseReachback(p) PROVE Remover(q)'
  BY <1>14 DEF CloseReachback, Abort, ToTeardown, AfterReach, conts, netns, create, files, Goto, End
<1>14a. ASSUME NEW p \in Procs, OpenDirect(p) PROVE Remover(q)'
  BY <1>14a DEF OpenDirect, Revive, FreshNetns, netns, create, ends,
       files, Goto, End
<1>14b. ASSUME NEW p \in Procs, CloseDirect(p) PROVE Remover(q)'
  BY <1>14b DEF CloseDirect, conts, netns, create, ends, files, Goto, End
<1>15. ASSUME NEW p \in Procs, RunTool(p) PROVE Remover(q)'
  BY <1>15, CalledStep DEF Called, ToTeardown
<1>16. ASSUME NEW p \in Procs, StartTool(p) PROVE Remover(q)'
  BY <1>16, CalledStep DEF Called, ToTeardown
<1>17. ASSUME NEW p \in Procs, Detach(p) PROVE Remover(q)'
  BY <1>17 DEF Detach, ToTeardown, conts, netns, create, files, Goto, End
<1>18. ASSUME NEW p \in Procs, Sweep(p) PROVE Remover(q)'
  BY <1>18 DEF Sweep, NextFile, LastFile, AfterSweep, AllFix, conts, netns, create,
       ends, Goto
<1>19. ASSUME NEW p \in Procs, RemoveTool(p) PROVE Remover(q)'
  BY <1>19 DEF RemoveTool, Leaves, netns, create, files, Goto
<1>20. ASSUME NEW p \in Procs, RemoveSidecar(p) PROVE Remover(q)'
  BY <1>20 DEF RemoveSidecar, Leaves, NoNetns, netns, create, files, Goto
<1>21. ASSUME NEW p \in Procs, Guard(p) PROVE Remover(q)'
  BY <1>21 DEF Guard, Refuse, conts, netns, create, files, Goto, End
<1>22. ASSUME NEW p \in Procs, StopNamed(p) PROVE Remover(q)'
  BY <1>22 DEF StopNamed, StopSidecar, NoNetns, ToolAtRest, conts, netns, create,
       files, Goto, End
<1>23. ASSUME NEW p \in Procs, RemovePair(p) PROVE Remover(q)'
  BY <1>23 DEF RemovePair, NoNetns, AfterRm, AfterRmError, conts, netns, create, files,
       Goto, End
<1>24. ASSUME NEW p \in Procs, CheckSidecar(p) PROVE Remover(q)'
  BY <1>24 DEF CheckSidecar, Refuse, conts, netns, create, files, Goto, End
<1>25. ASSUME NEW p \in Procs, CheckNamed(p) PROVE Remover(q)'
  BY <1>25 DEF CheckNamed, Refuse, conts, netns, create, files, Goto, End
<1>26. ASSUME NEW p \in Procs, Exec(p) PROVE Remover(q)'
  BY <1>26 DEF Exec, conts, netns, create, files, Goto, End
<1>27. ASSUME NEW p \in Procs, ProbeEnds(p) PROVE Remover(q)'
  BY <1>27 DEF ProbeEnds, conts, netns, create, files, ends
<1>28. ASSUME NEW p \in Procs, Interrupt(p) PROVE Remover(q)'
  BY <1>28 DEF Interrupt, conts, netns, create, files, ends
<1>29. ASSUME NEW p \in Procs, Kill(p) PROVE Remover(q)'
  BY <1>29 DEF Kill, conts, netns, create, files, ends
<1>30. ASSUME NEW r \in Runs, ApplyRules(r) PROVE Remover(q)'
  BY <1>30 DEF ApplyRules, conts, create, files, ends
<1>31. ASSUME NEW r \in Runs, RuleFails(r) PROVE Remover(q)'
  BY <1>31 DEF RuleFails, conts, create, files, ends
<1>32. ASSUME NEW r \in Runs, ToolExits(r) PROVE Remover(q)'
  BY <1>32 DEF ToolExits, ToolAtRest, netns, create, files, ends
<1>33. ASSUME NEW r \in Runs, SidecarDies(r) PROVE Remover(q)'
  BY <1>33 DEF SidecarDies, StopSidecar, NoNetns, create, files, ends
<1>34. ASSUME NEW r \in Runs, RawStart(r) PROVE Remover(q)'
  BY <1>34 DEF RawStart, Revive, FreshNetns, create, files, ends
<1>35. ASSUME NEW r \in Runs, TempSweep(r) PROVE Remover(q)'
  BY <1>35 DEF TempSweep, conts, netns, create, ends
<1>36. ASSUME Reboot PROVE Remover(q)'
  BY <1>36 DEF Reboot, create, files, ends
<1>37. CASE UNCHANGED vars
  BY <1>37 DEF vars
<1>38. QED BY <1>1, <1>2, <1>3, <1>4, <1>5, <1>6, <1>7, <1>8, <1>9, <1>10, <1>11,
     <1>12, <1>13, <1>14, <1>14a, <1>14b, <1>15, <1>16, <1>17, <1>18, <1>19, <1>20,
     <1>21, <1>22,
     <1>23, <1>24, <1>25, <1>26, <1>27, <1>28, <1>29, <1>30, <1>31, <1>32, <1>33,
     <1>34, <1>35, <1>36, <1>37 DEF Next, Work, BuildStep, TeardownStep, ManageStep,
     Environment

\* A command line is only ever set by the launch.
LEMMA JobStep ==
    ASSUME TypeOK, [Next]_vars
    PROVE  \A p \in Procs : job'[p] = job[p] \/ Launch(p)
<1> SUFFICES ASSUME NEW q \in Procs PROVE job'[q] = job[q] \/ Launch(q)
  OBVIOUS
<1> USE DEF TypeOK
<1>1. ASSUME NEW p \in Procs, Launch(p) PROVE job'[q] = job[q] \/ Launch(q)
  <2>1. CASE q = p
    BY <1>1, <2>1
  <2>2. CASE q # p
    BY <1>1, <2>2 DEF Launch, Goto
  <2>3. QED BY <2>1, <2>2
<1>2. ASSUME NEW p \in Procs, ResolveTool(p) PROVE job'[q] = job[q] \/ Launch(q)
  BY <1>2 DEF ResolveTool, Refuse, conts, netns, create, files, Goto, End
<1>3. ASSUME NEW p \in Procs, FindHelper(p) PROVE job'[q] = job[q] \/ Launch(q)
  BY <1>3 DEF FindHelper, Refuse, conts, netns, create, files, Goto, End
<1>4. ASSUME NEW p \in Procs, Reconcile(p) PROVE job'[q] = job[q] \/ Launch(q)
  BY <1>4 DEF Reconcile, Refuse, conts, netns, create, files, Goto, End
<1>5. ASSUME NEW p \in Procs, CreateSidecar(p) PROVE job'[q] = job[q] \/ Launch(q)
  BY <1>5 DEF CreateSidecar, Abort, ToTeardown, FreshNetns, netns, files, Goto, End
<1>6. ASSUME NEW p \in Procs, ReviveSidecar(p) PROVE job'[q] = job[q] \/ Launch(q)
  BY <1>6 DEF ReviveSidecar, Abort, ToTeardown, Revive, FreshNetns, AfterRevive, netns,
       create, files, Goto, End
<1>7. ASSUME NEW p \in Procs, ProbeV4(p) PROVE job'[q] = job[q] \/ Launch(q)
  BY <1>7 DEF ProbeV4, Abort, ToTeardown, RulesPresent, conts, create, files, Goto, End
<1>8. ASSUME NEW p \in Procs, ProbeV6(p) PROVE job'[q] = job[q] \/ Launch(q)
  BY <1>8 DEF ProbeV6, Abort, ToTeardown, RulesPresent, conts, netns, create, files,
       Goto, End
<1>9. ASSUME NEW p \in Procs, StartDNS(p) PROVE job'[q] = job[q] \/ Launch(q)
  BY <1>9 DEF StartDNS, Abort, ToTeardown, conts, create, files, Goto, End
<1>10. ASSUME NEW p \in Procs, WriteFix(p) PROVE job'[q] = job[q] \/ Launch(q)
  BY <1>10 DEF WriteFix, Abort, ToTeardown, NextFile, AllFix, conts, netns, create,
       Goto, End
<1>11. ASSUME NEW p \in Procs, StatMachineID(p) PROVE job'[q] = job[q] \/ Launch(q)
  BY <1>11 DEF StatMachineID, Abort, ToTeardown, AfterFiles, AfterReach, conts, netns, create,
       files, Goto, End
<1>12. ASSUME NEW p \in Procs, MintMachineID(p) PROVE job'[q] = job[q] \/ Launch(q)
  BY <1>12 DEF MintMachineID, Abort, ToTeardown, AfterFiles, AfterReach, conts, netns, create,
       Goto, End
<1>13. ASSUME NEW p \in Procs, OpenReachback(p) PROVE job'[q] = job[q] \/ Launch(q)
  BY <1>13 DEF OpenReachback, Abort, ToTeardown, Revive, FreshNetns, netns, create,
       files, Goto, End
<1>14. ASSUME NEW p \in Procs, CloseReachback(p) PROVE job'[q] = job[q] \/ Launch(q)
  BY <1>14 DEF CloseReachback, Abort, ToTeardown, AfterReach, conts, netns, create, files, Goto, End
<1>14a. ASSUME NEW p \in Procs, OpenDirect(p) PROVE job'[q] = job[q] \/ Launch(q)
  BY <1>14a DEF OpenDirect, Revive, FreshNetns, netns, create, ends,
       files, Goto, End
<1>14b. ASSUME NEW p \in Procs, CloseDirect(p) PROVE job'[q] = job[q] \/ Launch(q)
  BY <1>14b DEF CloseDirect, conts, netns, create, ends, files, Goto, End
<1>15. ASSUME NEW p \in Procs, RunTool(p) PROVE job'[q] = job[q] \/ Launch(q)
  BY <1>15, CalledStep DEF Called, ToTeardown
<1>16. ASSUME NEW p \in Procs, StartTool(p) PROVE job'[q] = job[q] \/ Launch(q)
  BY <1>16, CalledStep DEF Called, ToTeardown
<1>17. ASSUME NEW p \in Procs, Detach(p) PROVE job'[q] = job[q] \/ Launch(q)
  BY <1>17 DEF Detach, ToTeardown, conts, netns, create, files, Goto, End
<1>18. ASSUME NEW p \in Procs, Sweep(p) PROVE job'[q] = job[q] \/ Launch(q)
  BY <1>18 DEF Sweep, NextFile, LastFile, AfterSweep, AllFix, conts, netns, create,
       ends, Goto
<1>19. ASSUME NEW p \in Procs, RemoveTool(p) PROVE job'[q] = job[q] \/ Launch(q)
  BY <1>19 DEF RemoveTool, Leaves, netns, create, files, Goto
<1>20. ASSUME NEW p \in Procs, RemoveSidecar(p) PROVE job'[q] = job[q] \/ Launch(q)
  BY <1>20 DEF RemoveSidecar, Leaves, NoNetns, netns, create, files, Goto
<1>21. ASSUME NEW p \in Procs, Guard(p) PROVE job'[q] = job[q] \/ Launch(q)
  BY <1>21 DEF Guard, Refuse, conts, netns, create, files, Goto, End
<1>22. ASSUME NEW p \in Procs, StopNamed(p) PROVE job'[q] = job[q] \/ Launch(q)
  BY <1>22 DEF StopNamed, StopSidecar, NoNetns, ToolAtRest, conts, netns, create,
       files, Goto, End
<1>23. ASSUME NEW p \in Procs, RemovePair(p) PROVE job'[q] = job[q] \/ Launch(q)
  BY <1>23 DEF RemovePair, NoNetns, AfterRm, AfterRmError, conts, netns, create, files,
       Goto, End
<1>24. ASSUME NEW p \in Procs, CheckSidecar(p) PROVE job'[q] = job[q] \/ Launch(q)
  BY <1>24 DEF CheckSidecar, Refuse, conts, netns, create, files, Goto, End
<1>25. ASSUME NEW p \in Procs, CheckNamed(p) PROVE job'[q] = job[q] \/ Launch(q)
  BY <1>25 DEF CheckNamed, Refuse, conts, netns, create, files, Goto, End
<1>26. ASSUME NEW p \in Procs, Exec(p) PROVE job'[q] = job[q] \/ Launch(q)
  BY <1>26 DEF Exec, conts, netns, create, files, Goto, End
<1>27. ASSUME NEW p \in Procs, ProbeEnds(p) PROVE job'[q] = job[q] \/ Launch(q)
  BY <1>27 DEF ProbeEnds, conts, netns, create, files, ends
<1>28. ASSUME NEW p \in Procs, Interrupt(p) PROVE job'[q] = job[q] \/ Launch(q)
  BY <1>28 DEF Interrupt, conts, netns, create, files, ends
<1>29. ASSUME NEW p \in Procs, Kill(p) PROVE job'[q] = job[q] \/ Launch(q)
  BY <1>29 DEF Kill, conts, netns, create, files, ends
<1>30. ASSUME NEW r \in Runs, ApplyRules(r) PROVE job'[q] = job[q] \/ Launch(q)
  BY <1>30 DEF ApplyRules, conts, create, files, ends
<1>31. ASSUME NEW r \in Runs, RuleFails(r) PROVE job'[q] = job[q] \/ Launch(q)
  BY <1>31 DEF RuleFails, conts, create, files, ends
<1>32. ASSUME NEW r \in Runs, ToolExits(r) PROVE job'[q] = job[q] \/ Launch(q)
  BY <1>32 DEF ToolExits, ToolAtRest, netns, create, files, ends
<1>33. ASSUME NEW r \in Runs, SidecarDies(r) PROVE job'[q] = job[q] \/ Launch(q)
  BY <1>33 DEF SidecarDies, StopSidecar, NoNetns, create, files, ends
<1>34. ASSUME NEW r \in Runs, RawStart(r) PROVE job'[q] = job[q] \/ Launch(q)
  BY <1>34 DEF RawStart, Revive, FreshNetns, create, files, ends
<1>35. ASSUME NEW r \in Runs, TempSweep(r) PROVE job'[q] = job[q] \/ Launch(q)
  BY <1>35 DEF TempSweep, conts, netns, create, ends
<1>36. ASSUME Reboot PROVE job'[q] = job[q] \/ Launch(q)
  BY <1>36 DEF Reboot, create, files, ends
<1>37. CASE UNCHANGED vars
  BY <1>37 DEF vars
<1>38. QED BY <1>1, <1>2, <1>3, <1>4, <1>5, <1>6, <1>7, <1>8, <1>9, <1>10, <1>11,
     <1>12, <1>13, <1>14, <1>14a, <1>14b, <1>15, <1>16, <1>17, <1>18, <1>19, <1>20,
     <1>21, <1>22,
     <1>23, <1>24, <1>25, <1>26, <1>27, <1>28, <1>29, <1>30, <1>31, <1>32, <1>33,
     <1>34, <1>35, <1>36, <1>37 DEF Next, Work, BuildStep, TeardownStep, ManageStep,
     Environment

\* A command moves along its path, and past a check only when the check holds.
LEMMA ControlStep ==
    ASSUME TypeOK, [Next]_vars
    PROVE  \A p \in Procs : ControlMoves(p)
<1> SUFFICES ASSUME NEW q \in Procs PROVE ControlMoves(q)
  OBVIOUS
<1> USE DEF TypeOK, ControlMoves, RunJob, Verified, RulesPresent
<1>1. ASSUME NEW p \in Procs, Launch(p) PROVE ControlMoves(q)
  <2>1. CASE q = p
    BY <1>1, <2>1
  <2>2. CASE q # p
    BY <1>1, <2>2 DEF Launch, Goto
  <2>3. QED BY <2>1, <2>2
<1>2. ASSUME NEW p \in Procs, ResolveTool(p) PROVE ControlMoves(q)
  BY <1>2 DEF ResolveTool, Refuse, conts, netns, create, files, Goto, End
<1>3. ASSUME NEW p \in Procs, FindHelper(p) PROVE ControlMoves(q)
  BY <1>3 DEF FindHelper, Refuse, conts, netns, create, files, Goto, End
<1>4. ASSUME NEW p \in Procs, Reconcile(p) PROVE ControlMoves(q)
  BY <1>4 DEF Reconcile, Refuse, conts, netns, create, files, Goto, End
<1>5. ASSUME NEW p \in Procs, CreateSidecar(p) PROVE ControlMoves(q)
  <2>1. TargetOf(p) \in Runs
    BY TargetIsRun
  <2>2. CASE q # p
    BY <1>5, <2>2 DEF CreateSidecar, Goto, Abort
  <2>3. CASE Abort(p, "sidecar")
    BY <2>3 DEF Abort, Goto, ToTeardown
  <2>4. CASE Goto(p, "sidecar", "v4") /\ sidecar' = [sidecar EXCEPT ![TargetOf(p)] = "running"]
    BY <1>5, <2>1, <2>2, <2>4 DEF Goto
  <2>5. QED BY <1>5, <2>2, <2>3, <2>4 DEF CreateSidecar
<1>6. ASSUME NEW p \in Procs, ReviveSidecar(p) PROVE ControlMoves(q)
  BY <1>6 DEF ReviveSidecar, Abort, ToTeardown, Revive, FreshNetns, AfterRevive, netns,
       create, files, Goto, End
<1>7. ASSUME NEW p \in Procs, ProbeV4(p) PROVE ControlMoves(q)
  BY <1>7 DEF ProbeV4, Abort, ToTeardown, RulesPresent, conts, create, files, Goto, End
<1>8. ASSUME NEW p \in Procs, ProbeV6(p) PROVE ControlMoves(q)
  BY <1>8 DEF ProbeV6, Abort, ToTeardown, RulesPresent, conts, netns, create, files,
       Goto, End
<1>9. ASSUME NEW p \in Procs, StartDNS(p) PROVE ControlMoves(q)
  BY <1>9 DEF StartDNS, Abort, ToTeardown, conts, create, files, Goto, End
<1>10. ASSUME NEW p \in Procs, WriteFix(p) PROVE ControlMoves(q)
  BY <1>10 DEF WriteFix, Abort, ToTeardown, NextFile, AllFix, conts, netns, create,
       Goto, End
<1>11. ASSUME NEW p \in Procs, StatMachineID(p) PROVE ControlMoves(q)
  BY <1>11 DEF StatMachineID, Abort, ToTeardown, AfterFiles, AfterReach, conts, netns, create,
       files, Goto, End
<1>12. ASSUME NEW p \in Procs, MintMachineID(p) PROVE ControlMoves(q)
  BY <1>12 DEF MintMachineID, Abort, ToTeardown, AfterFiles, AfterReach, conts, netns, create,
       Goto, End
<1>13. ASSUME NEW p \in Procs, OpenReachback(p) PROVE ControlMoves(q)
  BY <1>13 DEF OpenReachback, Abort, ToTeardown, Revive, FreshNetns, netns, create,
       files, Goto, End
<1>14. ASSUME NEW p \in Procs, CloseReachback(p) PROVE ControlMoves(q)
  BY <1>14 DEF CloseReachback, Abort, ToTeardown, AfterReach, conts, netns, create, files, Goto, End
<1>14a. ASSUME NEW p \in Procs, OpenDirect(p) PROVE ControlMoves(q)
  BY <1>14a DEF OpenDirect, Revive, FreshNetns, netns, create, ends,
       files, Goto, End
<1>14b. ASSUME NEW p \in Procs, CloseDirect(p) PROVE ControlMoves(q)
  BY <1>14b DEF CloseDirect, conts, netns, create, ends, files, Goto, End
<1>15. ASSUME NEW p \in Procs, RunTool(p) PROVE ControlMoves(q)
  BY <1>15, CalledStep DEF Called, ToTeardown
<1>16. ASSUME NEW p \in Procs, StartTool(p) PROVE ControlMoves(q)
  BY <1>16, CalledStep DEF Called, ToTeardown
<1>17. ASSUME NEW p \in Procs, Detach(p) PROVE ControlMoves(q)
  BY <1>17 DEF Detach, ToTeardown, conts, netns, create, files, Goto, End
<1>18. ASSUME NEW p \in Procs, Sweep(p) PROVE ControlMoves(q)
  BY <1>18 DEF Sweep, NextFile, LastFile, AfterSweep, AllFix, conts, netns, create,
       ends, Goto
<1>19. ASSUME NEW p \in Procs, RemoveTool(p) PROVE ControlMoves(q)
  BY <1>19 DEF RemoveTool, Leaves, netns, create, files, Goto
<1>20. ASSUME NEW p \in Procs, RemoveSidecar(p) PROVE ControlMoves(q)
  BY <1>20 DEF RemoveSidecar, Leaves, NoNetns, netns, create, files, Goto
<1>21. ASSUME NEW p \in Procs, Guard(p) PROVE ControlMoves(q)
  BY <1>21 DEF Guard, Refuse, conts, netns, create, files, Goto, End
<1>22. ASSUME NEW p \in Procs, StopNamed(p) PROVE ControlMoves(q)
  BY <1>22 DEF StopNamed, StopSidecar, NoNetns, ToolAtRest, conts, netns, create,
       files, Goto, End
<1>23. ASSUME NEW p \in Procs, RemovePair(p) PROVE ControlMoves(q)
  BY <1>23 DEF RemovePair, NoNetns, AfterRm, AfterRmError, conts, netns, create, files,
       Goto, End
<1>24. ASSUME NEW p \in Procs, CheckSidecar(p) PROVE ControlMoves(q)
  BY <1>24 DEF CheckSidecar, Refuse, conts, netns, create, files, Goto, End
<1>25. ASSUME NEW p \in Procs, CheckNamed(p) PROVE ControlMoves(q)
  BY <1>25 DEF CheckNamed, Refuse, conts, netns, create, files, Goto, End
<1>26. ASSUME NEW p \in Procs, Exec(p) PROVE ControlMoves(q)
  BY <1>26 DEF Exec, conts, netns, create, files, Goto, End
<1>27. ASSUME NEW p \in Procs, ProbeEnds(p) PROVE ControlMoves(q)
  BY <1>27 DEF ProbeEnds, conts, netns, create, files, ends
<1>28. ASSUME NEW p \in Procs, Interrupt(p) PROVE ControlMoves(q)
  BY <1>28 DEF Interrupt, conts, netns, create, files, ends
<1>29. ASSUME NEW p \in Procs, Kill(p) PROVE ControlMoves(q)
  BY <1>29 DEF Kill, conts, netns, create, files, ends
<1>30. ASSUME NEW r \in Runs, ApplyRules(r) PROVE ControlMoves(q)
  BY <1>30 DEF ApplyRules, conts, create, files, ends
<1>31. ASSUME NEW r \in Runs, RuleFails(r) PROVE ControlMoves(q)
  BY <1>31 DEF RuleFails, conts, create, files, ends
<1>32. ASSUME NEW r \in Runs, ToolExits(r) PROVE ControlMoves(q)
  BY <1>32 DEF ToolExits, ToolAtRest, netns, create, files, ends
<1>33. ASSUME NEW r \in Runs, SidecarDies(r) PROVE ControlMoves(q)
  BY <1>33 DEF SidecarDies, StopSidecar, NoNetns, create, files, ends
<1>34. ASSUME NEW r \in Runs, RawStart(r) PROVE ControlMoves(q)
  BY <1>34 DEF RawStart, Revive, FreshNetns, create, files, ends
<1>35. ASSUME NEW r \in Runs, TempSweep(r) PROVE ControlMoves(q)
  BY <1>35 DEF TempSweep, conts, netns, create, ends
<1>36. ASSUME Reboot PROVE ControlMoves(q)
  BY <1>36 DEF Reboot, create, files, ends
<1>37. CASE UNCHANGED vars
  BY <1>37 DEF vars
<1>38. QED BY <1>1, <1>2, <1>3, <1>4, <1>5, <1>6, <1>7, <1>8, <1>9, <1>10, <1>11,
     <1>12, <1>13, <1>14, <1>14a, <1>14b, <1>15, <1>16, <1>17, <1>18, <1>19, <1>20,
     <1>21, <1>22,
     <1>23, <1>24, <1>25, <1>26, <1>27, <1>28, <1>29, <1>30, <1>31, <1>32, <1>33,
     <1>34, <1>35, <1>36, <1>37 DEF Next, Work, BuildStep, TeardownStep, ManageStep,
     Environment

\* A run or start that ends without being refused ends a build, an attachment
\* or a Teardown.
LEMMA EndedStep ==
    ASSUME TypeOK, [Next]_vars, PathInv
    PROVE  \A p \in Procs :
               pc'[p] = "done" /\ outcome'[p] # "refused" /\ JailJob(p)
                  => \/ pc[p] = "done" /\ outcome'[p] = outcome[p]
                     \/ pc[p] \in Building \cup {"attached"} \cup TearingDown
<1> SUFFICES ASSUME NEW q \in Procs, pc'[q] = "done", outcome'[q] # "refused", JailJob(q)
             PROVE  \/ pc[q] = "done" /\ outcome'[q] = outcome[q]
                    \/ pc[q] \in Building \cup {"attached"} \cup TearingDown
  OBVIOUS
<1> USE DEF TypeOK, PathInv, JailJob, RunJob, StartJob
<1>1. ASSUME NEW p \in Procs, Launch(p) PROVE \/ pc[q] = "done" /\ outcome'[q] = outcome[q]
             \/ pc[q] \in Building \cup {"attached"} \cup TearingDown
  BY <1>1 DEF Launch, conts, netns, create, files, ends, Goto
<1>2. ASSUME NEW p \in Procs, ResolveTool(p) PROVE \/ pc[q] = "done" /\ outcome'[q] = outcome[q]
             \/ pc[q] \in Building \cup {"attached"} \cup TearingDown
  BY <1>2 DEF ResolveTool, Refuse, conts, netns, create, files, Goto, End
<1>3. ASSUME NEW p \in Procs, FindHelper(p) PROVE \/ pc[q] = "done" /\ outcome'[q] = outcome[q]
             \/ pc[q] \in Building \cup {"attached"} \cup TearingDown
  BY <1>3 DEF FindHelper, Refuse, conts, netns, create, files, Goto, End
<1>4. ASSUME NEW p \in Procs, Reconcile(p) PROVE \/ pc[q] = "done" /\ outcome'[q] = outcome[q]
             \/ pc[q] \in Building \cup {"attached"} \cup TearingDown
  BY <1>4 DEF Reconcile, Refuse, conts, netns, create, files, Goto, End
<1>5. ASSUME NEW p \in Procs, CreateSidecar(p) PROVE \/ pc[q] = "done" /\ outcome'[q] = outcome[q]
             \/ pc[q] \in Building \cup {"attached"} \cup TearingDown
  BY <1>5 DEF CreateSidecar, Abort, ToTeardown, FreshNetns, netns, files, Goto, End
<1>6. ASSUME NEW p \in Procs, ReviveSidecar(p) PROVE \/ pc[q] = "done" /\ outcome'[q] = outcome[q]
             \/ pc[q] \in Building \cup {"attached"} \cup TearingDown
  BY <1>6 DEF ReviveSidecar, Abort, ToTeardown, Revive, FreshNetns, AfterRevive, netns,
       create, files, Goto, End
<1>7. ASSUME NEW p \in Procs, ProbeV4(p) PROVE \/ pc[q] = "done" /\ outcome'[q] = outcome[q]
             \/ pc[q] \in Building \cup {"attached"} \cup TearingDown
  BY <1>7 DEF ProbeV4, Abort, ToTeardown, RulesPresent, conts, create, files, Goto, End
<1>8. ASSUME NEW p \in Procs, ProbeV6(p) PROVE \/ pc[q] = "done" /\ outcome'[q] = outcome[q]
             \/ pc[q] \in Building \cup {"attached"} \cup TearingDown
  BY <1>8 DEF ProbeV6, Abort, ToTeardown, RulesPresent, conts, netns, create, files,
       Goto, End
<1>9. ASSUME NEW p \in Procs, StartDNS(p) PROVE \/ pc[q] = "done" /\ outcome'[q] = outcome[q]
             \/ pc[q] \in Building \cup {"attached"} \cup TearingDown
  BY <1>9 DEF StartDNS, Abort, ToTeardown, conts, create, files, Goto, End
<1>10. ASSUME NEW p \in Procs, WriteFix(p) PROVE \/ pc[q] = "done" /\ outcome'[q] = outcome[q]
             \/ pc[q] \in Building \cup {"attached"} \cup TearingDown
  BY <1>10 DEF WriteFix, Abort, ToTeardown, NextFile, AllFix, conts, netns, create,
       Goto, End
<1>11. ASSUME NEW p \in Procs, StatMachineID(p) PROVE \/ pc[q] = "done" /\ outcome'[q] = outcome[q]
             \/ pc[q] \in Building \cup {"attached"} \cup TearingDown
  BY <1>11 DEF StatMachineID, Abort, ToTeardown, AfterFiles, AfterReach, conts, netns, create,
       files, Goto, End
<1>12. ASSUME NEW p \in Procs, MintMachineID(p) PROVE \/ pc[q] = "done" /\ outcome'[q] = outcome[q]
             \/ pc[q] \in Building \cup {"attached"} \cup TearingDown
  BY <1>12 DEF MintMachineID, Abort, ToTeardown, AfterFiles, AfterReach, conts, netns, create,
       Goto, End
<1>13. ASSUME NEW p \in Procs, OpenReachback(p) PROVE \/ pc[q] = "done" /\ outcome'[q] = outcome[q]
             \/ pc[q] \in Building \cup {"attached"} \cup TearingDown
  BY <1>13 DEF OpenReachback, Abort, ToTeardown, Revive, FreshNetns, netns, create,
       files, Goto, End
<1>14. ASSUME NEW p \in Procs, CloseReachback(p) PROVE \/ pc[q] = "done" /\ outcome'[q] = outcome[q]
             \/ pc[q] \in Building \cup {"attached"} \cup TearingDown
  BY <1>14 DEF CloseReachback, Abort, ToTeardown, AfterReach, conts, netns, create, files, Goto, End
<1>14a. ASSUME NEW p \in Procs, OpenDirect(p) PROVE \/ pc[q] = "done" /\ outcome'[q] = outcome[q]
             \/ pc[q] \in Building \cup {"attached"} \cup TearingDown
  BY <1>14a DEF OpenDirect, Revive, FreshNetns, netns, create, ends,
       files, Goto, End
<1>14b. ASSUME NEW p \in Procs, CloseDirect(p) PROVE \/ pc[q] = "done" /\ outcome'[q] = outcome[q]
             \/ pc[q] \in Building \cup {"attached"} \cup TearingDown
  BY <1>14b DEF CloseDirect, conts, netns, create, ends, files, Goto, End
<1>15. ASSUME NEW p \in Procs, RunTool(p) PROVE \/ pc[q] = "done" /\ outcome'[q] = outcome[q]
             \/ pc[q] \in Building \cup {"attached"} \cup TearingDown
  BY <1>15, CalledStep DEF Called, ToTeardown
<1>16. ASSUME NEW p \in Procs, StartTool(p) PROVE \/ pc[q] = "done" /\ outcome'[q] = outcome[q]
             \/ pc[q] \in Building \cup {"attached"} \cup TearingDown
  BY <1>16, CalledStep DEF Called, ToTeardown
<1>17. ASSUME NEW p \in Procs, Detach(p) PROVE \/ pc[q] = "done" /\ outcome'[q] = outcome[q]
             \/ pc[q] \in Building \cup {"attached"} \cup TearingDown
  BY <1>17 DEF Detach, ToTeardown, conts, netns, create, files, Goto, End
<1>18. ASSUME NEW p \in Procs, Sweep(p) PROVE \/ pc[q] = "done" /\ outcome'[q] = outcome[q]
             \/ pc[q] \in Building \cup {"attached"} \cup TearingDown
  BY <1>18 DEF Sweep, NextFile, LastFile, AfterSweep, AllFix, conts, netns, create,
       ends, Goto
<1>19. ASSUME NEW p \in Procs, RemoveTool(p) PROVE \/ pc[q] = "done" /\ outcome'[q] = outcome[q]
             \/ pc[q] \in Building \cup {"attached"} \cup TearingDown
  BY <1>19 DEF RemoveTool, Leaves, netns, create, files, Goto
<1>20. ASSUME NEW p \in Procs, RemoveSidecar(p) PROVE \/ pc[q] = "done" /\ outcome'[q] = outcome[q]
             \/ pc[q] \in Building \cup {"attached"} \cup TearingDown
  BY <1>20 DEF RemoveSidecar, Leaves, NoNetns, netns, create, files, Goto
<1>21. ASSUME NEW p \in Procs, Guard(p) PROVE \/ pc[q] = "done" /\ outcome'[q] = outcome[q]
             \/ pc[q] \in Building \cup {"attached"} \cup TearingDown
  BY <1>21 DEF Guard, Refuse, conts, netns, create, files, Goto, End
<1>22. ASSUME NEW p \in Procs, StopNamed(p) PROVE \/ pc[q] = "done" /\ outcome'[q] = outcome[q]
             \/ pc[q] \in Building \cup {"attached"} \cup TearingDown
  BY <1>22 DEF StopNamed, StopSidecar, NoNetns, ToolAtRest, conts, netns, create,
       files, Goto, End
<1>23. ASSUME NEW p \in Procs, RemovePair(p) PROVE \/ pc[q] = "done" /\ outcome'[q] = outcome[q]
             \/ pc[q] \in Building \cup {"attached"} \cup TearingDown
  BY <1>23 DEF RemovePair, NoNetns, AfterRm, AfterRmError, conts, netns, create, files,
       Goto, End
<1>24. ASSUME NEW p \in Procs, CheckSidecar(p) PROVE \/ pc[q] = "done" /\ outcome'[q] = outcome[q]
             \/ pc[q] \in Building \cup {"attached"} \cup TearingDown
  BY <1>24 DEF CheckSidecar, Refuse, conts, netns, create, files, Goto, End
<1>25. ASSUME NEW p \in Procs, CheckNamed(p) PROVE \/ pc[q] = "done" /\ outcome'[q] = outcome[q]
             \/ pc[q] \in Building \cup {"attached"} \cup TearingDown
  BY <1>25 DEF CheckNamed, Refuse, conts, netns, create, files, Goto, End
<1>26. ASSUME NEW p \in Procs, Exec(p) PROVE \/ pc[q] = "done" /\ outcome'[q] = outcome[q]
             \/ pc[q] \in Building \cup {"attached"} \cup TearingDown
  BY <1>26 DEF Exec, conts, netns, create, files, Goto, End
<1>27. ASSUME NEW p \in Procs, ProbeEnds(p) PROVE \/ pc[q] = "done" /\ outcome'[q] = outcome[q]
             \/ pc[q] \in Building \cup {"attached"} \cup TearingDown
  BY <1>27 DEF ProbeEnds, conts, netns, create, files, ends
<1>28. ASSUME NEW p \in Procs, Interrupt(p) PROVE \/ pc[q] = "done" /\ outcome'[q] = outcome[q]
             \/ pc[q] \in Building \cup {"attached"} \cup TearingDown
  BY <1>28 DEF Interrupt, conts, netns, create, files, ends
<1>29. ASSUME NEW p \in Procs, Kill(p) PROVE \/ pc[q] = "done" /\ outcome'[q] = outcome[q]
             \/ pc[q] \in Building \cup {"attached"} \cup TearingDown
  BY <1>29 DEF Kill, conts, netns, create, files, ends
<1>30. ASSUME NEW r \in Runs, ApplyRules(r) PROVE \/ pc[q] = "done" /\ outcome'[q] = outcome[q]
             \/ pc[q] \in Building \cup {"attached"} \cup TearingDown
  BY <1>30 DEF ApplyRules, conts, create, files, ends
<1>31. ASSUME NEW r \in Runs, RuleFails(r) PROVE \/ pc[q] = "done" /\ outcome'[q] = outcome[q]
             \/ pc[q] \in Building \cup {"attached"} \cup TearingDown
  BY <1>31 DEF RuleFails, conts, create, files, ends
<1>32. ASSUME NEW r \in Runs, ToolExits(r) PROVE \/ pc[q] = "done" /\ outcome'[q] = outcome[q]
             \/ pc[q] \in Building \cup {"attached"} \cup TearingDown
  BY <1>32 DEF ToolExits, ToolAtRest, netns, create, files, ends
<1>33. ASSUME NEW r \in Runs, SidecarDies(r) PROVE \/ pc[q] = "done" /\ outcome'[q] = outcome[q]
             \/ pc[q] \in Building \cup {"attached"} \cup TearingDown
  BY <1>33 DEF SidecarDies, StopSidecar, NoNetns, create, files, ends
<1>34. ASSUME NEW r \in Runs, RawStart(r) PROVE \/ pc[q] = "done" /\ outcome'[q] = outcome[q]
             \/ pc[q] \in Building \cup {"attached"} \cup TearingDown
  BY <1>34 DEF RawStart, Revive, FreshNetns, create, files, ends
<1>35. ASSUME NEW r \in Runs, TempSweep(r) PROVE \/ pc[q] = "done" /\ outcome'[q] = outcome[q]
             \/ pc[q] \in Building \cup {"attached"} \cup TearingDown
  BY <1>35 DEF TempSweep, conts, netns, create, ends
<1>36. ASSUME Reboot PROVE \/ pc[q] = "done" /\ outcome'[q] = outcome[q]
             \/ pc[q] \in Building \cup {"attached"} \cup TearingDown
  BY <1>36 DEF Reboot, create, files, ends
<1>37. CASE UNCHANGED vars
  BY <1>37 DEF vars
<1>38. QED BY <1>1, <1>2, <1>3, <1>4, <1>5, <1>6, <1>7, <1>8, <1>9, <1>10, <1>11,
     <1>12, <1>13, <1>14, <1>14a, <1>14b, <1>15, <1>16, <1>17, <1>18, <1>19, <1>20,
     <1>21, <1>22,
     <1>23, <1>24, <1>25, <1>26, <1>27, <1>28, <1>29, <1>30, <1>31, <1>32, <1>33,
     <1>34, <1>35, <1>36, <1>37 DEF Next, Work, BuildStep, TeardownStep, ManageStep,
     Environment

\* A netns that is made anew or lost takes with it what was read in it, and
\* only that.
LEMMA NetnsLost ==
    ASSUME TypeOK, NEW r \in Runs, FreshNetns(r) \/ NoNetns(r),
           \A s \in Runs \ {r} : sidecar'[s] = sidecar[s],
           NEW q \in Procs
    PROVE  NetnsMoves(q)
<1>1. TargetOf(q) \in Runs
  BY TargetIsRun
<1>2. fw' = [fw EXCEPT ![r] = {}] /\ seen' = SeenAfter({r})
  BY DEF FreshNetns, NoNetns
<1>3. CASE TargetOf(q) = r
  BY <1>2, <1>3 DEF NetnsMoves, SeenAfter
<1>4. CASE TargetOf(q) # r
  <2>1. seen'[q] = seen[q]
    BY <1>2, <1>4 DEF SeenAfter
  <2>2. fw'[TargetOf(q)] = fw[TargetOf(q)]
    BY <1>1, <1>2, <1>4 DEF TypeOK
  <2>3. QED BY <1>1, <1>4, <2>1, <2>2 DEF NetnsMoves
<1>5. QED BY <1>3, <1>4

\* Nothing that was read is lost while the sidecar and the chains stay.
LEMMA NetnsKept ==
    ASSUME UNCHANGED <<sidecar, fw, seen>>, NEW q \in Procs
    PROVE  NetnsMoves(q)
BY DEF NetnsMoves

\* Reviving a sidecar loses what was read in its netns, or changes nothing.
LEMMA NetnsRevived ==
    ASSUME TypeOK, NEW r \in Runs, Revive(r), NEW q \in Procs
    PROVE  NetnsMoves(q)
<1>1. CASE sidecar' = [sidecar EXCEPT ![r] = "running"] /\ FreshNetns(r)
  <2>1. \A s \in Runs \ {r} : sidecar'[s] = sidecar[s]
    BY <1>1 DEF TypeOK
  <2>2. QED BY <1>1, <2>1, NetnsLost
<1>2. CASE UNCHANGED <<sidecar, fw, applying, dns, seen>>
  BY <1>2, NetnsKept
<1>3. QED BY <1>1, <1>2 DEF Revive

\* What a process has read goes with its netns, and holds as long as the netns
\* does.
LEMMA NetnsMovesStep ==
    ASSUME TypeOK, [Next]_vars, CreatedInv, SeenInv
    PROVE  \A p \in Procs : NetnsMoves(p)
<1> SUFFICES ASSUME NEW q \in Procs PROVE NetnsMoves(q)
  OBVIOUS
<1>1. ASSUME NEW p \in Procs, Launch(p) PROVE NetnsMoves(q)
  BY <1>1, NetnsKept DEF Launch, conts, netns
<1>2. ASSUME NEW p \in Procs, ResolveTool(p) PROVE NetnsMoves(q)
  BY <1>2, NetnsKept DEF ResolveTool, conts, netns
<1>3. ASSUME NEW p \in Procs, FindHelper(p) PROVE NetnsMoves(q)
  BY <1>3, NetnsKept DEF FindHelper, conts, netns
<1>4. ASSUME NEW p \in Procs, Reconcile(p) PROVE NetnsMoves(q)
  BY <1>4, NetnsKept DEF Reconcile, conts, netns
<1>5. ASSUME NEW p \in Procs, CreateSidecar(p) PROVE NetnsMoves(q)
  <2>1. TargetOf(p) \in Runs
    BY TargetIsRun
  <2>2. sidecar[TargetOf(p)] = "absent"
    BY <1>5 DEF CreateSidecar, CreatedInv, Goto, Abort, RunJob
  <2>3. \A s \in Runs \ {TargetOf(p)} : sidecar'[s] = sidecar[s]
    BY <1>5, <2>1 DEF CreateSidecar, TypeOK
  <2>4. CASE UNCHANGED netns
    <3>1. CASE seen[q] = "current"
      BY <2>1, <2>2, <2>3, <2>4, <3>1, TargetIsRun DEF netns, SeenInv, NetnsMoves
    <3>2. CASE seen[q] # "current"
      BY <2>4, <3>2 DEF netns, NetnsMoves
    <3>3. QED BY <3>1, <3>2
  <2>5. FreshNetns(TargetOf(p)) \/ UNCHANGED netns
    BY <1>5 DEF CreateSidecar
  <2>6. QED BY <2>1, <2>3, <2>4, <2>5, NetnsLost
<1>6. ASSUME NEW p \in Procs, ReviveSidecar(p) PROVE NetnsMoves(q)
  <2>1. TargetOf(p) \in Runs
    BY TargetIsRun
  <2>2. Revive(TargetOf(p)) \/ UNCHANGED <<sidecar, fw, seen>>
    BY <1>6 DEF ReviveSidecar, conts, netns
  <2>3. QED BY <2>1, <2>2, NetnsLost, NetnsRevived, NetnsKept
<1>7. ASSUME NEW p \in Procs, ProbeV4(p) PROVE NetnsMoves(q)
  <2>1. CASE q = p
    BY <1>7, <2>1 DEF NetnsMoves
  <2>2. CASE q # p
    BY <1>7, <2>2 DEF ProbeV4, conts, NetnsMoves, TypeOK
  <2>3. QED BY <2>1, <2>2
<1>8. ASSUME NEW p \in Procs, ProbeV6(p) PROVE NetnsMoves(q)
  BY <1>8, NetnsKept DEF ProbeV6, conts, netns
<1>9. ASSUME NEW p \in Procs, StartDNS(p) PROVE NetnsMoves(q)
  BY <1>9, NetnsKept DEF StartDNS, conts, netns
<1>10. ASSUME NEW p \in Procs, WriteFix(p) PROVE NetnsMoves(q)
  BY <1>10, NetnsKept DEF WriteFix, conts, netns
<1>11. ASSUME NEW p \in Procs, StatMachineID(p) PROVE NetnsMoves(q)
  BY <1>11, NetnsKept DEF StatMachineID, conts, netns
<1>12. ASSUME NEW p \in Procs, MintMachineID(p) PROVE NetnsMoves(q)
  BY <1>12, NetnsKept DEF MintMachineID, conts, netns
<1>13. ASSUME NEW p \in Procs, OpenReachback(p) PROVE NetnsMoves(q)
  <2>1. TargetOf(p) \in Runs
    BY TargetIsRun
  <2>2. Revive(TargetOf(p)) \/ UNCHANGED <<sidecar, fw, seen>>
    BY <1>13 DEF OpenReachback, conts, netns
  <2>3. QED BY <2>1, <2>2, NetnsLost, NetnsRevived, NetnsKept
<1>14. ASSUME NEW p \in Procs, CloseReachback(p) PROVE NetnsMoves(q)
  BY <1>14, NetnsKept DEF CloseReachback, conts, netns
<1>14a. ASSUME NEW p \in Procs, OpenDirect(p) PROVE NetnsMoves(q)
  <2>1. TargetOf(p) \in Runs
    BY TargetIsRun
  <2>2. Revive(TargetOf(p)) \/ UNCHANGED <<sidecar, fw, seen>>
    BY <1>14a DEF OpenDirect, conts, netns
  <2>3. QED BY <2>1, <2>2, NetnsLost, NetnsRevived, NetnsKept
<1>14b. ASSUME NEW p \in Procs, CloseDirect(p) PROVE NetnsMoves(q)
  BY <1>14b, NetnsKept DEF CloseDirect, conts, netns
<1>15. ASSUME NEW p \in Procs, RunTool(p) PROVE NetnsMoves(q)
  <2>1. TargetOf(p) \in Runs
    BY TargetIsRun
  <2>2. Revive(TargetOf(p)) \/ UNCHANGED <<sidecar, fw, seen>>
    BY <1>15, MakingStep DEF Making
  <2>3. QED BY <2>1, <2>2, NetnsLost, NetnsRevived, NetnsKept
<1>16. ASSUME NEW p \in Procs, StartTool(p) PROVE NetnsMoves(q)
  <2>1. TargetOf(p) \in Runs
    BY TargetIsRun
  <2>2. Revive(TargetOf(p)) \/ UNCHANGED <<sidecar, fw, seen>>
    BY <1>16, MakingStep DEF Making
  <2>3. QED BY <2>1, <2>2, NetnsLost, NetnsRevived, NetnsKept
<1>17. ASSUME NEW p \in Procs, Detach(p) PROVE NetnsMoves(q)
  BY <1>17, NetnsKept DEF Detach, conts, netns
<1>18. ASSUME NEW p \in Procs, Sweep(p) PROVE NetnsMoves(q)
  BY <1>18, NetnsKept DEF Sweep, conts, netns
<1>19. ASSUME NEW p \in Procs, RemoveTool(p) PROVE NetnsMoves(q)
  BY <1>19, NetnsKept DEF RemoveTool, conts, netns
<1>20. ASSUME NEW p \in Procs, RemoveSidecar(p) PROVE NetnsMoves(q)
  <2>1. TargetOf(p) \in Runs
    BY TargetIsRun
  <2>2. \/ /\ FreshNetns(TargetOf(p)) \/ NoNetns(TargetOf(p))
           /\ \A s \in Runs \ {TargetOf(p)} : sidecar'[s] = sidecar[s]
        \/ UNCHANGED <<sidecar, fw, seen>>
    BY <1>20, <2>1, LosingStep DEF Losing, TypeOK
  <2>3. QED BY <2>1, <2>2, NetnsLost, NetnsRevived, NetnsKept
<1>21. ASSUME NEW p \in Procs, Guard(p) PROVE NetnsMoves(q)
  BY <1>21, NetnsKept DEF Guard, conts, netns
<1>22. ASSUME NEW p \in Procs, StopNamed(p) PROVE NetnsMoves(q)
  <2>1. TargetOf(p) \in Runs
    BY TargetIsRun
  <2>2. \/ /\ FreshNetns(TargetOf(p)) \/ NoNetns(TargetOf(p))
           /\ \A s \in Runs \ {TargetOf(p)} : sidecar'[s] = sidecar[s]
        \/ UNCHANGED <<sidecar, fw, seen>>
    BY <1>22, <2>1 DEF StopNamed, StopSidecar, conts, netns, TypeOK
  <2>3. QED BY <2>1, <2>2, NetnsLost, NetnsRevived, NetnsKept
<1>23. ASSUME NEW p \in Procs, RemovePair(p) PROVE NetnsMoves(q)
  <2>1. TargetOf(p) \in Runs
    BY TargetIsRun
  <2>2. \/ /\ FreshNetns(TargetOf(p)) \/ NoNetns(TargetOf(p))
           /\ \A s \in Runs \ {TargetOf(p)} : sidecar'[s] = sidecar[s]
        \/ UNCHANGED <<sidecar, fw, seen>>
    BY <1>23, <2>1, LosingStep DEF Losing, TypeOK
  <2>3. QED BY <2>1, <2>2, NetnsLost, NetnsRevived, NetnsKept
<1>24. ASSUME NEW p \in Procs, CheckSidecar(p) PROVE NetnsMoves(q)
  BY <1>24, NetnsKept DEF CheckSidecar, conts, netns
<1>25. ASSUME NEW p \in Procs, CheckNamed(p) PROVE NetnsMoves(q)
  BY <1>25, NetnsKept DEF CheckNamed, conts, netns
<1>26. ASSUME NEW p \in Procs, Exec(p) PROVE NetnsMoves(q)
  BY <1>26, NetnsKept DEF Exec, conts, netns
<1>27. ASSUME NEW p \in Procs, ProbeEnds(p) PROVE NetnsMoves(q)
  BY <1>27, NetnsKept DEF ProbeEnds, conts, netns
<1>28. ASSUME NEW p \in Procs, Interrupt(p) PROVE NetnsMoves(q)
  BY <1>28, NetnsKept DEF Interrupt, conts, netns
<1>29. ASSUME NEW p \in Procs, Kill(p) PROVE NetnsMoves(q)
  BY <1>29, NetnsKept DEF Kill, conts, netns
<1>30. ASSUME NEW r \in Runs, ApplyRules(r) PROVE NetnsMoves(q)
  BY <1>30, TargetIsRun DEF ApplyRules, conts, NetnsMoves, TypeOK
<1>31. ASSUME NEW r \in Runs, RuleFails(r) PROVE NetnsMoves(q)
  BY <1>31, NetnsKept DEF RuleFails, conts, netns
<1>32. ASSUME NEW r \in Runs, ToolExits(r) PROVE NetnsMoves(q)
  BY <1>32, NetnsKept DEF ToolExits, conts, netns
<1>33. ASSUME NEW r \in Runs, SidecarDies(r) PROVE NetnsMoves(q)
  <2>1. NoNetns(r) /\ \A s \in Runs \ {r} : sidecar'[s] = sidecar[s]
    BY <1>33 DEF SidecarDies, StopSidecar, TypeOK
  <2>2. QED BY <2>1, NetnsLost
<1>34. ASSUME NEW r \in Runs, RawStart(r) PROVE NetnsMoves(q)
  BY <1>34, NetnsRevived DEF RawStart
<1>35. ASSUME NEW r \in Runs, TempSweep(r) PROVE NetnsMoves(q)
  BY <1>35, NetnsKept DEF TempSweep, conts, netns
<1>36. ASSUME Reboot PROVE NetnsMoves(q)
  BY <1>36, TargetIsRun DEF Reboot, NetnsMoves, SeenAfter, TypeOK
<1>37. CASE UNCHANGED vars
  BY <1>37, NetnsKept DEF vars, conts, netns
<1>38. QED BY <1>1, <1>2, <1>3, <1>4, <1>5, <1>6, <1>7, <1>8, <1>9, <1>10, <1>11,
     <1>12, <1>13, <1>14, <1>14a, <1>14b, <1>15, <1>16, <1>17, <1>18, <1>19, <1>20,
     <1>21, <1>22,
     <1>23, <1>24, <1>25, <1>26, <1>27, <1>28, <1>29, <1>30, <1>31, <1>32, <1>33,
     <1>34, <1>35, <1>36, <1>37 DEF Next, Work, BuildStep, TeardownStep, ManageStep,
     Environment

\* Only a run or a start at its last step, and the user, bring a tool up.
LEMMA LauncherMovesStep ==
    ASSUME TypeOK, [Next]_vars
    PROVE  \A r \in Runs : LauncherMoves(r)
<1> SUFFICES ASSUME NEW s \in Runs PROVE LauncherMoves(s)
  OBVIOUS
<1>1. ASSUME NEW p \in Procs, Launch(p) PROVE LauncherMoves(s)
  BY <1>1 DEF Launch, LauncherMoves
<1>2. ASSUME NEW p \in Procs, ResolveTool(p) PROVE LauncherMoves(s)
  BY <1>2 DEF ResolveTool, LauncherMoves
<1>3. ASSUME NEW p \in Procs, FindHelper(p) PROVE LauncherMoves(s)
  BY <1>3 DEF FindHelper, LauncherMoves
<1>4. ASSUME NEW p \in Procs, Reconcile(p) PROVE LauncherMoves(s)
  BY <1>4 DEF Reconcile, LauncherMoves
<1>5. ASSUME NEW p \in Procs, CreateSidecar(p) PROVE LauncherMoves(s)
  BY <1>5 DEF CreateSidecar, LauncherMoves
<1>6. ASSUME NEW p \in Procs, ReviveSidecar(p) PROVE LauncherMoves(s)
  BY <1>6 DEF ReviveSidecar, LauncherMoves
<1>7. ASSUME NEW p \in Procs, ProbeV4(p) PROVE LauncherMoves(s)
  BY <1>7 DEF ProbeV4, LauncherMoves
<1>8. ASSUME NEW p \in Procs, ProbeV6(p) PROVE LauncherMoves(s)
  BY <1>8 DEF ProbeV6, LauncherMoves
<1>9. ASSUME NEW p \in Procs, StartDNS(p) PROVE LauncherMoves(s)
  BY <1>9 DEF StartDNS, LauncherMoves
<1>10. ASSUME NEW p \in Procs, WriteFix(p) PROVE LauncherMoves(s)
  BY <1>10 DEF WriteFix, LauncherMoves
<1>11. ASSUME NEW p \in Procs, StatMachineID(p) PROVE LauncherMoves(s)
  BY <1>11 DEF StatMachineID, LauncherMoves
<1>12. ASSUME NEW p \in Procs, MintMachineID(p) PROVE LauncherMoves(s)
  BY <1>12 DEF MintMachineID, LauncherMoves
<1>13. ASSUME NEW p \in Procs, OpenReachback(p) PROVE LauncherMoves(s)
  BY <1>13 DEF OpenReachback, LauncherMoves
<1>14. ASSUME NEW p \in Procs, CloseReachback(p) PROVE LauncherMoves(s)
  BY <1>14 DEF CloseReachback, LauncherMoves
<1>14a. ASSUME NEW p \in Procs, OpenDirect(p) PROVE LauncherMoves(s)
  BY <1>14a DEF OpenDirect, LauncherMoves
<1>14b. ASSUME NEW p \in Procs, CloseDirect(p) PROVE LauncherMoves(s)
  BY <1>14b DEF CloseDirect, LauncherMoves
<1>15. ASSUME NEW p \in Procs, RunTool(p) PROVE LauncherMoves(s)
  <2>1. Called(p) /\ Making(p, TargetOf(p))
    BY <1>15, CalledStep, MakingStep
  <2>2. UNCHANGED launcher \/ launcher' = [launcher EXCEPT ![TargetOf(p)] = p]
    BY <2>1 DEF Making
  <2>3. pc[p] = "tool" /\ pc'[p] \in {"attached"} \cup TearingDown \cup Finished
    BY <2>1 DEF Called, ToTeardown, TypeOK
  <2>4. QED BY <2>2, <2>3 DEF LauncherMoves, TypeOK
<1>16. ASSUME NEW p \in Procs, StartTool(p) PROVE LauncherMoves(s)
  <2>1. Called(p) /\ Making(p, TargetOf(p))
    BY <1>16, CalledStep, MakingStep
  <2>2. UNCHANGED launcher \/ launcher' = [launcher EXCEPT ![TargetOf(p)] = p]
    BY <2>1 DEF Making
  <2>3. pc[p] = "tool" /\ pc'[p] \in {"attached"} \cup TearingDown \cup Finished
    BY <2>1 DEF Called, ToTeardown, TypeOK
  <2>4. QED BY <2>2, <2>3 DEF LauncherMoves, TypeOK
<1>17. ASSUME NEW p \in Procs, Detach(p) PROVE LauncherMoves(s)
  BY <1>17 DEF Detach, LauncherMoves
<1>18. ASSUME NEW p \in Procs, Sweep(p) PROVE LauncherMoves(s)
  BY <1>18 DEF Sweep, LauncherMoves
<1>19. ASSUME NEW p \in Procs, RemoveTool(p) PROVE LauncherMoves(s)
  BY <1>19 DEF RemoveTool, LauncherMoves
<1>20. ASSUME NEW p \in Procs, RemoveSidecar(p) PROVE LauncherMoves(s)
  BY <1>20 DEF RemoveSidecar, LauncherMoves
<1>21. ASSUME NEW p \in Procs, Guard(p) PROVE LauncherMoves(s)
  BY <1>21 DEF Guard, LauncherMoves
<1>22. ASSUME NEW p \in Procs, StopNamed(p) PROVE LauncherMoves(s)
  BY <1>22 DEF StopNamed, LauncherMoves
<1>23. ASSUME NEW p \in Procs, RemovePair(p) PROVE LauncherMoves(s)
  BY <1>23 DEF RemovePair, LauncherMoves
<1>24. ASSUME NEW p \in Procs, CheckSidecar(p) PROVE LauncherMoves(s)
  BY <1>24 DEF CheckSidecar, LauncherMoves
<1>25. ASSUME NEW p \in Procs, CheckNamed(p) PROVE LauncherMoves(s)
  BY <1>25 DEF CheckNamed, LauncherMoves
<1>26. ASSUME NEW p \in Procs, Exec(p) PROVE LauncherMoves(s)
  BY <1>26 DEF Exec, LauncherMoves
<1>27. ASSUME NEW p \in Procs, ProbeEnds(p) PROVE LauncherMoves(s)
  BY <1>27 DEF ProbeEnds, LauncherMoves
<1>28. ASSUME NEW p \in Procs, Interrupt(p) PROVE LauncherMoves(s)
  BY <1>28 DEF Interrupt, LauncherMoves
<1>29. ASSUME NEW p \in Procs, Kill(p) PROVE LauncherMoves(s)
  BY <1>29 DEF Kill, LauncherMoves
<1>30. ASSUME NEW r \in Runs, ApplyRules(r) PROVE LauncherMoves(s)
  BY <1>30 DEF ApplyRules, LauncherMoves
<1>31. ASSUME NEW r \in Runs, RuleFails(r) PROVE LauncherMoves(s)
  BY <1>31 DEF RuleFails, LauncherMoves
<1>32. ASSUME NEW r \in Runs, ToolExits(r) PROVE LauncherMoves(s)
  BY <1>32 DEF ToolExits, LauncherMoves
<1>33. ASSUME NEW r \in Runs, SidecarDies(r) PROVE LauncherMoves(s)
  BY <1>33 DEF SidecarDies, LauncherMoves
<1>34. ASSUME NEW r \in Runs, RawStart(r) PROVE LauncherMoves(s)
  BY <1>34 DEF RawStart, LauncherMoves, TypeOK
<1>35. ASSUME NEW r \in Runs, TempSweep(r) PROVE LauncherMoves(s)
  BY <1>35 DEF TempSweep, LauncherMoves
<1>36. ASSUME Reboot PROVE LauncherMoves(s)
  BY <1>36 DEF Reboot, LauncherMoves
<1>37. CASE UNCHANGED vars
  BY <1>37 DEF vars, LauncherMoves
<1>38. QED BY <1>1, <1>2, <1>3, <1>4, <1>5, <1>6, <1>7, <1>8, <1>9, <1>10, <1>11,
     <1>12, <1>13, <1>14, <1>14a, <1>14b, <1>15, <1>16, <1>17, <1>18, <1>19, <1>20,
     <1>21, <1>22,
     <1>23, <1>24, <1>25, <1>26, <1>27, <1>28, <1>29, <1>30, <1>31, <1>32, <1>33,
     <1>34, <1>35, <1>36, <1>37 DEF Next, Work, BuildStep, TeardownStep, ManageStep,
     Environment

\* An ephemeral Teardown ends after the removal of the tool and of the sidecar.
LEMMA TeardownMovesStep ==
    ASSUME TypeOK, [Next]_vars, IdleInv, PathInv
    PROVE  \A p \in Procs : TeardownMoves(p)
<1> SUFFICES ASSUME NEW q \in Procs PROVE TeardownMoves(q)
  OBVIOUS
<1> USE DEF TypeOK, IdleInv, PathInv, TeardownMoves, JailJob, RunJob, StartJob
<1>1. ASSUME NEW p \in Procs, Launch(p) PROVE TeardownMoves(q)
  BY <1>1 DEF Launch, conts, netns, create, files, ends, Goto
<1>2. ASSUME NEW p \in Procs, ResolveTool(p) PROVE TeardownMoves(q)
  BY <1>2 DEF ResolveTool, Refuse, conts, netns, create, files, Goto, End
<1>3. ASSUME NEW p \in Procs, FindHelper(p) PROVE TeardownMoves(q)
  BY <1>3 DEF FindHelper, Refuse, conts, netns, create, files, Goto, End
<1>4. ASSUME NEW p \in Procs, Reconcile(p) PROVE TeardownMoves(q)
  BY <1>4 DEF Reconcile, Refuse, conts, netns, create, files, Goto, End
<1>5. ASSUME NEW p \in Procs, CreateSidecar(p) PROVE TeardownMoves(q)
  BY <1>5 DEF CreateSidecar, Abort, ToTeardown, FreshNetns, netns, files, Goto, End
<1>6. ASSUME NEW p \in Procs, ReviveSidecar(p) PROVE TeardownMoves(q)
  BY <1>6 DEF ReviveSidecar, Abort, ToTeardown, Revive, FreshNetns, AfterRevive, netns,
       create, files, Goto, End
<1>7. ASSUME NEW p \in Procs, ProbeV4(p) PROVE TeardownMoves(q)
  BY <1>7 DEF ProbeV4, Abort, ToTeardown, RulesPresent, conts, create, files, Goto, End
<1>8. ASSUME NEW p \in Procs, ProbeV6(p) PROVE TeardownMoves(q)
  BY <1>8 DEF ProbeV6, Abort, ToTeardown, RulesPresent, conts, netns, create, files,
       Goto, End
<1>9. ASSUME NEW p \in Procs, StartDNS(p) PROVE TeardownMoves(q)
  BY <1>9 DEF StartDNS, Abort, ToTeardown, conts, create, files, Goto, End
<1>10. ASSUME NEW p \in Procs, WriteFix(p) PROVE TeardownMoves(q)
  BY <1>10 DEF WriteFix, Abort, ToTeardown, NextFile, AllFix, conts, netns, create,
       Goto, End
<1>11. ASSUME NEW p \in Procs, StatMachineID(p) PROVE TeardownMoves(q)
  BY <1>11 DEF StatMachineID, Abort, ToTeardown, AfterFiles, AfterReach, conts, netns, create,
       files, Goto, End
<1>12. ASSUME NEW p \in Procs, MintMachineID(p) PROVE TeardownMoves(q)
  BY <1>12 DEF MintMachineID, Abort, ToTeardown, AfterFiles, AfterReach, conts, netns, create,
       Goto, End
<1>13. ASSUME NEW p \in Procs, OpenReachback(p) PROVE TeardownMoves(q)
  BY <1>13 DEF OpenReachback, Abort, ToTeardown, Revive, FreshNetns, netns, create,
       files, Goto, End
<1>14. ASSUME NEW p \in Procs, CloseReachback(p) PROVE TeardownMoves(q)
  BY <1>14 DEF CloseReachback, Abort, ToTeardown, AfterReach, conts, netns, create, files, Goto, End
<1>14a. ASSUME NEW p \in Procs, OpenDirect(p) PROVE TeardownMoves(q)
  BY <1>14a DEF OpenDirect, Revive, FreshNetns, netns, create, ends,
       files, Goto, End
<1>14b. ASSUME NEW p \in Procs, CloseDirect(p) PROVE TeardownMoves(q)
  BY <1>14b DEF CloseDirect, conts, netns, create, ends, files, Goto, End
<1>15. ASSUME NEW p \in Procs, RunTool(p) PROVE TeardownMoves(q)
  BY <1>15, CalledStep DEF Called, ToTeardown
<1>16. ASSUME NEW p \in Procs, StartTool(p) PROVE TeardownMoves(q)
  BY <1>16, CalledStep DEF Called, ToTeardown
<1>17. ASSUME NEW p \in Procs, Detach(p) PROVE TeardownMoves(q)
  BY <1>17 DEF Detach, ToTeardown, conts, netns, create, files, Goto, End
<1>18. ASSUME NEW p \in Procs, Sweep(p) PROVE TeardownMoves(q)
  BY <1>18 DEF Sweep, NextFile, LastFile, AfterSweep, AllFix, conts, netns, create,
       ends, Goto
<1>19. ASSUME NEW p \in Procs, RemoveTool(p) PROVE TeardownMoves(q)
  <2>1. TargetOf(p) \in Runs /\ UNCHANGED job
    BY <1>19, TargetIsRun DEF RemoveTool
  <2>2. pc[p] = "tdTool" /\ pc' = [pc EXCEPT ![p] = "tdSidecar"] /\ UNCHANGED outcome
    BY <1>19 DEF RemoveTool, Goto
  <2>3. (UNCHANGED left /\ ~ToolExists(TargetOf(p))') \/ Leaves(p, "reported")
    BY <1>19, <2>1 DEF RemoveTool, ToolRemoved, ToolExists, TypeOK
  <2>4. CASE q = p
    BY <2>1, <2>2, <2>3, <2>4 DEF Leaves, TypeOK, TeardownMoves
  <2>5. CASE q # p
    BY <2>1, <2>2, <2>3, <2>5 DEF Leaves, TypeOK, TeardownMoves
  <2>6. QED BY <2>4, <2>5
<1>20. ASSUME NEW p \in Procs, RemoveSidecar(p) PROVE TeardownMoves(q)
  <2>1. TargetOf(p) \in Runs /\ UNCHANGED job
    BY <1>20, TargetIsRun DEF RemoveSidecar
  <2>2. pc[p] = "tdSidecar" /\ pc' = [pc EXCEPT ![p] = "done"] /\ UNCHANGED outcome
    BY <1>20 DEF RemoveSidecar, Goto
  <2>3. \/ UNCHANGED left /\ ~SidecarExists(TargetOf(p))'
        \/ \E how \in {"reported", "silent"} : Leaves(p, how)
    BY <1>20, <2>1 DEF RemoveSidecar, SidecarRemoved, SidecarExists, TypeOK
  <2>4. CASE q = p
    BY <2>1, <2>2, <2>3, <2>4 DEF Leaves, TypeOK, TeardownMoves
  <2>5. CASE q # p
    BY <2>1, <2>2, <2>3, <2>5 DEF Leaves, TypeOK, TeardownMoves
  <2>6. QED BY <2>4, <2>5
<1>21. ASSUME NEW p \in Procs, Guard(p) PROVE TeardownMoves(q)
  BY <1>21 DEF Guard, Refuse, conts, netns, create, files, Goto, End
<1>22. ASSUME NEW p \in Procs, StopNamed(p) PROVE TeardownMoves(q)
  BY <1>22 DEF StopNamed, StopSidecar, NoNetns, ToolAtRest, conts, netns, create,
       files, Goto, End
<1>23. ASSUME NEW p \in Procs, RemovePair(p) PROVE TeardownMoves(q)
  BY <1>23 DEF RemovePair, NoNetns, AfterRm, AfterRmError, conts, netns, create, files,
       Goto, End
<1>24. ASSUME NEW p \in Procs, CheckSidecar(p) PROVE TeardownMoves(q)
  BY <1>24 DEF CheckSidecar, Refuse, conts, netns, create, files, Goto, End
<1>25. ASSUME NEW p \in Procs, CheckNamed(p) PROVE TeardownMoves(q)
  BY <1>25 DEF CheckNamed, Refuse, conts, netns, create, files, Goto, End
<1>26. ASSUME NEW p \in Procs, Exec(p) PROVE TeardownMoves(q)
  BY <1>26 DEF Exec, conts, netns, create, files, Goto, End
<1>27. ASSUME NEW p \in Procs, ProbeEnds(p) PROVE TeardownMoves(q)
  BY <1>27 DEF ProbeEnds, conts, netns, create, files, ends
<1>28. ASSUME NEW p \in Procs, Interrupt(p) PROVE TeardownMoves(q)
  BY <1>28 DEF Interrupt, conts, netns, create, files, ends
<1>29. ASSUME NEW p \in Procs, Kill(p) PROVE TeardownMoves(q)
  BY <1>29 DEF Kill, conts, netns, create, files, ends
<1>30. ASSUME NEW r \in Runs, ApplyRules(r) PROVE TeardownMoves(q)
  BY <1>30 DEF ApplyRules, conts, create, files, ends
<1>31. ASSUME NEW r \in Runs, RuleFails(r) PROVE TeardownMoves(q)
  BY <1>31 DEF RuleFails, conts, create, files, ends
<1>32. ASSUME NEW r \in Runs, ToolExits(r) PROVE TeardownMoves(q)
  BY <1>32 DEF ToolExits, ToolAtRest, netns, create, files, ends
<1>33. ASSUME NEW r \in Runs, SidecarDies(r) PROVE TeardownMoves(q)
  BY <1>33 DEF SidecarDies, StopSidecar, NoNetns, create, files, ends
<1>34. ASSUME NEW r \in Runs, RawStart(r) PROVE TeardownMoves(q)
  BY <1>34 DEF RawStart, Revive, FreshNetns, create, files, ends
<1>35. ASSUME NEW r \in Runs, TempSweep(r) PROVE TeardownMoves(q)
  BY <1>35 DEF TempSweep, conts, netns, create, ends
<1>36. ASSUME Reboot PROVE TeardownMoves(q)
  BY <1>36 DEF Reboot, create, files, ends
<1>37. CASE UNCHANGED vars
  BY <1>37 DEF vars
<1>38. QED BY <1>1, <1>2, <1>3, <1>4, <1>5, <1>6, <1>7, <1>8, <1>9, <1>10, <1>11,
     <1>12, <1>13, <1>14, <1>14a, <1>14b, <1>15, <1>16, <1>17, <1>18, <1>19, <1>20,
     <1>21, <1>22,
     <1>23, <1>24, <1>25, <1>26, <1>27, <1>28, <1>29, <1>30, <1>31, <1>32, <1>33,
     <1>34, <1>35, <1>36, <1>37 DEF Next, Work, BuildStep, TeardownStep, ManageStep,
     Environment

\* How a command ended does not change any more.
LEMMA DoneStays ==
    ASSUME TypeOK, [Next]_vars
    PROVE  \A p \in Procs : pc[p] = "done" => outcome'[p] = outcome[p]
<1> SUFFICES ASSUME NEW q \in Procs, pc[q] = "done" PROVE outcome'[q] = outcome[q]
  OBVIOUS
<1> USE DEF TypeOK
<1>1. ASSUME NEW p \in Procs, Launch(p) PROVE outcome'[q] = outcome[q]
  BY <1>1 DEF Launch, conts, netns, create, files, ends, Goto
<1>2. ASSUME NEW p \in Procs, ResolveTool(p) PROVE outcome'[q] = outcome[q]
  BY <1>2 DEF ResolveTool, Refuse, conts, netns, create, files, Goto, End
<1>3. ASSUME NEW p \in Procs, FindHelper(p) PROVE outcome'[q] = outcome[q]
  BY <1>3 DEF FindHelper, Refuse, conts, netns, create, files, Goto, End
<1>4. ASSUME NEW p \in Procs, Reconcile(p) PROVE outcome'[q] = outcome[q]
  BY <1>4 DEF Reconcile, Refuse, conts, netns, create, files, Goto, End
<1>5. ASSUME NEW p \in Procs, CreateSidecar(p) PROVE outcome'[q] = outcome[q]
  BY <1>5 DEF CreateSidecar, Abort, ToTeardown, FreshNetns, netns, files, Goto, End
<1>6. ASSUME NEW p \in Procs, ReviveSidecar(p) PROVE outcome'[q] = outcome[q]
  BY <1>6 DEF ReviveSidecar, Abort, ToTeardown, Revive, FreshNetns, AfterRevive, netns,
       create, files, Goto, End
<1>7. ASSUME NEW p \in Procs, ProbeV4(p) PROVE outcome'[q] = outcome[q]
  BY <1>7 DEF ProbeV4, Abort, ToTeardown, RulesPresent, conts, create, files, Goto, End
<1>8. ASSUME NEW p \in Procs, ProbeV6(p) PROVE outcome'[q] = outcome[q]
  BY <1>8 DEF ProbeV6, Abort, ToTeardown, RulesPresent, conts, netns, create, files,
       Goto, End
<1>9. ASSUME NEW p \in Procs, StartDNS(p) PROVE outcome'[q] = outcome[q]
  BY <1>9 DEF StartDNS, Abort, ToTeardown, conts, create, files, Goto, End
<1>10. ASSUME NEW p \in Procs, WriteFix(p) PROVE outcome'[q] = outcome[q]
  BY <1>10 DEF WriteFix, Abort, ToTeardown, NextFile, AllFix, conts, netns, create,
       Goto, End
<1>11. ASSUME NEW p \in Procs, StatMachineID(p) PROVE outcome'[q] = outcome[q]
  BY <1>11 DEF StatMachineID, Abort, ToTeardown, AfterFiles, AfterReach, conts, netns, create,
       files, Goto, End
<1>12. ASSUME NEW p \in Procs, MintMachineID(p) PROVE outcome'[q] = outcome[q]
  BY <1>12 DEF MintMachineID, Abort, ToTeardown, AfterFiles, AfterReach, conts, netns, create,
       Goto, End
<1>13. ASSUME NEW p \in Procs, OpenReachback(p) PROVE outcome'[q] = outcome[q]
  BY <1>13 DEF OpenReachback, Abort, ToTeardown, Revive, FreshNetns, netns, create,
       files, Goto, End
<1>14. ASSUME NEW p \in Procs, CloseReachback(p) PROVE outcome'[q] = outcome[q]
  BY <1>14 DEF CloseReachback, Abort, ToTeardown, AfterReach, conts, netns, create, files, Goto, End
<1>14a. ASSUME NEW p \in Procs, OpenDirect(p) PROVE outcome'[q] = outcome[q]
  BY <1>14a DEF OpenDirect, Revive, FreshNetns, netns, create, ends,
       files, Goto, End
<1>14b. ASSUME NEW p \in Procs, CloseDirect(p) PROVE outcome'[q] = outcome[q]
  BY <1>14b DEF CloseDirect, conts, netns, create, ends, files, Goto, End
<1>15. ASSUME NEW p \in Procs, RunTool(p) PROVE outcome'[q] = outcome[q]
  BY <1>15, CalledStep DEF Called, ToTeardown
<1>16. ASSUME NEW p \in Procs, StartTool(p) PROVE outcome'[q] = outcome[q]
  BY <1>16, CalledStep DEF Called, ToTeardown
<1>17. ASSUME NEW p \in Procs, Detach(p) PROVE outcome'[q] = outcome[q]
  BY <1>17 DEF Detach, ToTeardown, conts, netns, create, files, Goto, End
<1>18. ASSUME NEW p \in Procs, Sweep(p) PROVE outcome'[q] = outcome[q]
  BY <1>18 DEF Sweep, NextFile, LastFile, AfterSweep, AllFix, conts, netns, create,
       ends, Goto
<1>19. ASSUME NEW p \in Procs, RemoveTool(p) PROVE outcome'[q] = outcome[q]
  BY <1>19 DEF RemoveTool, Leaves, netns, create, files, Goto
<1>20. ASSUME NEW p \in Procs, RemoveSidecar(p) PROVE outcome'[q] = outcome[q]
  BY <1>20 DEF RemoveSidecar, Leaves, NoNetns, netns, create, files, Goto
<1>21. ASSUME NEW p \in Procs, Guard(p) PROVE outcome'[q] = outcome[q]
  BY <1>21 DEF Guard, Refuse, conts, netns, create, files, Goto, End
<1>22. ASSUME NEW p \in Procs, StopNamed(p) PROVE outcome'[q] = outcome[q]
  BY <1>22 DEF StopNamed, StopSidecar, NoNetns, ToolAtRest, conts, netns, create,
       files, Goto, End
<1>23. ASSUME NEW p \in Procs, RemovePair(p) PROVE outcome'[q] = outcome[q]
  BY <1>23 DEF RemovePair, NoNetns, AfterRm, AfterRmError, conts, netns, create, files,
       Goto, End
<1>24. ASSUME NEW p \in Procs, CheckSidecar(p) PROVE outcome'[q] = outcome[q]
  BY <1>24 DEF CheckSidecar, Refuse, conts, netns, create, files, Goto, End
<1>25. ASSUME NEW p \in Procs, CheckNamed(p) PROVE outcome'[q] = outcome[q]
  BY <1>25 DEF CheckNamed, Refuse, conts, netns, create, files, Goto, End
<1>26. ASSUME NEW p \in Procs, Exec(p) PROVE outcome'[q] = outcome[q]
  BY <1>26 DEF Exec, conts, netns, create, files, Goto, End
<1>27. ASSUME NEW p \in Procs, ProbeEnds(p) PROVE outcome'[q] = outcome[q]
  BY <1>27 DEF ProbeEnds, conts, netns, create, files, ends
<1>28. ASSUME NEW p \in Procs, Interrupt(p) PROVE outcome'[q] = outcome[q]
  BY <1>28 DEF Interrupt, conts, netns, create, files, ends
<1>29. ASSUME NEW p \in Procs, Kill(p) PROVE outcome'[q] = outcome[q]
  BY <1>29 DEF Kill, conts, netns, create, files, ends
<1>30. ASSUME NEW r \in Runs, ApplyRules(r) PROVE outcome'[q] = outcome[q]
  BY <1>30 DEF ApplyRules, conts, create, files, ends
<1>31. ASSUME NEW r \in Runs, RuleFails(r) PROVE outcome'[q] = outcome[q]
  BY <1>31 DEF RuleFails, conts, create, files, ends
<1>32. ASSUME NEW r \in Runs, ToolExits(r) PROVE outcome'[q] = outcome[q]
  BY <1>32 DEF ToolExits, ToolAtRest, netns, create, files, ends
<1>33. ASSUME NEW r \in Runs, SidecarDies(r) PROVE outcome'[q] = outcome[q]
  BY <1>33 DEF SidecarDies, StopSidecar, NoNetns, create, files, ends
<1>34. ASSUME NEW r \in Runs, RawStart(r) PROVE outcome'[q] = outcome[q]
  BY <1>34 DEF RawStart, Revive, FreshNetns, create, files, ends
<1>35. ASSUME NEW r \in Runs, TempSweep(r) PROVE outcome'[q] = outcome[q]
  BY <1>35 DEF TempSweep, conts, netns, create, ends
<1>36. ASSUME Reboot PROVE outcome'[q] = outcome[q]
  BY <1>36 DEF Reboot, create, files, ends
<1>37. CASE UNCHANGED vars
  BY <1>37 DEF vars
<1>38. QED BY <1>1, <1>2, <1>3, <1>4, <1>5, <1>6, <1>7, <1>8, <1>9, <1>10, <1>11,
     <1>12, <1>13, <1>14, <1>14a, <1>14b, <1>15, <1>16, <1>17, <1>18, <1>19, <1>20,
     <1>21, <1>22,
     <1>23, <1>24, <1>25, <1>26, <1>27, <1>28, <1>29, <1>30, <1>31, <1>32, <1>33,
     <1>34, <1>35, <1>36, <1>37 DEF Next, Work, BuildStep, TeardownStep, ManageStep,
     Environment

-----------------------------------------------------------------------------
(***************************************************************************)
(* Every step preserves the invariant.                                     *)
(***************************************************************************)

\* A process is idle until it is launched, once.
LEMMA IdleStep ==
    ASSUME TypeOK, [Next]_vars, IdleInv
    PROVE  IdleInv'
<1> USE DEF TypeOK, IdleInv, SeenAfter
<1>1. ASSUME NEW p \in Procs, Launch(p) PROVE IdleInv'
  BY <1>1 DEF Launch, conts, netns, create, files, ends, Goto
<1>2. ASSUME NEW p \in Procs, ResolveTool(p) PROVE IdleInv'
  BY <1>2 DEF ResolveTool, Refuse, conts, netns, create, files, Goto, End
<1>3. ASSUME NEW p \in Procs, FindHelper(p) PROVE IdleInv'
  BY <1>3 DEF FindHelper, Refuse, conts, netns, create, files, Goto, End
<1>4. ASSUME NEW p \in Procs, Reconcile(p) PROVE IdleInv'
  BY <1>4 DEF Reconcile, Refuse, conts, netns, create, files, Goto, End
<1>5. ASSUME NEW p \in Procs, CreateSidecar(p) PROVE IdleInv'
  BY <1>5 DEF CreateSidecar, Abort, ToTeardown, FreshNetns, netns, files, Goto, End
<1>6. ASSUME NEW p \in Procs, ReviveSidecar(p) PROVE IdleInv'
  BY <1>6 DEF ReviveSidecar, Abort, ToTeardown, Revive, FreshNetns, AfterRevive, netns,
       create, files, Goto, End
<1>7. ASSUME NEW p \in Procs, ProbeV4(p) PROVE IdleInv'
  BY <1>7 DEF ProbeV4, Abort, ToTeardown, RulesPresent, conts, create, files, Goto, End
<1>8. ASSUME NEW p \in Procs, ProbeV6(p) PROVE IdleInv'
  BY <1>8 DEF ProbeV6, Abort, ToTeardown, RulesPresent, conts, netns, create, files,
       Goto, End
<1>9. ASSUME NEW p \in Procs, StartDNS(p) PROVE IdleInv'
  BY <1>9 DEF StartDNS, Abort, ToTeardown, conts, create, files, Goto, End
<1>10. ASSUME NEW p \in Procs, WriteFix(p) PROVE IdleInv'
  BY <1>10 DEF WriteFix, Abort, ToTeardown, NextFile, AllFix, conts, netns, create,
       Goto, End
<1>11. ASSUME NEW p \in Procs, StatMachineID(p) PROVE IdleInv'
  BY <1>11 DEF StatMachineID, Abort, ToTeardown, AfterFiles, AfterReach, conts, netns, create,
       files, Goto, End
<1>12. ASSUME NEW p \in Procs, MintMachineID(p) PROVE IdleInv'
  BY <1>12 DEF MintMachineID, Abort, ToTeardown, AfterFiles, AfterReach, conts, netns, create,
       Goto, End
<1>13. ASSUME NEW p \in Procs, OpenReachback(p) PROVE IdleInv'
  BY <1>13 DEF OpenReachback, Abort, ToTeardown, Revive, FreshNetns, netns, create,
       files, Goto, End
<1>14. ASSUME NEW p \in Procs, CloseReachback(p) PROVE IdleInv'
  BY <1>14 DEF CloseReachback, Abort, ToTeardown, AfterReach, conts, netns, create, files, Goto, End
<1>14a. ASSUME NEW p \in Procs, OpenDirect(p) PROVE IdleInv'
  BY <1>14a DEF OpenDirect, Revive, FreshNetns, netns, create, ends,
       files, Goto, End
<1>14b. ASSUME NEW p \in Procs, CloseDirect(p) PROVE IdleInv'
  BY <1>14b DEF CloseDirect, conts, netns, create, ends, files, Goto, End
<1>15. ASSUME NEW p \in Procs, RunTool(p) PROVE IdleInv'
  <2>1. Called(p) /\ Making(p, TargetOf(p))
    BY <1>15, CalledStep, MakingStep
  <2>2. \A q \in Procs : seen[q] = "none" => seen'[q] = "none"
    BY <2>1 DEF Making, Revive, FreshNetns
  <2>3. QED BY <2>1, <2>2 DEF Called, ToTeardown
<1>16. ASSUME NEW p \in Procs, StartTool(p) PROVE IdleInv'
  <2>1. Called(p) /\ Making(p, TargetOf(p))
    BY <1>16, CalledStep, MakingStep
  <2>2. \A q \in Procs : seen[q] = "none" => seen'[q] = "none"
    BY <2>1 DEF Making, Revive, FreshNetns
  <2>3. QED BY <2>1, <2>2 DEF Called, ToTeardown
<1>17. ASSUME NEW p \in Procs, Detach(p) PROVE IdleInv'
  BY <1>17 DEF Detach, ToTeardown, conts, netns, create, files, Goto, End
<1>18. ASSUME NEW p \in Procs, Sweep(p) PROVE IdleInv'
  BY <1>18 DEF Sweep, NextFile, LastFile, AfterSweep, AllFix, conts, netns, create,
       ends, Goto
<1>19. ASSUME NEW p \in Procs, RemoveTool(p) PROVE IdleInv'
  BY <1>19 DEF RemoveTool, Leaves, netns, create, files, Goto
<1>20. ASSUME NEW p \in Procs, RemoveSidecar(p) PROVE IdleInv'
  <2>1. Losing(TargetOf(p))
    BY <1>20, LosingStep
  <2>2. \A q \in Procs : seen[q] = "none" => seen'[q] = "none"
    BY <2>1 DEF Losing, NoNetns
  <2>3. QED BY <1>20, <2>2 DEF RemoveSidecar, Leaves, create, files, Goto
<1>21. ASSUME NEW p \in Procs, Guard(p) PROVE IdleInv'
  BY <1>21 DEF Guard, Refuse, conts, netns, create, files, Goto, End
<1>22. ASSUME NEW p \in Procs, StopNamed(p) PROVE IdleInv'
  BY <1>22 DEF StopNamed, StopSidecar, NoNetns, ToolAtRest, conts, netns, create,
       files, Goto, End
<1>23. ASSUME NEW p \in Procs, RemovePair(p) PROVE IdleInv'
  <2>1. Losing(TargetOf(p))
    BY <1>23, LosingStep
  <2>2. \A q \in Procs : seen[q] = "none" => seen'[q] = "none"
    BY <2>1 DEF Losing, NoNetns
  <2>3. QED BY <1>23, <2>2 DEF RemovePair, AfterRm, AfterRmError, create, files, Goto, End
<1>24. ASSUME NEW p \in Procs, CheckSidecar(p) PROVE IdleInv'
  BY <1>24 DEF CheckSidecar, Refuse, conts, netns, create, files, Goto, End
<1>25. ASSUME NEW p \in Procs, CheckNamed(p) PROVE IdleInv'
  BY <1>25 DEF CheckNamed, Refuse, conts, netns, create, files, Goto, End
<1>26. ASSUME NEW p \in Procs, Exec(p) PROVE IdleInv'
  BY <1>26 DEF Exec, conts, netns, create, files, Goto, End
<1>27. ASSUME NEW p \in Procs, ProbeEnds(p) PROVE IdleInv'
  BY <1>27 DEF ProbeEnds, conts, netns, create, files, ends
<1>28. ASSUME NEW p \in Procs, Interrupt(p) PROVE IdleInv'
  BY <1>28 DEF Interrupt, conts, netns, create, files, ends
<1>29. ASSUME NEW p \in Procs, Kill(p) PROVE IdleInv'
  BY <1>29 DEF Kill, conts, netns, create, files, ends
<1>30. ASSUME NEW r \in Runs, ApplyRules(r) PROVE IdleInv'
  BY <1>30 DEF ApplyRules, conts, create, files, ends
<1>31. ASSUME NEW r \in Runs, RuleFails(r) PROVE IdleInv'
  BY <1>31 DEF RuleFails, conts, create, files, ends
<1>32. ASSUME NEW r \in Runs, ToolExits(r) PROVE IdleInv'
  BY <1>32 DEF ToolExits, ToolAtRest, netns, create, files, ends
<1>33. ASSUME NEW r \in Runs, SidecarDies(r) PROVE IdleInv'
  BY <1>33 DEF SidecarDies, StopSidecar, NoNetns, create, files, ends
<1>34. ASSUME NEW r \in Runs, RawStart(r) PROVE IdleInv'
  BY <1>34 DEF RawStart, Revive, FreshNetns, create, files, ends
<1>35. ASSUME NEW r \in Runs, TempSweep(r) PROVE IdleInv'
  BY <1>35 DEF TempSweep, conts, netns, create, ends
<1>36. ASSUME Reboot PROVE IdleInv'
  BY <1>36 DEF Reboot, create, files, ends
<1>37. CASE UNCHANGED vars
  BY <1>37 DEF vars
<1>38. QED BY <1>1, <1>2, <1>3, <1>4, <1>5, <1>6, <1>7, <1>8, <1>9, <1>10, <1>11,
     <1>12, <1>13, <1>14, <1>14a, <1>14b, <1>15, <1>16, <1>17, <1>18, <1>19, <1>20,
     <1>21, <1>22,
     <1>23, <1>24, <1>25, <1>26, <1>27, <1>28, <1>29, <1>30, <1>31, <1>32, <1>33,
     <1>34, <1>35, <1>36, <1>37 DEF Next, Work, BuildStep, TeardownStep, ManageStep,
     Environment

\* Every command keeps to the path of its verb.
LEMMA PathStep ==
    ASSUME TypeOK, [Next]_vars, IdleInv, PathInv
    PROVE  PathInv'
<1> USE DEF TypeOK, IdleInv, PathInv, JailJob, RunJob, StartJob
<1>1. ASSUME NEW p \in Procs, Launch(p) PROVE PathInv'
  BY <1>1 DEF Launch, conts, netns, create, files, ends, Goto
<1>2. ASSUME NEW p \in Procs, ResolveTool(p) PROVE PathInv'
  BY <1>2 DEF ResolveTool, Refuse, conts, netns, create, files, Goto, End
<1>3. ASSUME NEW p \in Procs, FindHelper(p) PROVE PathInv'
  BY <1>3 DEF FindHelper, Refuse, conts, netns, create, files, Goto, End
<1>4. ASSUME NEW p \in Procs, Reconcile(p) PROVE PathInv'
  <2>1. UNCHANGED job
    BY <1>4 DEF Reconcile
  <2>2. CASE Goto(p, "inspect", "sidecar") /\ UNCHANGED outcome
    BY <2>1, <2>2 DEF Goto
  <2>3. CASE Refuse(p, "inspect")
    BY <2>1, <2>3 DEF Refuse, Goto, End
  <2>4. QED BY <1>4, <2>2, <2>3 DEF Reconcile
<1>5. ASSUME NEW p \in Procs, CreateSidecar(p) PROVE PathInv'
  BY <1>5 DEF CreateSidecar, Abort, ToTeardown, FreshNetns, netns, files, Goto, End
<1>6. ASSUME NEW p \in Procs, ReviveSidecar(p) PROVE PathInv'
  BY <1>6 DEF ReviveSidecar, Abort, ToTeardown, Revive, FreshNetns, AfterRevive, netns,
       create, files, Goto, End
<1>7. ASSUME NEW p \in Procs, ProbeV4(p) PROVE PathInv'
  BY <1>7 DEF ProbeV4, Abort, ToTeardown, RulesPresent, conts, create, files, Goto, End
<1>8. ASSUME NEW p \in Procs, ProbeV6(p) PROVE PathInv'
  BY <1>8 DEF ProbeV6, Abort, ToTeardown, RulesPresent, conts, netns, create, files,
       Goto, End
<1>9. ASSUME NEW p \in Procs, StartDNS(p) PROVE PathInv'
  BY <1>9 DEF StartDNS, Abort, ToTeardown, conts, create, files, Goto, End
<1>10. ASSUME NEW p \in Procs, WriteFix(p) PROVE PathInv'
  BY <1>10 DEF WriteFix, Abort, ToTeardown, NextFile, AllFix, conts, netns, create,
       Goto, End
<1>11. ASSUME NEW p \in Procs, StatMachineID(p) PROVE PathInv'
  BY <1>11 DEF StatMachineID, Abort, ToTeardown, AfterFiles, AfterReach, conts, netns, create,
       files, Goto, End
<1>12. ASSUME NEW p \in Procs, MintMachineID(p) PROVE PathInv'
  BY <1>12 DEF MintMachineID, Abort, ToTeardown, AfterFiles, AfterReach, conts, netns, create,
       Goto, End
<1>13. ASSUME NEW p \in Procs, OpenReachback(p) PROVE PathInv'
  BY <1>13 DEF OpenReachback, Abort, ToTeardown, Revive, FreshNetns, netns, create,
       files, Goto, End
<1>14. ASSUME NEW p \in Procs, CloseReachback(p) PROVE PathInv'
  BY <1>14 DEF CloseReachback, Abort, ToTeardown, AfterReach, conts, netns, create, files, Goto, End
<1>14a. ASSUME NEW p \in Procs, OpenDirect(p) PROVE PathInv'
  BY <1>14a DEF OpenDirect, Revive, FreshNetns, netns, create, ends,
       files, Goto, End
<1>14b. ASSUME NEW p \in Procs, CloseDirect(p) PROVE PathInv'
  BY <1>14b DEF CloseDirect, conts, netns, create, ends, files, Goto, End
<1>15. ASSUME NEW p \in Procs, RunTool(p) PROVE PathInv'
  BY <1>15, CalledStep DEF Called, ToTeardown
<1>16. ASSUME NEW p \in Procs, StartTool(p) PROVE PathInv'
  BY <1>16, CalledStep DEF Called, ToTeardown
<1>17. ASSUME NEW p \in Procs, Detach(p) PROVE PathInv'
  BY <1>17 DEF Detach, ToTeardown, conts, netns, create, files, Goto, End
<1>18. ASSUME NEW p \in Procs, Sweep(p) PROVE PathInv'
  BY <1>18 DEF Sweep, NextFile, LastFile, AfterSweep, AllFix, conts, netns, create,
       ends, Goto
<1>19. ASSUME NEW p \in Procs, RemoveTool(p) PROVE PathInv'
  BY <1>19 DEF RemoveTool, Leaves, netns, create, files, Goto
<1>20. ASSUME NEW p \in Procs, RemoveSidecar(p) PROVE PathInv'
  BY <1>20 DEF RemoveSidecar, Leaves, NoNetns, netns, create, files, Goto
<1>21. ASSUME NEW p \in Procs, Guard(p) PROVE PathInv'
  BY <1>21 DEF Guard, Refuse, conts, netns, create, files, Goto, End
<1>22. ASSUME NEW p \in Procs, StopNamed(p) PROVE PathInv'
  BY <1>22 DEF StopNamed, StopSidecar, NoNetns, ToolAtRest, conts, netns, create,
       files, Goto, End
<1>23. ASSUME NEW p \in Procs, RemovePair(p) PROVE PathInv'
  BY <1>23 DEF RemovePair, NoNetns, AfterRm, AfterRmError, conts, netns, create, files,
       Goto, End
<1>24. ASSUME NEW p \in Procs, CheckSidecar(p) PROVE PathInv'
  BY <1>24 DEF CheckSidecar, Refuse, conts, netns, create, files, Goto, End
<1>25. ASSUME NEW p \in Procs, CheckNamed(p) PROVE PathInv'
  BY <1>25 DEF CheckNamed, Refuse, conts, netns, create, files, Goto, End
<1>26. ASSUME NEW p \in Procs, Exec(p) PROVE PathInv'
  BY <1>26 DEF Exec, conts, netns, create, files, Goto, End
<1>27. ASSUME NEW p \in Procs, ProbeEnds(p) PROVE PathInv'
  BY <1>27 DEF ProbeEnds, conts, netns, create, files, ends
<1>28. ASSUME NEW p \in Procs, Interrupt(p) PROVE PathInv'
  BY <1>28 DEF Interrupt, conts, netns, create, files, ends
<1>29. ASSUME NEW p \in Procs, Kill(p) PROVE PathInv'
  BY <1>29 DEF Kill, conts, netns, create, files, ends
<1>30. ASSUME NEW r \in Runs, ApplyRules(r) PROVE PathInv'
  BY <1>30 DEF ApplyRules, conts, create, files, ends
<1>31. ASSUME NEW r \in Runs, RuleFails(r) PROVE PathInv'
  BY <1>31 DEF RuleFails, conts, create, files, ends
<1>32. ASSUME NEW r \in Runs, ToolExits(r) PROVE PathInv'
  BY <1>32 DEF ToolExits, ToolAtRest, netns, create, files, ends
<1>33. ASSUME NEW r \in Runs, SidecarDies(r) PROVE PathInv'
  BY <1>33 DEF SidecarDies, StopSidecar, NoNetns, create, files, ends
<1>34. ASSUME NEW r \in Runs, RawStart(r) PROVE PathInv'
  BY <1>34 DEF RawStart, Revive, FreshNetns, create, files, ends
<1>35. ASSUME NEW r \in Runs, TempSweep(r) PROVE PathInv'
  BY <1>35 DEF TempSweep, conts, netns, create, ends
<1>36. ASSUME Reboot PROVE PathInv'
  BY <1>36 DEF Reboot, create, files, ends
<1>37. CASE UNCHANGED vars
  BY <1>37 DEF vars
<1>38. QED BY <1>1, <1>2, <1>3, <1>4, <1>5, <1>6, <1>7, <1>8, <1>9, <1>10, <1>11,
     <1>12, <1>13, <1>14, <1>14a, <1>14b, <1>15, <1>16, <1>17, <1>18, <1>19, <1>20,
     <1>21, <1>22,
     <1>23, <1>24, <1>25, <1>26, <1>27, <1>28, <1>29, <1>30, <1>31, <1>32, <1>33,
     <1>34, <1>35, <1>36, <1>37 DEF Next, Work, BuildStep, TeardownStep, ManageStep,
     Environment

\* A process about to remove a container is one whose command does so.
LEMMA RemovingRemoves ==
    ASSUME TypeOK, PathInv, NEW p \in Procs, Removing(p)
    PROVE  Remover(p)
BY DEF TypeOK, PathInv, Removing, Remover, Removes, JailJob, RunJob, StartJob

\* Nothing is removed without a command that says so.
LEMMA RemovedStep ==
    ASSUME TypeOK, [Next]_vars, PathInv, CreatedInv, RemovedInv
    PROVE  RemovedInv'
<1> SUFFICES ASSUME NEW r \in Runs,
                    sidecar'[r] = "removed" \/ tool'[r] = "removed" \/ autorm'[r]
             PROVE  \E p \in Procs : TargetOf(p)' = r /\ Remover(p)'
  BY DEF RemovedInv
<1>1. \E p \in Procs : TargetOf(p) = r /\ Remover(p)
  <2>1. CASE sidecar[r] = "removed" \/ tool[r] = "removed" \/ autorm[r]
    BY <2>1 DEF RemovedInv
  <2>2. CASE \E p \in Procs : TargetOf(p) = r /\ Removing(p)
    BY <2>2, RemovingRemoves
  <2>3. QED BY <2>1, <2>2, PairStep DEF PairMoves
<1>2. PICK p \in Procs : TargetOf(p) = r /\ Remover(p)
  BY <1>1
<1>3. Remover(p)'
  BY <1>2, RemoverStep
<1>4. job'[p] = job[p]
  BY <1>2, JobStep DEF Remover, Launch, Goto
<1>5. QED BY <1>2, <1>3, <1>4

\* Launching takes an unused run id, and a pair is only made by its run.
LEMMA RunIdStep ==
    ASSUME TypeOK, [Next]_vars, IdleInv, CreatedInv, RunIdInv
    PROVE  RunIdInv'
<1>1. CASE \A p \in Procs : job'[p] = job[p]
  <2>1. \A p, q \in Procs : RunJob(p)' /\ RunJob(q)' /\ TargetOf(p)' = TargetOf(q)' => p = q
    BY <1>1 DEF RunIdInv, RunJob
  <2>2. ASSUME NEW r \in Runs, sidecar'[r] # "absent" \/ tool'[r] # "absent"
        PROVE  \E p \in Procs : RunJob(p)' /\ TargetOf(p)' = r
    <3>1. CASE sidecar[r] # "absent" \/ tool[r] # "absent"
      BY <1>1, <3>1 DEF RunIdInv, RunJob
    <3>2. CASE \E p \in Procs : TargetOf(p) = r /\ (CreateSidecar(p) \/ RunTool(p))
      BY <1>1, <3>2 DEF CreateSidecar, RunTool, RunJob
    <3>3. QED BY <2>2, <3>1, <3>2, PairStep DEF PairMoves
  <2>3. QED BY <2>1, <2>2 DEF RunIdInv
<1>2. ASSUME NEW p \in Procs, Launch(p) PROVE RunIdInv'
  BY <1>2 DEF Launch, Goto, TypeOK, IdleInv, RunIdInv, RunJob, conts
<1>3. QED BY <1>1, <1>2, JobStep

\* The progress of a run and of a start tells what exists and what is baked.
LEMMA CreatedStep ==
    ASSUME TypeOK, [Next]_vars, IdleInv, PathInv, RunIdInv, CreatedInv
    PROVE  CreatedInv'
<1> SUFFICES ASSUME NEW q \in Procs
             PROVE  /\ RunJob(q)' /\ pc'[q] \in {"helper", "sidecar"}
                           => sidecar'[TargetOf(q)'] = "absent"
                    /\ RunJob(q)' /\ pc'[q] \in {"helper"} \cup Building
                           => tool'[TargetOf(q)'] = "absent"
                    /\ StartJob(q)' /\ pc'[q] \in {"helper", "inspect"}
                           => tool'[TargetOf(q)'] # "absent"
                    /\ Reconciled(q)' => /\ tool'[TargetOf(q)'] # "absent"
                                         /\ sidecar'[TargetOf(q)'] # "absent"
                    /\ (\/ pc'[q] \in (Building \ {"sidecar"}) \cup {"attached"}
                        \/ StartJob(q)' /\ pc'[q] = "sidecar")
                           => /\ sidecar'[TargetOf(q)'] # "absent"
                              /\ baked'[TargetOf(q)'] = job'[q].cfg
  BY DEF CreatedInv
<1>1. TargetOf(q) \in Runs /\ PairMoves(TargetOf(q)) /\ ControlMoves(q)
  BY TargetIsRun, PairStep, ControlStep
<1>2. CASE Launch(q)
  <2>1. pc'[q] \in {"helper", "resolve", "guard"} /\ (StartJob(q)' => pc'[q] = "resolve")
    BY <1>2 DEF Launch, Goto, TypeOK, StartJob
  <2>2. ASSUME RunJob(q)'
        PROVE  sidecar'[TargetOf(q)'] = "absent" /\ tool'[TargetOf(q)'] = "absent"
    BY <1>2, <2>2 DEF Launch, conts, TypeOK, RunIdInv, RunJob, Job
  <2>3. QED BY <2>1, <2>2 DEF Reconciled
<1>3. CASE job'[q] = job[q]
  <2>1. ASSUME RunJob(q), pc'[q] \in {"helper", "sidecar"}
        PROVE  sidecar'[TargetOf(q)] = "absent"
    <3>1. pc[q] \in {"helper", "sidecar"}
      BY <1>1, <2>1 DEF ControlMoves, PathInv, Verified, StartJob, RunJob, Launch,
           IdleInv, Goto
    <3>2. \A p \in Procs : TargetOf(p) = TargetOf(q) /\ CreateSidecar(p) => p = q
      BY <2>1 DEF CreateSidecar, RunIdInv, RunJob
    <3>3. ~CreateSidecar(q)
      BY <2>1 DEF CreateSidecar, Goto, Abort, ToTeardown, TypeOK
    <3>4. QED BY <1>1, <2>1, <3>1, <3>2, <3>3 DEF PairMoves, CreatedInv
  <2>2. ASSUME RunJob(q), pc'[q] \in {"helper"} \cup Building
        PROVE  tool'[TargetOf(q)] = "absent"
    <3>1. pc[q] \in {"helper"} \cup Building
      BY <1>1, <2>2 DEF ControlMoves, PathInv, StartJob, RunJob, Verified, Launch,
           IdleInv, Goto
    <3>2. \A p \in Procs : TargetOf(p) = TargetOf(q) /\ RunTool(p) => p = q
      BY <2>2 DEF RunTool, RunIdInv, RunJob
    <3>3. ~RunTool(q)
      BY <2>2, CalledStep DEF Called, ToTeardown, TypeOK
    <3>4. QED BY <1>1, <2>2, <3>1, <3>2, <3>3 DEF PairMoves, CreatedInv
  <2>3. ASSUME StartJob(q), pc'[q] \in {"helper", "inspect"}
        PROVE  tool'[TargetOf(q)] # "absent"
    <3>1. tool[TargetOf(q)] # "absent"
      BY <1>1, <2>3 DEF ControlMoves, CreatedInv, ToolExists, Verified, RunJob,
           StartJob, Launch, IdleInv, Goto
    <3>2. QED BY <1>1, <3>1 DEF PairMoves
  <2>4. ASSUME Reconciled(q)'
        PROVE  tool'[TargetOf(q)] # "absent" /\ sidecar'[TargetOf(q)] # "absent"
    <3>1. CASE Reconciled(q)
      BY <1>1, <3>1 DEF PairMoves, CreatedInv
    <3>2. CASE pc[q] = "inspect" /\ SidecarExists(TargetOf(q))
      BY <1>1, <2>4, <1>3, <3>2 DEF PairMoves, CreatedInv, Reconciled, StartJob,
           SidecarExists
    <3>3. Reconciled(q) \/ (pc[q] = "inspect" /\ SidecarExists(TargetOf(q)))
      BY <1>1, <1>3, <2>4, EndedStep DEF ControlMoves, Reconciled, PathInv, Verified,
           RunJob, StartJob, JailJob, Launch, IdleInv, Goto
    <3>4. QED BY <3>1, <3>2, <3>3
  <2>5. ASSUME \/ pc'[q] \in (Building \ {"sidecar"}) \cup {"attached"}
               \/ StartJob(q) /\ pc'[q] = "sidecar"
        PROVE  sidecar'[TargetOf(q)] # "absent" /\ baked'[TargetOf(q)] = job[q].cfg
    <3>1. CASE CreateSidecar(q) /\ sidecar'[TargetOf(q)] = "running"
      BY <1>1, <3>1 DEF CreateSidecar, TypeOK
    <3>2. CASE sidecar[TargetOf(q)] # "absent" /\ baked[TargetOf(q)] = job[q].cfg
      <4>1. \A p \in Procs : TargetOf(p) = TargetOf(q) => ~CreateSidecar(p)
        BY <3>2 DEF CreateSidecar, CreatedInv, Goto, Abort, RunJob
      <4>2. QED BY <1>1, <3>2, <4>1 DEF PairMoves
    <3>3. \/ CreateSidecar(q) /\ sidecar'[TargetOf(q)] = "running"
          \/ sidecar[TargetOf(q)] # "absent" /\ baked[TargetOf(q)] = job[q].cfg
      <4>1. Launch(q) => pc'[q] \in {"helper", "resolve", "guard"}
        BY DEF Launch, Goto, TypeOK
      <4>2. CASE pc[q] \in (Building \ {"sidecar"}) \cup {"attached"}
        BY <4>2 DEF CreatedInv
      <4>3. CASE pc[q] = "sidecar" /\ pc'[q] = "sidecar"
        BY <1>3, <2>5, <4>3 DEF CreatedInv
      <4>4. CASE pc[q] = "sidecar" /\ pc'[q] = "v4"
        BY <1>1, <4>1, <4>4 DEF ControlMoves, CreatedInv, PathInv, JailJob, Verified
      <4>5. CASE pc[q] = "inspect" /\ pc'[q] = "sidecar"
        BY <1>1, <4>1, <4>5 DEF ControlMoves, Verified, SidecarExists, SameConfig
      <4>6. \/ pc[q] \in Building \cup {"attached"} /\ pc'[q] # "sidecar"
            \/ pc[q] = "sidecar" /\ pc'[q] = "sidecar"
            \/ pc[q] = "inspect" /\ pc'[q] = "sidecar"
        BY <1>1, <2>5, <4>1 DEF ControlMoves, Verified, RunJob, StartJob
      <4>7. pc[q] = "sidecar" /\ pc'[q] # "sidecar" => pc'[q] = "v4"
        BY <1>1, <2>5, <4>1 DEF ControlMoves, Verified
      <4>8. QED BY <4>2, <4>3, <4>4, <4>5, <4>6, <4>7
    <3>4. QED BY <3>1, <3>2, <3>3
  <2>6. QED BY <1>3, <2>1, <2>2, <2>3, <2>4, <2>5 DEF RunJob, StartJob
<1>4. QED BY <1>2, <1>3, JobStep

\* What was verified stays verified in its netns.
LEMMA SeenStep ==
    ASSUME TypeOK, FixCursor, [Next]_vars, IdleInv, PathInv, CreatedInv, SeenInv
    PROVE  SeenInv'
<1> SUFFICES ASSUME NEW q \in Procs
             PROVE  /\ seen'[q] = "current" => /\ sidecar'[TargetOf(q)'] = "running"
                                               /\ "v4" \in fw'[TargetOf(q)']
                    /\ pc'[q] \in {"v6"} \cup Verified => seen'[q] # "none"
                    /\ pc'[q] \in Verified /\ seen'[q] = "current"
                          => fw'[TargetOf(q)'] = Families
  BY DEF SeenInv
<1>1. TargetOf(q) \in Runs /\ NetnsMoves(q) /\ ControlMoves(q)
  BY TargetIsRun, NetnsMovesStep, ControlStep
<1>2. fw'[TargetOf(q)] \subseteq Families
  BY <1>1, TypeStep DEF TypeOK
<1>3. CASE Launch(q)
  <2>1. seen[q] = "none" /\ seen' = seen /\ pc'[q] \notin {"v6"} \cup Verified
    BY <1>3 DEF Launch, Goto, IdleInv, netns, Verified, TypeOK
  <2>2. QED BY <2>1
<1>4. CASE ProbeV4(q)
  <2>1. /\ UNCHANGED <<sidecar, fw, job>> /\ pc[q] = "v4"
        /\ \/ /\ seen'[q] = "current" /\ pc'[q] = "v6"
              /\ sidecar[TargetOf(q)] = "running" /\ "v4" \in fw[TargetOf(q)]
           \/ UNCHANGED seen /\ pc'[q] \in {"sweep", "done"}
    BY <1>4 DEF ProbeV4, Goto, Abort, ToTeardown, conts, RulesPresent, TypeOK
  <2>2. QED BY <2>1 DEF SeenInv, Verified
<1>5. CASE job'[q] = job[q] /\ ~Launch(q) /\ ~ProbeV4(q)
  <2>1. seen'[q] = "current" =>
            /\ seen[q] = "current"
            /\ sidecar'[TargetOf(q)] = "running"
            /\ fw[TargetOf(q)] \subseteq fw'[TargetOf(q)]
    BY <1>1, <1>5 DEF NetnsMoves, SeenInv
  <2>2. seen[q] # "none" => seen'[q] # "none"
    BY <1>1, <1>5 DEF NetnsMoves
  <2>3. pc'[q] \in {"v6"} \cup Verified => pc[q] \in {"v6"} \cup Verified
    BY <1>1, <1>5 DEF ControlMoves, Verified
  <2>4. ASSUME pc'[q] \in Verified, seen'[q] = "current"
        PROVE  fw'[TargetOf(q)] = Families
    <3>1. CASE pc[q] \in Verified
      BY <1>2, <2>1, <2>4, <3>1 DEF SeenInv
    <3>2. CASE pc[q] = "v6" /\ "v6" \in fw[TargetOf(q)]
      BY <1>2, <2>1, <2>4, <3>2 DEF SeenInv
    <3>3. QED BY <1>1, <1>5, <2>4, <3>1, <3>2 DEF ControlMoves, Verified
  <2>5. QED BY <1>5, <2>1, <2>2, <2>3, <2>4 DEF SeenInv
<1>6. QED BY <1>3, <1>4, <1>5, JobStep

\* A container that is there is not made again, so the configuration baked into
\* its sidecar stays.
LEMMA BakedStays ==
    ASSUME TypeOK, [Next]_vars, CreatedInv, NEW r \in Runs, sidecar[r] # "absent"
    PROVE  sidecar'[r] # "absent" /\ baked'[r] = baked[r]
<1>1. \A p \in Procs : TargetOf(p) = r => ~CreateSidecar(p)
  BY DEF CreateSidecar, CreatedInv, Goto, Abort, RunJob
<1>2. QED BY <1>1, PairStep DEF PairMoves

\* A tool was brought up behind a verified jail with the configuration asked for.
LEMMA LauncherStep ==
    ASSUME TypeOK, FixCursor, [Next]_vars,
           IdleInv, PathInv, CreatedInv, SeenInv, LauncherInv
    PROVE  LauncherInv'
<1> SUFFICES ASSUME NEW r \in Runs, NEW p \in Procs, launcher'[r] = p
             PROVE  /\ TargetOf(p)' = r
                    /\ pc'[p] \in {"attached"} \cup TearingDown \cup Finished
                    /\ sidecar'[r] # "absent" /\ baked'[r] = job'[p].cfg
                    /\ seen'[p] # "none"
                    /\ seen'[p] = "current" => fw'[r] = Families
  BY DEF LauncherInv
<1>1. NetnsMoves(p) /\ ControlMoves(p) /\ LauncherMoves(r)
  BY NetnsMovesStep, ControlStep, LauncherMovesStep
<1>2. /\ TargetOf(p) = r /\ sidecar[r] # "absent" /\ baked[r] = job[p].cfg
      /\ seen[p] # "none" /\ (seen[p] = "current" => fw[r] = Families)
      /\ \/ pc[p] \in {"attached"} \cup TearingDown \cup Finished
         \/ pc[p] = "tool" /\ pc'[p] \in {"attached"} \cup TearingDown \cup Finished
  <2>1. CASE launcher[r] = p
    BY <2>1 DEF LauncherInv
  <2>2. CASE /\ TargetOf(p) = r /\ pc[p] = "tool"
             /\ pc'[p] \in {"attached"} \cup TearingDown \cup Finished
    <3>1. pc[p] \in (Building \ {"sidecar"}) /\ pc[p] \in Verified
      BY <2>2 DEF Verified
    <3>2. sidecar[r] # "absent" /\ baked[r] = job[p].cfg
      BY <2>2, <3>1 DEF CreatedInv
    <3>3. seen[p] # "none" /\ (seen[p] = "current" => fw[r] = Families)
      BY <2>2, <3>1 DEF SeenInv
    <3>4. QED BY <2>2, <3>2, <3>3
  <2>3. launcher'[r] # User
    BY LifecycleAssumption DEF LifecycleAssumption
  <2>4. QED BY <1>1, <2>1, <2>2, <2>3 DEF LauncherMoves
<1>3. ~Launch(p) /\ ~ProbeV4(p)
  BY <1>2 DEF Launch, ProbeV4, Goto, Abort
<1>4. job'[p] = job[p]
  BY <1>3, JobStep
<1>5. pc'[p] \in {"attached"} \cup TearingDown \cup Finished
  BY <1>1, <1>2, <1>3 DEF ControlMoves, Verified
<1>6. sidecar'[r] # "absent" /\ baked'[r] = baked[r]
  BY <1>2, BakedStays
<1>7. seen'[p] # "none" /\ (seen'[p] = "current" => fw'[r] = Families)
  <2>1. fw'[r] \subseteq Families
    BY TypeStep DEF TypeOK
  <2>2. QED BY <1>1, <1>2, <1>3, <2>1 DEF NetnsMoves
<1>8. QED BY <1>2, <1>4, <1>5, <1>6, <1>7

\* What a Teardown removed is not made again: a start works on a pair that
\* exists, and a run id has one run.
LEMMA NotRecreated ==
    ASSUME TypeOK, [Next]_vars, RunIdInv, CreatedInv, NEW p \in Procs,
           pc[p] = "tdSidecar" \/ (pc[p] = "done" /\ outcome[p] # "refused"),
           JailJob(p)
    PROVE  /\ ~ToolExists(TargetOf(p)) => ~ToolExists(TargetOf(p))'
           /\ ~SidecarExists(TargetOf(p)) => ~SidecarExists(TargetOf(p))'
<1>1. TargetOf(p) \in Runs /\ PairMoves(TargetOf(p))
  BY TargetIsRun, PairStep
<1>2. CASE RunJob(p)
  <2>1. \A q \in Procs : TargetOf(q) = TargetOf(p) => ~CreateSidecar(q) /\ ~RunTool(q)
    <3>1. ASSUME NEW q \in Procs, TargetOf(q) = TargetOf(p), CreateSidecar(q) \/ RunTool(q)
          PROVE  RunJob(q) /\ pc[q] \in {"sidecar", "tool"}
      BY <3>1, CalledStep DEF CreateSidecar, RunTool, Called, Goto, Abort, RunJob
    <3> QED BY <1>2, <3>1 DEF RunIdInv
  <2>2. ASSUME NEW r, r = TargetOf(p)
        PROVE  /\ tool[r] = "absent" => tool'[r] = "absent"
               /\ sidecar[r] = "absent" => sidecar'[r] = "absent"
    BY <1>1, <2>1, <2>2 DEF PairMoves
  <2>3. job'[p] = job[p]
    BY <1>2, JobStep DEF Launch, Goto
  <2>4. QED BY <1>1, <2>2, <2>3 DEF PairMoves, ToolExists, SidecarExists
<1>3. CASE StartJob(p)
  <2>1. tool[TargetOf(p)] # "absent" /\ sidecar[TargetOf(p)] # "absent"
    BY <1>3 DEF CreatedInv, Reconciled
  <2>2. job'[p] = job[p]
    BY <1>3, JobStep DEF Launch, Goto
  <2>3. QED BY <1>1, <2>1, <2>2 DEF PairMoves, ToolExists, SidecarExists
<1>4. QED BY <1>2, <1>3 DEF JailJob

\* What an ephemeral command has removed stays removed.
LEMMA GoneStep ==
    ASSUME TypeOK, [Next]_vars, IdleInv, PathInv, RunIdInv, CreatedInv, GoneInv
    PROVE  GoneInv'
<1> SUFFICES ASSUME NEW q \in Procs
             PROVE  /\ pc'[q] = "tdSidecar" /\ left'[q] = "nothing"
                          => ~ToolExists(TargetOf(q))'
                    /\ EndedEphemeral(q)' /\ left'[q] = "nothing"
                          => Gone(TargetOf(q))'
  BY DEF GoneInv
<1>1. TeardownMoves(q)
  BY TeardownMovesStep
<1>2. ASSUME pc'[q] = "tdSidecar", left'[q] = "nothing"
      PROVE  ~ToolExists(TargetOf(q))'
  <2>1. CASE pc[q] = "tdSidecar" /\ left[q] = "nothing"
    BY <2>1, NotRecreated DEF GoneInv, PathInv
  <2>2. CASE ~ToolExists(TargetOf(q))'
    BY <2>2
  <2>3. QED BY <1>1, <1>2, <2>1, <2>2 DEF TeardownMoves
<1>3. ASSUME EndedEphemeral(q)', left'[q] = "nothing"
      PROVE  Gone(TargetOf(q))'
  <2>1. job'[q] = job[q]
    <3>1. Launch(q) => pc'[q] # "done"
      BY DEF Launch, Goto, TypeOK
    <3>2. QED BY <1>3, <3>1, JobStep DEF EndedEphemeral
  <2>2. /\ pc'[q] = "done" /\ outcome'[q] # "refused"
        /\ JailJob(q) /\ job[q].rm
    BY <1>3, <2>1 DEF EndedEphemeral, JailJob, RunJob, StartJob
  <2>3. CASE pc[q] = "done" /\ left[q] = "nothing" /\ outcome[q] # "refused"
    <3>1. outcome[q] \in {"ok", "failed"}
      BY <2>2, <2>3, DoneStays, <1>3 DEF EndedEphemeral
    <3>2. Gone(TargetOf(q))
      BY <2>2, <2>3, <3>1 DEF GoneInv, EndedEphemeral, JailJob, RunJob, StartJob
    <3>3. QED BY <2>2, <2>3, <3>2, NotRecreated DEF Gone
  <2>4. CASE pc[q] = "tdSidecar" /\ left[q] = "nothing" /\ ~SidecarExists(TargetOf(q))'
    <3>1. ~ToolExists(TargetOf(q))'
      BY <2>2, <2>4, NotRecreated DEF GoneInv
    <3>2. QED BY <2>4, <3>1 DEF Gone
  <2>5. QED BY <1>1, <1>3, <2>2, <2>3, <2>4 DEF TeardownMoves
<1>4. QED BY <1>2, <1>3

-----------------------------------------------------------------------------
(***************************************************************************)
(* The safety theorems.                                                    *)
(***************************************************************************)

\* The inductive invariant holds in every reachable state.
THEOREM JailInvariant == Spec => [](TypeOK /\ JailInv)
<1> DEFINE Inv == TypeOK /\ FixCursor /\ JailInv
<1>1. Init => Inv
  <2>1. Init => TypeOK /\ FixCursor
    BY NoJobIsJob, LifecycleAssumption DEF Init, TypeOK, FixCursor, LifecycleAssumption
  <2>2. Init => IdleInv /\ PathInv /\ RunIdInv /\ CreatedInv /\ SeenInv
    BY DEF Init, NoJob, IdleInv, PathInv, RunIdInv, CreatedInv, Reconciled, SeenInv,
           Verified, JailJob, RunJob, StartJob
  <2>3. Init => LauncherInv /\ RemovedInv /\ GoneInv
    BY LifecycleAssumption DEF Init, NoJob, LauncherInv, RemovedInv, GoneInv,
           EndedEphemeral, LifecycleAssumption
  <2>4. QED BY <2>1, <2>2, <2>3 DEF JailInv
<1>2. Inv /\ [Next]_vars => Inv'
  <2> SUFFICES ASSUME Inv, [Next]_vars PROVE Inv'
    OBVIOUS
  <2>1. TypeOK' /\ FixCursor'
    BY TypeStep, CursorStep
  <2>2. IdleInv' /\ PathInv'
    BY IdleStep, PathStep DEF JailInv
  <2>3. RunIdInv' /\ CreatedInv'
    BY RunIdStep, CreatedStep DEF JailInv
  <2>4. SeenInv' /\ LauncherInv'
    BY SeenStep, LauncherStep DEF JailInv
  <2>5. RemovedInv' /\ GoneInv'
    BY RemovedStep, GoneStep DEF JailInv
  <2>6. QED BY <2>1, <2>2, <2>3, <2>4, <2>5 DEF JailInv
<1>3. Inv => TypeOK /\ JailInv
  OBVIOUS
<1>4. QED BY <1>1, <1>2, <1>3, PTL DEF Spec

\* VerifiedJail: from verifyFirewall on, the chains that a run or start has read
\* are complete and nobody reopens them.
THEOREM VerifiedJailHolds == Spec => []VerifiedJail
<1>1. TypeOK /\ JailInv => VerifiedJail
  BY DEF JailInv, SeenInv, VerifiedJail
<1>2. QED BY <1>1, JailInvariant, PTL

\* JailedTool: a tool netcage brought up runs behind the complete firewall for as
\* long as the netns that was verified exists.
THEOREM JailedToolHolds == Spec => []JailedTool
<1>1. TypeOK /\ JailInv => JailedTool
  BY DEF JailInv, SeenInv, LauncherInv, JailedTool, TypeOK
<1>2. QED BY <1>1, JailInvariant, PTL

\* ConfigHonoured: a tool never runs under another configuration than the one
\* given to the command that brought it up.
THEOREM ConfigHonouredHolds == Spec => []ConfigHonoured
<1>1. TypeOK /\ JailInv => ConfigHonoured
  BY DEF JailInv, LauncherInv, ConfigHonoured
<1>2. QED BY <1>1, JailInvariant, PTL

\* KeptPairKept: containers are lost only to a command that says so.
THEOREM KeptPairKeptHolds == Spec => []KeptPairKept
<1>1. TypeOK /\ JailInv => KeptPairKept
  BY DEF JailInv, RemovedInv, Remover, KeptPairKept
<1>2. QED BY <1>1, JailInvariant, PTL

\* EphemeralGone: an ephemeral command that was not refused removes its pair on
\* every way out, unless its Teardown was denied.
THEOREM EphemeralGoneHolds == Spec => []EphemeralGone
<1>1. TypeOK /\ JailInv => EphemeralGone
  BY DEF JailInv, GoneInv, EphemeralGone
<1>2. QED BY <1>1, JailInvariant, PTL

-----------------------------------------------------------------------------
(***************************************************************************)
(* JailLifecycle implements JailPromise: its initial states are those of a *)
(* promise, and every step of a command, of podman, of the user or of the  *)
(* host is a step of the promise or changes nothing of it.                 *)
(***************************************************************************)
HIDE DEF PCs, BeforeJail, Building, TearingDown, Managing, Finished, Seen, AllFix

\* What a step can do to a tool, and to the record of who brought it up.
Entering(r, p) ==
    /\ TargetOf(p) = r /\ pc[p] = "tool" /\ SidecarExists(r)
    /\ tool[r] \in {"absent", "stopped"} /\ tool'[r] = "running"
    /\ launcher'[r] = p

ToolMoves(r) ==
    \/ /\ launcher'[r] = launcher[r]
       /\ \/ tool'[r] = tool[r]
          \/ tool[r] = "running" /\ tool'[r] = "stranded"
          \/ tool[r] \in {"absent", "running", "stranded"} /\ tool'[r] = "stopped"
          \/ tool[r] # "removed" /\ tool'[r] = "removed"
    \/ \E p \in Procs : Entering(r, p)
    \/ /\ SidecarExists(r)
       /\ tool[r] = "stopped" /\ tool'[r] = "running"
       /\ launcher'[r] = User

-----------------------------------------------------------------------------
\* Only RunTool, StartTool and a raw `podman start` bring a tool up, and a run
\* makes its tool once.
LEMMA ToolMovesStep ==
    ASSUME TypeOK, [Next]_vars, PathInv, CreatedInv
    PROVE  \A r \in Runs : ToolMoves(r)
<1> SUFFICES ASSUME NEW s \in Runs PROVE ToolMoves(s)
  OBVIOUS
<1>a. ASSUME UNCHANGED <<tool, launcher>> PROVE ToolMoves(s)
  BY <1>a DEF ToolMoves
<1>1. ASSUME NEW p \in Procs, Launch(p) PROVE ToolMoves(s)
  BY <1>1, <1>a DEF Launch, conts
<1>2. ASSUME NEW p \in Procs, ResolveTool(p) PROVE ToolMoves(s)
  BY <1>2, <1>a DEF ResolveTool, conts
<1>3. ASSUME NEW p \in Procs, FindHelper(p) PROVE ToolMoves(s)
  BY <1>3, <1>a DEF FindHelper, conts
<1>4. ASSUME NEW p \in Procs, Reconcile(p) PROVE ToolMoves(s)
  BY <1>4, <1>a DEF Reconcile, conts
<1>5. ASSUME NEW p \in Procs, CreateSidecar(p) PROVE ToolMoves(s)
  BY <1>5, <1>a DEF CreateSidecar, conts
<1>6. ASSUME NEW p \in Procs, ReviveSidecar(p) PROVE ToolMoves(s)
  BY <1>6, <1>a DEF ReviveSidecar, conts
<1>7. ASSUME NEW p \in Procs, ProbeV4(p) PROVE ToolMoves(s)
  BY <1>7, <1>a DEF ProbeV4, conts
<1>8. ASSUME NEW p \in Procs, ProbeV6(p) PROVE ToolMoves(s)
  BY <1>8, <1>a DEF ProbeV6, conts
<1>9. ASSUME NEW p \in Procs, StartDNS(p) PROVE ToolMoves(s)
  BY <1>9, <1>a DEF StartDNS, conts
<1>10. ASSUME NEW p \in Procs, WriteFix(p) PROVE ToolMoves(s)
  BY <1>10, <1>a DEF WriteFix, conts
<1>11. ASSUME NEW p \in Procs, StatMachineID(p) PROVE ToolMoves(s)
  BY <1>11, <1>a DEF StatMachineID, conts
<1>12. ASSUME NEW p \in Procs, MintMachineID(p) PROVE ToolMoves(s)
  BY <1>12, <1>a DEF MintMachineID, conts
<1>13. ASSUME NEW p \in Procs, OpenReachback(p) PROVE ToolMoves(s)
  BY <1>13, <1>a DEF OpenReachback, conts
<1>14. ASSUME NEW p \in Procs, CloseReachback(p) PROVE ToolMoves(s)
  BY <1>14, <1>a DEF CloseReachback, conts
<1>15. ASSUME NEW p \in Procs, OpenDirect(p) PROVE ToolMoves(s)
  BY <1>15, <1>a DEF OpenDirect, conts
<1>16. ASSUME NEW p \in Procs, CloseDirect(p) PROVE ToolMoves(s)
  BY <1>16, <1>a DEF CloseDirect, conts
<1>17. ASSUME NEW p \in Procs, Detach(p) PROVE ToolMoves(s)
  BY <1>17, <1>a DEF Detach, conts
<1>18. ASSUME NEW p \in Procs, Sweep(p) PROVE ToolMoves(s)
  BY <1>18, <1>a DEF Sweep, conts
<1>19. ASSUME NEW p \in Procs, RemoveSidecar(p) PROVE ToolMoves(s)
  BY <1>19, <1>a DEF RemoveSidecar, conts
<1>20. ASSUME NEW p \in Procs, Guard(p) PROVE ToolMoves(s)
  BY <1>20, <1>a DEF Guard, conts
<1>21. ASSUME NEW p \in Procs, CheckSidecar(p) PROVE ToolMoves(s)
  BY <1>21, <1>a DEF CheckSidecar, conts
<1>22. ASSUME NEW p \in Procs, CheckNamed(p) PROVE ToolMoves(s)
  BY <1>22, <1>a DEF CheckNamed, conts
<1>23. ASSUME NEW p \in Procs, Exec(p) PROVE ToolMoves(s)
  BY <1>23, <1>a DEF Exec, conts
<1>24. ASSUME NEW p \in Procs, ProbeEnds(p) PROVE ToolMoves(s)
  BY <1>24, <1>a DEF ProbeEnds, conts
<1>25. ASSUME NEW p \in Procs, Interrupt(p) PROVE ToolMoves(s)
  BY <1>25, <1>a DEF Interrupt, conts
<1>26. ASSUME NEW p \in Procs, Kill(p) PROVE ToolMoves(s)
  BY <1>26, <1>a DEF Kill, conts
<1>27. ASSUME NEW r \in Runs, ApplyRules(r) PROVE ToolMoves(s)
  BY <1>27, <1>a DEF ApplyRules, conts
<1>28. ASSUME NEW r \in Runs, RuleFails(r) PROVE ToolMoves(s)
  BY <1>28, <1>a DEF RuleFails, conts
<1>29. ASSUME NEW r \in Runs, TempSweep(r) PROVE ToolMoves(s)
  BY <1>29, <1>a DEF TempSweep, conts
<1>30. ASSUME NEW p \in Procs, RunTool(p) PROVE ToolMoves(s)
  <2>1. Called(p) /\ Making(p, TargetOf(p)) /\ TargetOf(p) \in Runs
    BY <1>30, TargetIsRun, CalledStep, MakingStep
  <2>2. tool[TargetOf(p)] = "absent" /\ pc[p] = "tool"
    BY <1>30, <2>1 DEF RunTool, Called, CreatedInv, RunJob, Building
  <2>3. CASE s # TargetOf(p)
    <3>1. tool'[s] = tool[s] /\ launcher'[s] = launcher[s]
      BY <2>1, <2>3 DEF Making, TypeOK
    <3>2. QED BY <3>1 DEF ToolMoves
  <2>4. CASE s = TargetOf(p)
    <3>1. \/ UNCHANGED <<tool, launcher>>
          \/ SidecarExists(s) /\ tool'[s] = "running" /\ launcher'[s] = p
          \/ tool'[s] \in {"removed", "stopped"} /\ UNCHANGED launcher
      BY <2>1, <2>4 DEF Making, Revive, SidecarExists, TypeOK
    <3>2. QED BY <1>a, <2>2, <2>4, <3>1 DEF ToolMoves, Entering
  <2>5. QED BY <2>3, <2>4
<1>31. ASSUME NEW p \in Procs, StartTool(p) PROVE ToolMoves(s)
  <2>1. Called(p) /\ Making(p, TargetOf(p)) /\ TargetOf(p) \in Runs
    BY <1>31, TargetIsRun, CalledStep, MakingStep
  <2>2. pc[p] = "tool" /\ ~RunTool(p)
    BY <1>31, <2>1 DEF Called, StartTool, RunTool
  <2>3. \/ UNCHANGED <<tool, launcher>>
        \/ /\ tool[TargetOf(p)] = "stopped" /\ Revive(TargetOf(p))
           /\ tool' = [tool EXCEPT ![TargetOf(p)] = "running"]
           /\ launcher' = [launcher EXCEPT ![TargetOf(p)] = p]
    BY <2>1, <2>2 DEF Making
  <2>4. QED BY <1>a, <2>1, <2>2, <2>3
        DEF ToolMoves, Entering, Revive, SidecarExists, TypeOK
<1>32. ASSUME NEW p \in Procs, RemoveTool(p) PROVE ToolMoves(s)
  <2>1. Losing(TargetOf(p)) /\ UNCHANGED launcher
    BY <1>32, LosingStep DEF RemoveTool
  <2>2. QED BY <2>1 DEF Losing, Up, ToolExists, ToolAtRest, ToolMoves, TypeOK
<1>33. ASSUME NEW p \in Procs, StopNamed(p) PROVE ToolMoves(s)
  <2>1. \/ UNCHANGED tool
        \/ /\ Up(TargetOf(p))
           /\ tool' = [tool EXCEPT ![TargetOf(p)] = ToolAtRest(TargetOf(p))]
        \/ tool' = [tool EXCEPT ![TargetOf(p)] = IF @ = "running" THEN "stranded" ELSE @]
    BY <1>33 DEF StopNamed, StopSidecar, conts
  <2>2. UNCHANGED launcher
    BY <1>33 DEF StopNamed
  <2>3. QED BY <2>1, <2>2 DEF ToolMoves, Up, ToolAtRest, TypeOK
<1>34. ASSUME NEW p \in Procs, RemovePair(p) PROVE ToolMoves(s)
  <2>1. Losing(TargetOf(p)) /\ UNCHANGED launcher
    BY <1>34, LosingStep DEF RemovePair
  <2>2. QED BY <2>1 DEF Losing, Up, ToolExists, ToolAtRest, ToolMoves, TypeOK
<1>35. ASSUME NEW r \in Runs, ToolExits(r) PROVE ToolMoves(s)
  BY <1>35 DEF ToolExits, ToolAtRest, Up, ToolMoves, TypeOK
<1>36. ASSUME NEW r \in Runs, SidecarDies(r) PROVE ToolMoves(s)
  BY <1>36 DEF SidecarDies, StopSidecar, ToolMoves, TypeOK
<1>37. ASSUME NEW r \in Runs, RawStart(r) PROVE ToolMoves(s)
  BY <1>37 DEF RawStart, Revive, SidecarExists, ToolMoves, TypeOK
<1>38. ASSUME Reboot PROVE ToolMoves(s)
  BY <1>38 DEF Reboot, Up, ToolMoves
<1>39. CASE UNCHANGED vars
  BY <1>39, <1>a DEF vars
<1>40. QED BY <1>1, <1>2, <1>3, <1>4, <1>5, <1>6, <1>7, <1>8, <1>9, <1>10, <1>11,
     <1>12, <1>13, <1>14, <1>15, <1>16, <1>17, <1>18, <1>19, <1>20, <1>21, <1>22,
     <1>23, <1>24, <1>25, <1>26, <1>27, <1>28, <1>29, <1>30, <1>31, <1>32, <1>33,
     <1>34, <1>35, <1>36, <1>37, <1>38, <1>39 DEF Next, Work, BuildStep,
     TeardownStep, ManageStep, Environment

-----------------------------------------------------------------------------
(***************************************************************************)
(* A step of JailLifecycle is a step of the promise, part by part.         *)
(***************************************************************************)

\* A pair is built by its run, with the configuration of the run, and removed
\* only when a command was asked to.
LEMMA PairLifeStep ==
    ASSUME TypeOK, FixCursor, [Next]_vars, PathInv, CreatedInv, RemovedInv, NEW r \in Runs
    PROVE  Promise!PairLife(r)
<1>1. PairMoves(r) /\ TypeOK'
  BY PairStep, TypeStep
<1>2. CASE \E p \in Procs : TargetOf(p) = r /\ CreateSidecar(p)
  <2>1. PICK p \in Procs : TargetOf(p) = r /\ CreateSidecar(p)
    BY <1>2
  <2>2. sidecar[r] = "absent"
    BY <2>1 DEF CreateSidecar, CreatedInv, Goto, Abort, RunJob
  <2>3. \/ sidecar'[r] = "absent" /\ baked'[r] = baked[r]
        \/ sidecar'[r] \in {"running", "stopped"} /\ baked'[r] = job[p].cfg
    BY <2>1, <2>2 DEF CreateSidecar, TypeOK
  <2>4. CASE sidecar'[r] = "absent" /\ baked'[r] = baked[r]
    BY <2>2, <2>4 DEF Promise!PairLife, SidecarExists
  <2>5. CASE sidecar'[r] \in {"running", "stopped"} /\ baked'[r] = job[p].cfg
    <3>1. Promise!Build(r, p)
      BY <2>1, <2>2, <2>5 DEF Promise!Build, SidecarExists
    <3>2. QED BY <3>1 DEF Promise!PairLife
  <2>6. QED BY <2>3, <2>4, <2>5
<1>3. CASE ~\E p \in Procs : TargetOf(p) = r /\ CreateSidecar(p)
  <2>1. baked'[r] = baked[r] /\ (sidecar[r] = "absent" <=> sidecar'[r] = "absent")
    BY <1>1, <1>3 DEF PairMoves
  <2>2. CASE SidecarExists(r) <=> SidecarExists(r)'
    BY <2>1, <2>2 DEF Promise!PairLife, SidecarExists
  <2>3. CASE SidecarExists(r) /\ ~SidecarExists(r)'
    <3>1. sidecar'[r] = "removed"
      BY <1>1, <2>1, <2>3 DEF SidecarExists, TypeOK
    <3>2. \E p \in Procs : TargetOf(p) = r /\ Removes(p)
      BY <1>1, <3>1, RemovingRemoves DEF PairMoves, RemovedInv, Remover
    <3>3. Promise!Remove(r)
      BY <2>1, <2>3, <3>1, <3>2 DEF Promise!Remove, SidecarExists
    <3>4. QED BY <3>3 DEF Promise!PairLife
  <2>4. QED BY <1>1, <2>1, <2>2, <2>3 DEF PairMoves, SidecarExists
<1>4. QED BY <1>2, <1>3

\* A tool is brought up by a command that has read the firewall of its netns and
\* wants the configuration of the pair, or by the user.
LEMMA ToolLifeStep ==
    ASSUME TypeOK, FixCursor, [Next]_vars, JailInv, NEW r \in Runs
    PROVE  Promise!ToolLife(r)
<1> USE DEF JailInv
<1>1. ToolMoves(r) /\ PairMoves(r) /\ TypeOK'
  BY ToolMovesStep, PairStep, TypeStep
<1>2. CASE \E p \in Procs : Entering(r, p)
  <2>1. PICK p \in Procs : Entering(r, p)
    BY <1>2
  <2>2. baked[r] = job[p].cfg /\ seen[p] # "none"
    BY <2>1 DEF Entering, CreatedInv, SeenInv, Building, Verified
  <2>3. seen'[p] = "current" => fw'[r] = Families
    BY <2>1, LauncherStep DEF Entering, LauncherInv
  <2>4. Promise!Enter(r, p)
    BY <2>1, <2>2, <2>3, <1>1
    DEF Promise!Enter, Entering, SidecarExists, Up, TypeOK, Seen
  <2>5. QED BY <2>4 DEF Promise!ToolLife
<1>3. CASE /\ SidecarExists(r) /\ tool[r] = "stopped" /\ tool'[r] = "running"
           /\ launcher'[r] = User
  <2>1. Promise!EnterRaw(r)
    BY <1>3 DEF Promise!EnterRaw, SidecarExists, Up
  <2>2. QED BY <2>1 DEF Promise!ToolLife
<1>4. CASE launcher'[r] = launcher[r] /\ tool[r] # "removed" /\ tool'[r] = "removed"
  <2>1. \E p \in Procs : TargetOf(p) = r /\ Removes(p)
    BY <1>1, <1>4, RemovingRemoves DEF PairMoves, RemovedInv, Remover
  <2>2. Promise!Discard(r)
    BY <1>4, <2>1 DEF Promise!Discard, Up, TypeOK
  <2>3. QED BY <2>2 DEF Promise!ToolLife
<1>5. CASE /\ launcher'[r] = launcher[r]
           /\ tool[r] \in {"absent", "running", "stranded"} /\ tool'[r] = "stopped"
  <2>1. Promise!Rest(r)
    BY <1>5 DEF Promise!Rest, Up
  <2>2. QED BY <2>1 DEF Promise!ToolLife
<1>6. CASE /\ launcher'[r] = launcher[r]
           /\ tool'[r] = tool[r] \/ (tool[r] = "running" /\ tool'[r] = "stranded")
  BY <1>6 DEF Promise!ToolLife, Up
<1>7. QED BY <1>1, <1>2, <1>3, <1>4, <1>5, <1>6 DEF ToolMoves

\* A permit is got by reading a chain of a netns that exists; while that netns
\* does, its seal is not broken.
LEMMA PermitLifeStep ==
    ASSUME TypeOK, FixCursor, [Next]_vars, CreatedInv, SeenInv, NEW p \in Procs
    PROVE  Promise!PermitLife(p)
<1>1. NetnsMoves(p) /\ TypeOK' /\ TargetOf(p) \in Runs
  BY NetnsMovesStep, TypeStep, TargetIsRun
<1>2. CASE seen[p] = "current" /\ seen'[p] = "gone"
  BY <1>2 DEF Promise!PermitLife
<1>3. CASE /\ seen'[p] = seen[p]
           /\ seen[p] = "current" => fw[TargetOf(p)] \subseteq fw'[TargetOf(p)]
  <2>1. fw'[TargetOf(p)] \subseteq Families
    BY <1>1 DEF TypeOK
  <2>2. seen[p] = "current" /\ fw[TargetOf(p)] = Families => fw'[TargetOf(p)] = Families
    BY <1>3, <2>1
  <2>3. QED BY <1>1, <1>3, <2>2 DEF Promise!PermitLife, TypeOK, Seen
<1>4. CASE ProbeV4(p)
  <2>1. UNCHANGED <<fw, sidecar>> /\ UNCHANGED job
    BY <1>4 DEF ProbeV4, conts, netns
  <2>2. \/ seen'[p] = seen[p]
        \/ seen'[p] = "current" /\ sidecar[TargetOf(p)] = "running"
    BY <1>4 DEF ProbeV4, RulesPresent, TypeOK
  <2>3. QED BY <1>1, <2>1, <2>2 DEF Promise!PermitLife, SidecarExists, TypeOK, Seen
<1>5. QED BY <1>1, <1>2, <1>3, <1>4 DEF NetnsMoves

\* What a command is for was settled when it was launched.
LEMMA SettledStep ==
    ASSUME TypeOK, [Next]_vars, IdleInv, NEW p \in Procs
    PROVE  Promise!Settled(p)
<1>1. seen[p] # "none" => job'[p] = job[p]
  BY JobStep DEF IdleInv, Launch, Goto
<1>2. QED BY <1>1 DEF Promise!Settled, TypeOK, Seen

-----------------------------------------------------------------------------
\* PairPromise: run, start, Teardown and the verbs, interleaved step by step with
\* each other, podman, the user and the host, implement the promise of a pair.
THEOREM PairPromiseHolds == Spec => PairPromise
<1> DEFINE Inv == TypeOK /\ FixCursor /\ JailInv
<1>1. Init => Promise!Init
  <2> SUFFICES ASSUME Init PROVE Promise!Init
    OBVIOUS
  <2>1. \A p \in Procs : ~Removes(p)
    BY DEF Init, NoJob, Removes
  <2>2. QED BY <2>1 DEF Init, Promise!Init, SidecarExists, Up
<1>2. Inv /\ [Next]_vars => Promise!Next
  <2> SUFFICES ASSUME Inv, [Next]_vars PROVE Promise!Next
    OBVIOUS
  <2>1. \A r \in Runs : Promise!PairLife(r) /\ Promise!ToolLife(r)
    BY PairLifeStep, ToolLifeStep DEF JailInv
  <2>2. \A p \in Procs : Promise!PermitLife(p) /\ Promise!Settled(p)
    BY PermitLifeStep, SettledStep DEF JailInv
  <2>3. QED BY <2>1, <2>2 DEF Promise!Next
<1>3. Spec => []FixCursor
  <2>1. Init => FixCursor
    BY DEF Init, FixCursor
  <2>2. TypeOK /\ FixCursor /\ [Next]_vars => FixCursor'
    BY CursorStep
  <2>3. QED BY <2>1, <2>2, TypeCorrect, PTL DEF Spec
<1>4. QED BY <1>1, <1>2, <1>3, JailInvariant, PTL DEF Spec, PairPromise, Promise!Spec
=============================================================================
