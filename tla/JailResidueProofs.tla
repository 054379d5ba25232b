------------------------- MODULE JailResidueProofs -------------------------
(***************************************************************************)
(* What JailLifecycle leaves behind: the theorems about the bind-mount     *)
(* files of a pair, its machine id, and `netcage exec`.                    *)
(*                                                                         *)
(* The code keeps these promises of commands that follow one another, and  *)
(* it weakens them when commands overlap (ResidueExplained) or when one of *)
(* them is killed (CrashResidue).  Each theorem names the faults it has to *)
(* exclude, and MaxActive = 1 where one command at a time is meant; the    *)
(* invariants that hold whatever happens come first.                       *)
(***************************************************************************)
EXTENDS JailLifecycleProofs, FiniteSetTheorems

USE DEF TargetOf, AllFix

-----------------------------------------------------------------------------
(***************************************************************************)
(* The files of a run, and the steps that change them.                     *)
(***************************************************************************)
\* The files in the order they are swept; the last one is the machine id.
AllFiles == 1..(NFix + 1)
HasFile(r, f) == IF f \in AllFix THEN f \in fix[r] ELSE mid[r] # 0

\* Where the files are written, and where a command is that has written them.
Writing == {"fix", "midstat", "mid"}
Ready   == {"reach", "probing", "direct", "directProbing", "tool"}

\* The first sidecar steps, and those of the other verbs.
Early == BeforeJail \cup {"sidecar", "v4", "v6"} \cup (Managing \ {"rmPair"})

\* A run or a start has files when it has none missing, and none when none is left.
LEMMA FilesOfRun ==
    ASSUME TypeOK, NEW r \in Runs
    PROVE  NoFiles(r) <=> \A f \in AllFiles : ~HasFile(r, f)
<1>1. NFix \in Nat \ {0}
  BY LifecycleAssumption DEF LifecycleAssumption
<1>2. AllFiles = AllFix \cup {NFix + 1} /\ NFix + 1 \notin AllFix
  BY <1>1 DEF AllFiles, AllFix
<1>3. fix[r] \subseteq AllFix
  BY DEF TypeOK
<1>4. QED BY <1>2, <1>3 DEF NoFiles, HasFile

\* Only these steps touch a file.
FileSteps ==
    \/ UNCHANGED files
    \/ \E p \in Procs : WriteFix(p) \/ MintMachineID(p) \/ Sweep(p)
    \/ \E r \in Runs : TempSweep(r)

LEMMA FileStepsOnly ==
    ASSUME [Next]_vars
    PROVE  FileSteps
<1> USE DEF FileSteps
<1>1. ASSUME NEW p \in Procs, Launch(p) PROVE FileSteps
  BY <1>1 DEF Launch
<1>2. ASSUME NEW p \in Procs, ResolveTool(p) PROVE FileSteps
  BY <1>2 DEF ResolveTool
<1>3. ASSUME NEW p \in Procs, FindHelper(p) PROVE FileSteps
  BY <1>3 DEF FindHelper
<1>4. ASSUME NEW p \in Procs, Reconcile(p) PROVE FileSteps
  BY <1>4 DEF Reconcile
<1>5. ASSUME NEW p \in Procs, CreateSidecar(p) PROVE FileSteps
  BY <1>5 DEF CreateSidecar
<1>6. ASSUME NEW p \in Procs, ReviveSidecar(p) PROVE FileSteps
  BY <1>6 DEF ReviveSidecar
<1>7. ASSUME NEW p \in Procs, ProbeV4(p) PROVE FileSteps
  BY <1>7 DEF ProbeV4
<1>8. ASSUME NEW p \in Procs, ProbeV6(p) PROVE FileSteps
  BY <1>8 DEF ProbeV6
<1>9. ASSUME NEW p \in Procs, StartDNS(p) PROVE FileSteps
  BY <1>9 DEF StartDNS
<1>10. ASSUME NEW p \in Procs, WriteFix(p) PROVE FileSteps
  BY <1>10
<1>11. ASSUME NEW p \in Procs, StatMachineID(p) PROVE FileSteps
  BY <1>11 DEF StatMachineID
<1>12. ASSUME NEW p \in Procs, MintMachineID(p) PROVE FileSteps
  BY <1>12
<1>13. ASSUME NEW p \in Procs, OpenReachback(p) PROVE FileSteps
  BY <1>13 DEF OpenReachback
<1>14. ASSUME NEW p \in Procs, CloseReachback(p) PROVE FileSteps
  BY <1>14 DEF CloseReachback
<1>14a. ASSUME NEW p \in Procs, OpenDirect(p) PROVE FileSteps
  BY <1>14a DEF OpenDirect
<1>14b. ASSUME NEW p \in Procs, CloseDirect(p) PROVE FileSteps
  BY <1>14b DEF CloseDirect
<1>15. ASSUME NEW p \in Procs, RunTool(p) PROVE FileSteps
  BY <1>15 DEF RunTool
<1>16. ASSUME NEW p \in Procs, StartTool(p) PROVE FileSteps
  BY <1>16 DEF StartTool
<1>17. ASSUME NEW p \in Procs, Detach(p) PROVE FileSteps
  BY <1>17 DEF Detach
<1>18. ASSUME NEW p \in Procs, Sweep(p) PROVE FileSteps
  BY <1>18
<1>19. ASSUME NEW p \in Procs, RemoveTool(p) PROVE FileSteps
  BY <1>19 DEF RemoveTool
<1>20. ASSUME NEW p \in Procs, RemoveSidecar(p) PROVE FileSteps
  BY <1>20 DEF RemoveSidecar
<1>21. ASSUME NEW p \in Procs, Guard(p) PROVE FileSteps
  BY <1>21 DEF Guard
<1>22. ASSUME NEW p \in Procs, StopNamed(p) PROVE FileSteps
  BY <1>22 DEF StopNamed
<1>23. ASSUME NEW p \in Procs, RemovePair(p) PROVE FileSteps
  BY <1>23 DEF RemovePair
<1>24. ASSUME NEW p \in Procs, CheckSidecar(p) PROVE FileSteps
  BY <1>24 DEF CheckSidecar
<1>25. ASSUME NEW p \in Procs, CheckNamed(p) PROVE FileSteps
  BY <1>25 DEF CheckNamed
<1>26. ASSUME NEW p \in Procs, Exec(p) PROVE FileSteps
  BY <1>26 DEF Exec
<1>27. ASSUME NEW p \in Procs, ProbeEnds(p) PROVE FileSteps
  BY <1>27 DEF ProbeEnds
<1>28. ASSUME NEW p \in Procs, Interrupt(p) PROVE FileSteps
  BY <1>28 DEF Interrupt
<1>29. ASSUME NEW p \in Procs, Kill(p) PROVE FileSteps
  BY <1>29 DEF Kill
<1>30. ASSUME NEW r \in Runs, ApplyRules(r) PROVE FileSteps
  BY <1>30 DEF ApplyRules
<1>31. ASSUME NEW r \in Runs, RuleFails(r) PROVE FileSteps
  BY <1>31 DEF RuleFails
<1>32. ASSUME NEW r \in Runs, ToolExits(r) PROVE FileSteps
  BY <1>32 DEF ToolExits
<1>33. ASSUME NEW r \in Runs, SidecarDies(r) PROVE FileSteps
  BY <1>33 DEF SidecarDies
<1>34. ASSUME NEW r \in Runs, RawStart(r) PROVE FileSteps
  BY <1>34 DEF RawStart
<1>35. ASSUME NEW r \in Runs, TempSweep(r) PROVE FileSteps
  BY <1>35
<1>36. ASSUME Reboot PROVE FileSteps
  BY <1>36 DEF Reboot
<1>37. CASE UNCHANGED vars
  BY <1>37 DEF vars, files
<1>38. QED BY <1>1, <1>2, <1>3, <1>4, <1>5, <1>6, <1>7, <1>8, <1>9, <1>10, <1>11,
     <1>12, <1>13, <1>14, <1>14a, <1>14b, <1>15, <1>16, <1>17, <1>18, <1>19, <1>20,
     <1>21, <1>22,
     <1>23, <1>24, <1>25, <1>26, <1>27, <1>28, <1>29, <1>30, <1>31, <1>32, <1>33,
     <1>34, <1>35, <1>36, <1>37 DEF Next, Work, BuildStep, TeardownStep, ManageStep,
     Environment

\* A file appears at the hand of a command that writes it, and goes at the hand
\* of one that sweeps, or with the temp directory.
FileMoves(r, f) ==
    /\ HasFile(r, f)' /\ ~HasFile(r, f) =>
           \E p \in Procs : TargetOf(p) = r /\ (WriteFix(p) \/ MintMachineID(p))
    /\ HasFile(r, f) /\ ~HasFile(r, f)' =>
           \/ "sweep" \in Faults
           \/ \E p \in Procs : TargetOf(p) = r /\ Sweep(p)

LEMMA FileMovesStep ==
    ASSUME TypeOK, [Next]_vars
    PROVE  \A r \in Runs, f \in AllFiles : FileMoves(r, f)
<1> SUFFICES ASSUME NEW r \in Runs, NEW f \in AllFiles PROVE FileMoves(r, f)
  OBVIOUS
<1> USE DEF HasFile, FileMoves
<1>1. CASE UNCHANGED files
  BY <1>1 DEF files
<1>2. ASSUME NEW p \in Procs, WriteFix(p) PROVE FileMoves(r, f)
  <2>1. TargetOf(p) \in Runs /\ UNCHANGED mid
    BY <1>2, TargetIsRun DEF WriteFix
  <2>2. \A s \in Runs : /\ fix[s] \subseteq fix'[s]
                        /\ s # TargetOf(p) => fix'[s] = fix[s]
    BY <1>2, <2>1 DEF WriteFix, TypeOK
  <2>3. QED BY <1>2, <2>1, <2>2
<1>3. ASSUME NEW p \in Procs, MintMachineID(p) PROVE FileMoves(r, f)
  <2>1. TargetOf(p) \in Runs /\ UNCHANGED fix
    BY <1>3, TargetIsRun DEF MintMachineID
  <2>2. \A s \in Runs : /\ mid[s] # 0 => mid'[s] # 0
                        /\ s # TargetOf(p) => mid'[s] = mid[s]
    BY <1>3, <2>1 DEF MintMachineID, Mint, TypeOK
  <2>3. QED BY <1>3, <2>1, <2>2
<1>4. ASSUME NEW p \in Procs, Sweep(p) PROVE FileMoves(r, f)
  <2>1. TargetOf(p) \in Runs
    BY TargetIsRun
  <2>2. \A s \in Runs : /\ fix'[s] \subseteq fix[s]
                        /\ mid'[s] # 0 => mid[s] # 0
                        /\ s # TargetOf(p) => fix'[s] = fix[s] /\ mid'[s] = mid[s]
    BY <1>4, <2>1 DEF Sweep, TypeOK
  <2>3. QED BY <1>4, <2>2
<1>5. ASSUME NEW s \in Runs, TempSweep(s) PROVE FileMoves(r, f)
  <2>1. "sweep" \in Faults
    BY <1>5 DEF TempSweep
  <2>2. fix'[r] \subseteq fix[r] /\ (mid'[r] # 0 => mid[r] # 0)
    BY <1>5 DEF TempSweep, TypeOK
  <2>3. QED BY <2>1, <2>2
<1>6. QED BY <1>1, <1>2, <1>3, <1>4, <1>5, FileStepsOnly DEF FileSteps

-----------------------------------------------------------------------------
(***************************************************************************)
(* The steps of a command, as far as the files are concerned.              *)
(***************************************************************************)
\* A process that does not move keeps its place, its cursor and its outcome.
Stays(q) == pc'[q] = pc[q] /\ at'[q] = at[q] /\ outcome'[q] = outcome[q]

\* Before the files are written, and in the verbs that do not write any.
EarlyMoves(q) ==
    /\ pc[q] \in Early /\ at'[q] = at[q]
    /\ pc'[q] \in Early \cup {"rmPair", "dns", "sweep", "done"}
    /\ pc'[q] = "sweep" => pc[q] \in {"sidecar", "v4", "v6"}
    /\ pc[q] \in {"sidecar", "v4", "v6"} => /\ pc'[q] \in Building \cup {"sweep", "done"}
                                          /\ outcome'[q] \in {outcome[q], "failed"}
    /\ pc'[q] = "xNamed" => sidecar[TargetOf(q)] = "running" /\ UNCHANGED sidecar
    /\ pc'[q] = "xRun" => pc[q] = "xNamed" /\ UNCHANGED sidecar

\* From the files to the tool: on to the next step, or out.
ReadyMoves(q) ==
    /\ pc[q] \in Ready /\ at'[q] = at[q]
    /\ \/ pc'[q] \in Ready /\ outcome'[q] = outcome[q]
       \/ /\ pc'[q] = "attached" /\ outcome'[q] = outcome[q]
          /\ SidecarExists(TargetOf(q)) \/ ToolExists(TargetOf(q))
       \/ pc'[q] \in {"sweep", "done"} /\ outcome'[q] \in {"failed", "ok"}

KilledNow(q) ==
    /\ {"crash", "reboot"} \cap Faults # {}
    /\ Active(q) /\ pc'[q] = "killed"
    /\ at'[q] = at[q] /\ outcome'[q] = outcome[q]

StageMoves(q) ==
    \/ Stays(q) \/ KilledNow(q) \/ Launch(q)
    \/ EarlyMoves(q) \/ ReadyMoves(q)
    \/ StartDNS(q) \/ WriteFix(q) \/ StatMachineID(q) \/ MintMachineID(q)
    \/ Detach(q) \/ Sweep(q) \/ RemoveTool(q) \/ RemoveSidecar(q) \/ RemovePair(q)

\* Every step of a process is one of these.
LEMMA StageStep ==
    ASSUME TypeOK, [Next]_vars
    PROVE  \A q \in Procs : StageMoves(q)
<1> SUFFICES ASSUME NEW q \in Procs PROVE StageMoves(q)
  OBVIOUS
<1> USE DEF StageMoves, TypeOK, Families, PCs, BeforeJail, Building, TearingDown,
    Managing, Finished
<1>a. ASSUME NEW p \in Procs, RunTool(p) \/ StartTool(p) PROVE StageMoves(q)
  <2>1. Called(p)
    BY <1>a, CalledStep
  <2>2. CASE q = p
    <3>1. pc'[p] = "attached" => SidecarExists(TargetOf(p)) \/ ToolExists(TargetOf(p))
      BY <1>a, <2>1 DEF RunTool, StartTool, ComesUp, ToolCallErrs, ToTeardown, Revive,
                        SidecarExists, ToolExists, Up, Goto
    <3>2. QED BY <2>1, <2>2, <3>1 DEF Called, ReadyMoves, Ready, ToTeardown
  <2>3. CASE q # p
    BY <2>1, <2>3 DEF Called, Stays
  <2>4. QED BY <2>2, <2>3
<1>1. ASSUME NEW p \in Procs, Launch(p) PROVE StageMoves(q)
  <2>1. CASE q = p
    BY <1>1, <2>1
  <2>2. CASE q # p
    BY <1>1, <2>2 DEF Launch, Stays, ends, Goto
  <2>3. QED BY <2>1, <2>2
<1>2. ASSUME NEW p \in Procs, ResolveTool(p) PROVE StageMoves(q)
  <2>1. CASE q = p
    BY <1>2, <2>1 DEF ResolveTool, EarlyMoves, Early, Refuse, Goto
  <2>2. CASE q # p
    BY <1>2, <2>2 DEF ResolveTool, Stays, Refuse, Goto, End
  <2>3. QED BY <2>1, <2>2
<1>3. ASSUME NEW p \in Procs, FindHelper(p) PROVE StageMoves(q)
  <2>1. CASE q = p
    BY <1>3, <2>1 DEF FindHelper, EarlyMoves, Early, Refuse, Goto
  <2>2. CASE q # p
    BY <1>3, <2>2 DEF FindHelper, Stays, Refuse, Goto, End
  <2>3. QED BY <2>1, <2>2
<1>4. ASSUME NEW p \in Procs, Reconcile(p) PROVE StageMoves(q)
  <2>1. CASE q = p
    BY <1>4, <2>1 DEF Reconcile, EarlyMoves, Early, Refuse, Goto
  <2>2. CASE q # p
    BY <1>4, <2>2 DEF Reconcile, Stays, Refuse, Goto, End
  <2>3. QED BY <2>1, <2>2
<1>5. ASSUME NEW p \in Procs, CreateSidecar(p) PROVE StageMoves(q)
  <2>1. CASE q = p
    BY <1>5, <2>1 DEF CreateSidecar, EarlyMoves, Early, Abort, ToTeardown, Goto, End
  <2>2. CASE q # p
    BY <1>5, <2>2 DEF CreateSidecar, Stays, Abort, ToTeardown, Goto, End
  <2>3. QED BY <2>1, <2>2
<1>6. ASSUME NEW p \in Procs, ReviveSidecar(p) PROVE StageMoves(q)
  <2>1. CASE q = p
    BY <1>6, <2>1 DEF ReviveSidecar, EarlyMoves, Early, Abort, ToTeardown, AfterRevive, Goto, End
  <2>2. CASE q # p
    BY <1>6, <2>2 DEF ReviveSidecar, Stays, Abort, ToTeardown, AfterRevive, Goto, End
  <2>3. QED BY <2>1, <2>2
<1>7. ASSUME NEW p \in Procs, ProbeV4(p) PROVE StageMoves(q)
  <2>1. CASE q = p
    BY <1>7, <2>1 DEF ProbeV4, EarlyMoves, Early, Abort, ToTeardown, Goto, End
  <2>2. CASE q # p
    BY <1>7, <2>2 DEF ProbeV4, Stays, Abort, ToTeardown, Goto, End
  <2>3. QED BY <2>1, <2>2
<1>8. ASSUME NEW p \in Procs, ProbeV6(p) PROVE StageMoves(q)
  <2>1. CASE q = p
    BY <1>8, <2>1 DEF ProbeV6, EarlyMoves, Early, Abort, ToTeardown, Goto, End
  <2>2. CASE q # p
    BY <1>8, <2>2 DEF ProbeV6, Stays, Abort, ToTeardown, Goto, End
  <2>3. QED BY <2>1, <2>2
<1>9. ASSUME NEW p \in Procs, StartDNS(p) PROVE StageMoves(q)
  <2>1. CASE q = p
    BY <1>9, <2>1
  <2>2. CASE q # p
    BY <1>9, <2>2 DEF StartDNS, Stays, Abort, Goto, End
  <2>3. QED BY <2>1, <2>2
<1>10. ASSUME NEW p \in Procs, WriteFix(p) PROVE StageMoves(q)
  <2>1. CASE q = p
    BY <1>10, <2>1
  <2>2. CASE q # p
    BY <1>10, <2>2 DEF WriteFix, Stays, Abort, Goto, End
  <2>3. QED BY <2>1, <2>2
<1>11. ASSUME NEW p \in Procs, StatMachineID(p) PROVE StageMoves(q)
  <2>1. CASE q = p
    BY <1>11, <2>1
  <2>2. CASE q # p
    BY <1>11, <2>2 DEF StatMachineID, Stays, Abort, Goto, End
  <2>3. QED BY <2>1, <2>2
<1>12. ASSUME NEW p \in Procs, MintMachineID(p) PROVE StageMoves(q)
  <2>1. CASE q = p
    BY <1>12, <2>1
  <2>2. CASE q # p
    BY <1>12, <2>2 DEF MintMachineID, Stays, Abort, Goto, End
  <2>3. QED BY <2>1, <2>2
<1>13. ASSUME NEW p \in Procs, OpenReachback(p) PROVE StageMoves(q)
  <2>1. CASE q = p
    BY <1>13, <2>1 DEF OpenReachback, ReadyMoves, Ready, Abort, ToTeardown, Goto, End
  <2>2. CASE q # p
    BY <1>13, <2>2 DEF OpenReachback, Stays, Abort, ToTeardown, Goto, End
  <2>3. QED BY <2>1, <2>2
<1>14. ASSUME NEW p \in Procs, CloseReachback(p) PROVE StageMoves(q)
  <2>1. CASE q = p
    BY <1>14, <2>1 DEF CloseReachback, ReadyMoves, Ready, Abort, ToTeardown, AfterReach, Goto, End
  <2>2. CASE q # p
    BY <1>14, <2>2 DEF CloseReachback, Stays, Abort, ToTeardown, AfterReach, Goto, End
  <2>3. QED BY <2>1, <2>2
<1>14a. ASSUME NEW p \in Procs, OpenDirect(p) PROVE StageMoves(q)
  <2>1. CASE q = p
    BY <1>14a, <2>1 DEF OpenDirect, ReadyMoves, Ready, ends, Goto, End
  <2>2. CASE q # p
    BY <1>14a, <2>2 DEF OpenDirect, Stays, ends, Goto, End
  <2>3. QED BY <2>1, <2>2
<1>14b. ASSUME NEW p \in Procs, CloseDirect(p) PROVE StageMoves(q)
  <2>1. CASE q = p
    BY <1>14b, <2>1 DEF CloseDirect, ReadyMoves, Ready, ends, Goto, End
  <2>2. CASE q # p
    BY <1>14b, <2>2 DEF CloseDirect, Stays, ends, Goto, End
  <2>3. QED BY <2>1, <2>2
<1>15. ASSUME NEW p \in Procs, RunTool(p) PROVE StageMoves(q)
  BY <1>15, <1>a
<1>16. ASSUME NEW p \in Procs, StartTool(p) PROVE StageMoves(q)
  BY <1>16, <1>a
<1>17. ASSUME NEW p \in Procs, Detach(p) PROVE StageMoves(q)
  <2>1. CASE q = p
    BY <1>17, <2>1
  <2>2. CASE q # p
    BY <1>17, <2>2 DEF Detach, Stays, Goto, End
  <2>3. QED BY <2>1, <2>2
<1>18. ASSUME NEW p \in Procs, Sweep(p) PROVE StageMoves(q)
  <2>1. CASE q = p
    BY <1>18, <2>1
  <2>2. CASE q # p
    BY <1>18, <2>2 DEF Sweep, Stays, ends, Goto, End
  <2>3. QED BY <2>1, <2>2
<1>19. ASSUME NEW p \in Procs, RemoveTool(p) PROVE StageMoves(q)
  <2>1. CASE q = p
    BY <1>19, <2>1
  <2>2. CASE q # p
    BY <1>19, <2>2 DEF RemoveTool, Stays, Goto, End
  <2>3. QED BY <2>1, <2>2
<1>20. ASSUME NEW p \in Procs, RemoveSidecar(p) PROVE StageMoves(q)
  <2>1. CASE q = p
    BY <1>20, <2>1
  <2>2. CASE q # p
    BY <1>20, <2>2 DEF RemoveSidecar, Stays, Goto, End
  <2>3. QED BY <2>1, <2>2
<1>21. ASSUME NEW p \in Procs, Guard(p) PROVE StageMoves(q)
  <2>1. CASE q = p
    BY <1>21, <2>1 DEF Guard, EarlyMoves, Early, Refuse, Goto
  <2>2. CASE q # p
    BY <1>21, <2>2 DEF Guard, Stays, Refuse, Goto, End
  <2>3. QED BY <2>1, <2>2
<1>22. ASSUME NEW p \in Procs, StopNamed(p) PROVE StageMoves(q)
  <2>1. CASE q = p
    BY <1>22, <2>1 DEF StopNamed, EarlyMoves, Early, Goto
  <2>2. CASE q # p
    BY <1>22, <2>2 DEF StopNamed, Stays, Goto, End
  <2>3. QED BY <2>1, <2>2
<1>23. ASSUME NEW p \in Procs, RemovePair(p) PROVE StageMoves(q)
  <2>1. CASE q = p
    BY <1>23, <2>1
  <2>2. CASE q # p
    BY <1>23, <2>2 DEF RemovePair, Stays, Goto, End
  <2>3. QED BY <2>1, <2>2
<1>24. ASSUME NEW p \in Procs, CheckSidecar(p) PROVE StageMoves(q)
  <2>1. CASE q = p
    BY <1>24, <2>1 DEF CheckSidecar, EarlyMoves, Early, Refuse, JailUp, conts, Goto
  <2>2. CASE q # p
    BY <1>24, <2>2 DEF CheckSidecar, Stays, Refuse, JailUp, conts, Goto, End
  <2>3. QED BY <2>1, <2>2
<1>25. ASSUME NEW p \in Procs, CheckNamed(p) PROVE StageMoves(q)
  <2>1. CASE q = p
    BY <1>25, <2>1 DEF CheckNamed, EarlyMoves, Early, Refuse, conts, Goto
  <2>2. CASE q # p
    BY <1>25, <2>2 DEF CheckNamed, Stays, Refuse, conts, Goto, End
  <2>3. QED BY <2>1, <2>2
<1>26. ASSUME NEW p \in Procs, Exec(p) PROVE StageMoves(q)
  <2>1. CASE q = p
    BY <1>26, <2>1 DEF Exec, EarlyMoves, Early, Goto
  <2>2. CASE q # p
    BY <1>26, <2>2 DEF Exec, Stays, Goto, End
  <2>3. QED BY <2>1, <2>2
<1>27. ASSUME NEW p \in Procs, ProbeEnds(p) PROVE StageMoves(q)
  BY <1>27 DEF ProbeEnds, Stays, ends
<1>28. ASSUME NEW p \in Procs, Interrupt(p) PROVE StageMoves(q)
  BY <1>28 DEF Interrupt, Stays, ends
<1>29. ASSUME NEW p \in Procs, Kill(p) PROVE StageMoves(q)
  <2>1. CASE q = p
    BY <1>29, <2>1 DEF Kill, KilledNow, ends
  <2>2. CASE q # p
    BY <1>29, <2>2 DEF Kill, Stays, ends
  <2>3. QED BY <2>1, <2>2
<1>30. ASSUME NEW r \in Runs, ApplyRules(r) PROVE StageMoves(q)
  BY <1>30 DEF ApplyRules, Stays, ends
<1>31. ASSUME NEW r \in Runs, RuleFails(r) PROVE StageMoves(q)
  BY <1>31 DEF RuleFails, Stays, ends
<1>32. ASSUME NEW r \in Runs, ToolExits(r) PROVE StageMoves(q)
  BY <1>32 DEF ToolExits, Stays, ends
<1>33. ASSUME NEW r \in Runs, SidecarDies(r) PROVE StageMoves(q)
  BY <1>33 DEF SidecarDies, Stays, ends
<1>34. ASSUME NEW r \in Runs, RawStart(r) PROVE StageMoves(q)
  BY <1>34 DEF RawStart, Stays, ends
<1>35. ASSUME NEW r \in Runs, TempSweep(r) PROVE StageMoves(q)
  BY <1>35 DEF TempSweep, Stays, ends
<1>36. ASSUME Reboot PROVE StageMoves(q)
  <2>1. CASE Active(q)
    BY <1>36, <2>1 DEF Reboot, KilledNow, ends
  <2>2. CASE ~Active(q)
    BY <1>36, <2>2 DEF Reboot, Stays, ends
  <2>3. QED BY <2>1, <2>2
<1>37. CASE UNCHANGED vars
  BY <1>37 DEF vars, Stays
<1>38. QED BY <1>1, <1>2, <1>3, <1>4, <1>5, <1>6, <1>7, <1>8, <1>9, <1>10, <1>11,
     <1>12, <1>13, <1>14, <1>14a, <1>14b, <1>15, <1>16, <1>17, <1>18, <1>19, <1>20,
     <1>21, <1>22,
     <1>23, <1>24, <1>25, <1>26, <1>27, <1>28, <1>29, <1>30, <1>31, <1>32, <1>33,
     <1>34, <1>35, <1>36, <1>37 DEF Next, Work, BuildStep, TeardownStep, ManageStep,
     Environment

-----------------------------------------------------------------------------
(***************************************************************************)
(* A tool container never outlives its sidecar.                            *)
(***************************************************************************)
\* A sidecar is removed by a Teardown or by an `rm`, and then no tool is left.
LossMoves(r) ==
    SidecarExists(r) /\ ~SidecarExists(r)' =>
        /\ ~ToolExists(r)'
        /\ \E p \in Procs : /\ TargetOf(p) = r
                            /\ RemoveSidecar(p) \/ RemovePair(p)

LEMMA LossStep ==
    ASSUME TypeOK, [Next]_vars
    PROVE  \A r \in Runs : LossMoves(r)
<1> SUFFICES ASSUME NEW s \in Runs PROVE LossMoves(s)
  OBVIOUS
<1>a. ASSUME UNCHANGED sidecar PROVE LossMoves(s)
  BY <1>a DEF LossMoves, SidecarExists
<1>b. ASSUME \A r \in Runs : sidecar'[r] \in {sidecar[r], "stopped", "running"}
      PROVE  LossMoves(s)
  BY <1>b DEF LossMoves, SidecarExists
<1>1. ASSUME NEW p \in Procs, Launch(p) PROVE LossMoves(s)
  BY <1>1, <1>a DEF Launch, conts
<1>2. ASSUME NEW p \in Procs, ResolveTool(p) PROVE LossMoves(s)
  BY <1>2, <1>a DEF ResolveTool, conts
<1>3. ASSUME NEW p \in Procs, FindHelper(p) PROVE LossMoves(s)
  BY <1>3, <1>a DEF FindHelper, conts
<1>4. ASSUME NEW p \in Procs, Reconcile(p) PROVE LossMoves(s)
  BY <1>4, <1>a DEF Reconcile, conts
<1>5. ASSUME NEW p \in Procs, CreateSidecar(p) PROVE LossMoves(s)
  BY <1>5, <1>a, <1>b, TargetIsRun DEF CreateSidecar, Revive, TypeOK, conts
<1>6. ASSUME NEW p \in Procs, ReviveSidecar(p) PROVE LossMoves(s)
  BY <1>6, <1>a, <1>b, TargetIsRun DEF ReviveSidecar, Revive, TypeOK, conts
<1>7. ASSUME NEW p \in Procs, ProbeV4(p) PROVE LossMoves(s)
  BY <1>7, <1>a DEF ProbeV4, conts
<1>8. ASSUME NEW p \in Procs, ProbeV6(p) PROVE LossMoves(s)
  BY <1>8, <1>a DEF ProbeV6, conts
<1>9. ASSUME NEW p \in Procs, StartDNS(p) PROVE LossMoves(s)
  BY <1>9, <1>a DEF StartDNS, conts
<1>10. ASSUME NEW p \in Procs, WriteFix(p) PROVE LossMoves(s)
  BY <1>10, <1>a DEF WriteFix, conts
<1>11. ASSUME NEW p \in Procs, StatMachineID(p) PROVE LossMoves(s)
  BY <1>11, <1>a DEF StatMachineID, conts
<1>12. ASSUME NEW p \in Procs, MintMachineID(p) PROVE LossMoves(s)
  BY <1>12, <1>a DEF MintMachineID, conts
<1>13. ASSUME NEW p \in Procs, OpenReachback(p) PROVE LossMoves(s)
  BY <1>13, <1>a, <1>b, TargetIsRun DEF OpenReachback, Revive, TypeOK, conts
<1>14. ASSUME NEW p \in Procs, CloseReachback(p) PROVE LossMoves(s)
  BY <1>14, <1>a DEF CloseReachback, conts
<1>14a. ASSUME NEW p \in Procs, OpenDirect(p) PROVE LossMoves(s)
  BY <1>14a, <1>a, <1>b, TargetIsRun DEF OpenDirect, Revive, TypeOK, conts
<1>14b. ASSUME NEW p \in Procs, CloseDirect(p) PROVE LossMoves(s)
  BY <1>14b, <1>a DEF CloseDirect, conts
<1>15. ASSUME NEW p \in Procs, RunTool(p) PROVE LossMoves(s)
  BY <1>15, <1>a, <1>b, MakingStep, TargetIsRun DEF Making, Revive, TypeOK
<1>16. ASSUME NEW p \in Procs, StartTool(p) PROVE LossMoves(s)
  BY <1>16, <1>a, <1>b, MakingStep, TargetIsRun DEF Making, Revive, TypeOK
<1>17. ASSUME NEW p \in Procs, Detach(p) PROVE LossMoves(s)
  BY <1>17, <1>a DEF Detach, conts
<1>18. ASSUME NEW p \in Procs, Sweep(p) PROVE LossMoves(s)
  BY <1>18, <1>a DEF Sweep, conts
<1>19. ASSUME NEW p \in Procs, RemoveTool(p) PROVE LossMoves(s)
  BY <1>19, <1>a DEF RemoveTool, conts
<1>20. ASSUME NEW p \in Procs, RemoveSidecar(p) PROVE LossMoves(s)
  <2>1. TargetOf(p) \in Runs /\ UNCHANGED <<tool, job>>
    BY <1>20, TargetIsRun DEF RemoveSidecar
  <2>2. s # TargetOf(p) => sidecar'[s] = sidecar[s]
    BY <1>20, <2>1, LosingStep DEF Losing, TypeOK
  <2>3. UNCHANGED sidecar \/ ~ToolExists(TargetOf(p))
    BY <1>20 DEF RemoveSidecar, HasDependents
  <2>4. QED BY <1>20, <1>a, <2>1, <2>2, <2>3 DEF LossMoves, SidecarExists, ToolExists, Up
<1>21. ASSUME NEW p \in Procs, Guard(p) PROVE LossMoves(s)
  BY <1>21, <1>a DEF Guard, conts
<1>22. ASSUME NEW p \in Procs, StopNamed(p) PROVE LossMoves(s)
  BY <1>22, <1>a, <1>b, TargetIsRun DEF StopNamed, StopSidecar, TypeOK, conts
<1>23. ASSUME NEW p \in Procs, RemovePair(p) PROVE LossMoves(s)
  <2>1. TargetOf(p) \in Runs /\ UNCHANGED job
    BY <1>23, TargetIsRun DEF RemovePair
  <2>2. s # TargetOf(p) => sidecar'[s] = sidecar[s]
    BY <1>23, <2>1, LosingStep DEF Losing, TypeOK
  <2>3. CASE UNCHANGED sidecar
    BY <1>a, <2>3
  <2>4. CASE ToolRemoved(TargetOf(p))
    <3>1. ~ToolExists(TargetOf(p))'
      BY <2>1, <2>4 DEF ToolRemoved, ToolExists, Up, TypeOK
    <3>2. QED BY <1>23, <2>1, <2>2, <3>1 DEF LossMoves, SidecarExists
  <2>5. QED BY <1>23, <2>3, <2>4 DEF RemovePair, PairRemoved, PairPartly, DependentsRemoved, conts
<1>24. ASSUME NEW p \in Procs, CheckSidecar(p) PROVE LossMoves(s)
  BY <1>24, <1>a DEF CheckSidecar, conts
<1>25. ASSUME NEW p \in Procs, CheckNamed(p) PROVE LossMoves(s)
  BY <1>25, <1>a DEF CheckNamed, conts
<1>26. ASSUME NEW p \in Procs, Exec(p) PROVE LossMoves(s)
  BY <1>26, <1>a DEF Exec, conts
<1>27. ASSUME NEW p \in Procs, ProbeEnds(p) PROVE LossMoves(s)
  BY <1>27, <1>a DEF ProbeEnds, conts
<1>28. ASSUME NEW p \in Procs, Interrupt(p) PROVE LossMoves(s)
  BY <1>28, <1>a DEF Interrupt, conts
<1>29. ASSUME NEW p \in Procs, Kill(p) PROVE LossMoves(s)
  BY <1>29, <1>a DEF Kill, conts
<1>30. ASSUME NEW r \in Runs, ApplyRules(r) PROVE LossMoves(s)
  BY <1>30, <1>a DEF ApplyRules, conts
<1>31. ASSUME NEW r \in Runs, RuleFails(r) PROVE LossMoves(s)
  BY <1>31, <1>a DEF RuleFails, conts
<1>32. ASSUME NEW r \in Runs, ToolExits(r) PROVE LossMoves(s)
  BY <1>32, <1>a DEF ToolExits, conts
<1>33. ASSUME NEW r \in Runs, SidecarDies(r) PROVE LossMoves(s)
  BY <1>33, <1>a, <1>b, TargetIsRun DEF SidecarDies, StopSidecar, TypeOK, conts
<1>34. ASSUME NEW r \in Runs, RawStart(r) PROVE LossMoves(s)
  BY <1>34, <1>b DEF RawStart, Revive, TypeOK
<1>35. ASSUME NEW r \in Runs, TempSweep(r) PROVE LossMoves(s)
  BY <1>35, <1>a DEF TempSweep, conts
<1>36. ASSUME Reboot PROVE LossMoves(s)
  BY <1>36, <1>b DEF Reboot, TypeOK
<1>37. CASE UNCHANGED vars
  BY <1>37, <1>a DEF vars
<1>38. QED BY <1>1, <1>2, <1>3, <1>4, <1>5, <1>6, <1>7, <1>8, <1>9, <1>10, <1>11,
     <1>12, <1>13, <1>14, <1>14a, <1>14b, <1>15, <1>16, <1>17, <1>18, <1>19, <1>20,
     <1>21, <1>22,
     <1>23, <1>24, <1>25, <1>26, <1>27, <1>28, <1>29, <1>30, <1>31, <1>32, <1>33,
     <1>34, <1>35, <1>36, <1>37 DEF Next, Work, BuildStep, TeardownStep, ManageStep,
     Environment

\* Every tool container has its sidecar: podman removes a sidecar only without
\* its dependents or together with them.
PairWhole == \A r \in Runs : ToolExists(r) => SidecarExists(r)

LEMMA PairWholeStep ==
    ASSUME TypeOK, [Next]_vars, CreatedInv, PairWhole
    PROVE  PairWhole'
<1> SUFFICES ASSUME NEW r \in Runs, ToolExists(r)' PROVE SidecarExists(r)'
  BY DEF PairWhole
<1>1. LossMoves(r) /\ PairMoves(r)
  BY LossStep, PairStep
<1>2. CASE SidecarExists(r)
  BY <1>1, <1>2 DEF LossMoves
<1>3. CASE ~SidecarExists(r)
  <2>1. ~ToolExists(r)
    BY <1>3 DEF PairWhole
  <2>2. PICK p \in Procs : TargetOf(p) = r /\ RunTool(p)
    BY <1>1, <2>1 DEF PairMoves, ToolExists, Up
  <2>3. SidecarExists(r) \/ UNCHANGED tool
    BY <2>2, MakingStep DEF Making, Revive, SidecarExists
  <2>4. QED BY <1>3, <2>1, <2>3 DEF ToolExists, Up
<1>4. QED BY <1>2, <1>3

-----------------------------------------------------------------------------
(***************************************************************************)
(* What holds of the files whatever goes wrong, and however many commands  *)
(* are in progress.                                                        *)
(***************************************************************************)
\* Nobody enters a write or a sweep of the files but at the first one.
CursorAtStart == \A p \in Procs :
    pc[p] \notin {"fix", "sweep", "killed"} => at[p] = 1

\* A bind-mount file is written for a sidecar that was created.
FilesNeedSidecar == \A r \in Runs, f \in AllFiles :
    HasFile(r, f) => sidecar[r] # "absent"

\* An `rm` sweeps the files only after podman has removed the pair.
RmSweeps == \A p \in Procs :
    pc[p] = "sweep" /\ job[p].verb = "rm"
        => sidecar[TargetOf(p)] = "removed" /\ outcome[p] = "ok"

FilesInv == FixCursor /\ PairWhole /\ CursorAtStart /\ FilesNeedSidecar /\ RmSweeps

\* The number of files, as the arithmetic needs it.
LEMMA FileCount ==
    /\ NFix \in Nat \ {0}
    /\ LastFile = NFix + 1
    /\ \A n \in AllFiles : /\ n < NFix => NextFile(n, NFix) = n + 1
                           /\ ~(n < NFix) => NextFile(n, NFix) = 1
                           /\ n < LastFile => NextFile(n, LastFile) = n + 1
                           /\ ~(n < LastFile) => NextFile(n, LastFile) = 1 /\ n = NFix + 1
BY LifecycleAssumption DEF LifecycleAssumption, LastFile, NextFile, AllFiles

\* The cursor of a process is one of the files.
LEMMA CursorIsFile ==
    ASSUME TypeOK, NEW p \in Procs
    PROVE  at[p] \in AllFiles
BY DEF TypeOK, AllFiles

\* A launched command is at its first step.
LEMMA LaunchDoes ==
    ASSUME TypeOK, NEW q \in Procs, Launch(q)
    PROVE  /\ pc[q] = "idle" /\ pc'[q] \in {"helper", "resolve", "guard"}
           /\ \A p \in Procs \ {q} : pc'[p] = pc[p] /\ job'[p] = job[p]
           /\ UNCHANGED <<conts, files, at, ends>>
BY DEF Launch, Goto, TypeOK

\* Every other step leaves the command lines alone.
LEMMA JobStays ==
    ASSUME TypeOK, [Next]_vars, NEW q \in Procs, ~Launch(q)
    PROVE  job'[q] = job[q] /\ TargetOf(q)' = TargetOf(q)
BY JobStep

\* What WriteFix does: it writes the next file, or gives up.
LEMMA WriteFixDoes ==
    ASSUME TypeOK, NEW q \in Procs, WriteFix(q)
    PROVE  /\ pc[q] = "fix" /\ UNCHANGED <<mid, job>>
           /\ \/ /\ pc'[q] = "fix" /\ at[q] < NFix /\ at'[q] = at[q] + 1
                 /\ fix'[TargetOf(q)] = fix[TargetOf(q)] \cup {at[q]}
                 /\ outcome'[q] = outcome[q]
              \/ /\ pc'[q] = IF RunJob(q) THEN "mid" ELSE "midstat"
                 /\ ~(at[q] < NFix) /\ at'[q] = 1
                 /\ fix'[TargetOf(q)] = fix[TargetOf(q)] \cup {at[q]}
                 /\ outcome'[q] = outcome[q]
              \/ /\ pc'[q] = ToTeardown(q) /\ at'[q] = 1 /\ outcome'[q] = "failed"
<1>1. at[q] \in AllFiles /\ TargetOf(q) \in Runs
  BY CursorIsFile, TargetIsRun
<1>2. pc[q] = "fix" /\ UNCHANGED <<mid, job>>
  BY DEF WriteFix, Goto, Abort
<1>3. CASE /\ fix' = [fix EXCEPT ![TargetOf(q)] = @ \cup {at[q]}]
           /\ at' = [at EXCEPT ![q] = NextFile(@, NFix)]
           /\ Goto(q, "fix", IF at[q] < NFix THEN "fix"
                             ELSE IF job[q].verb = "run" THEN "mid" ELSE "midstat")
           /\ UNCHANGED outcome
  <2>1. at'[q] = NextFile(at[q], NFix) /\ fix'[TargetOf(q)] = fix[TargetOf(q)] \cup {at[q]}
    BY <1>1, <1>3 DEF TypeOK
  <2>2. pc'[q] = IF at[q] < NFix THEN "fix"
                 ELSE IF job[q].verb = "run" THEN "mid" ELSE "midstat"
    BY <1>3 DEF Goto, TypeOK
  <2>3. CASE at[q] < NFix
    BY <1>1, <1>2, <1>3, <2>1, <2>2, <2>3, FileCount
  <2>4. CASE ~(at[q] < NFix)
    BY <1>1, <1>2, <1>3, <2>1, <2>2, <2>4, FileCount DEF RunJob
  <2>5. QED BY <2>3, <2>4
<1>4. CASE Abort(q, "fix") /\ at' = [at EXCEPT ![q] = 1]
  BY <1>2, <1>4 DEF Abort, Goto, End, TypeOK
<1>5. QED BY <1>3, <1>4 DEF WriteFix

\* What Sweep does: it removes one file, or leaves it with a warning.
LEMMA SweepDoes ==
    ASSUME TypeOK, NEW q \in Procs, Sweep(q)
    PROVE  /\ pc[q] = "sweep" /\ UNCHANGED <<job, sidecar, tool, left>>
           /\ outcome'[q] = outcome[q]
           /\ "unlink" \notin Faults => \A f : f = at[q] => ~HasFile(TargetOf(q), f)'
           /\ \/ pc'[q] = "sweep" /\ at[q] < LastFile /\ at'[q] = at[q] + 1
              \/ /\ pc'[q] = AfterSweep(q) /\ at[q] = LastFile /\ at'[q] = 1
<1>1. at[q] \in AllFiles /\ TargetOf(q) \in Runs
  BY CursorIsFile, TargetIsRun
<1>2. /\ pc[q] = "sweep" /\ UNCHANGED <<job, sidecar, tool, left>>
      /\ outcome'[q] = outcome[q]
      /\ at'[q] = NextFile(at[q], LastFile)
      /\ pc'[q] = IF at[q] < LastFile THEN "sweep" ELSE AfterSweep(q)
  BY DEF Sweep, Goto, TypeOK, conts, ends
<1>3. "unlink" \notin Faults => \A f : f = at[q] => ~HasFile(TargetOf(q), f)'
  <2> SUFFICES ASSUME "unlink" \notin Faults, NEW n, n = at[q]
               PROVE  ~HasFile(TargetOf(q), n)'
    OBVIOUS
  <2>3. CASE n \in AllFix /\ fix' = [fix EXCEPT ![TargetOf(q)] = @ \ {n}]
    BY <1>1, <1>2, <2>3 DEF HasFile, TypeOK
  <2>4. CASE n = NFix + 1 /\ mid' = [mid EXCEPT ![TargetOf(q)] = 0]
    BY <1>1, <1>2, <2>4, FileCount DEF HasFile, TypeOK
  <2>5. QED BY <2>3, <2>4 DEF Sweep
<1>4. QED BY <1>1, <1>2, <1>3, FileCount

\* What RemovePair does: podman removes the pair and the sweep comes next, or it
\* ends with an error, whatever it has removed, and the command with it.
LEMMA RmDoes ==
    ASSUME TypeOK, NEW q \in Procs, RemovePair(q)
    PROVE  /\ pc[q] = "rmPair" /\ UNCHANGED <<files, job, at>>
           /\ \/ /\ pc'[q] = "sweep" /\ outcome'[q] = "ok"
                 /\ sidecar'[TargetOf(q)] = "removed"
              \/ pc'[q] = "done" /\ outcome'[q] = "failed"
<1>1. TargetOf(q) \in Runs
  BY TargetIsRun
<1>2. SidecarExists(TargetOf(q)) /\ PairRemoved(TargetOf(q)) => sidecar'[TargetOf(q)] = "removed"
  BY <1>1 DEF PairRemoved, SidecarRemoved, TypeOK
<1>3. QED BY <1>2 DEF RemovePair, Goto, End, AfterRm, AfterRmError, TypeOK

\* A sweep starts at the first file.
LEMMA SweepEntry ==
    ASSUME TypeOK, [Next]_vars, CursorAtStart, NEW q \in Procs,
           pc'[q] = "sweep", pc[q] # "sweep"
    PROVE  at'[q] = 1
<1>1. StageMoves(q)
  BY StageStep
<1>2. pc[q] \notin {"fix", "killed"} => at[q] = 1
  BY DEF CursorAtStart
<1>3. /\ ~Stays(q) /\ ~KilledNow(q) /\ ~Launch(q) /\ ~Sweep(q) /\ ~RemoveTool(q)
      /\ ~RemoveSidecar(q) /\ (~StartDNS(q) \/ at'[q] = 1)
  BY DEF Stays, KilledNow, Launch, Sweep, RemoveTool, RemoveSidecar, StartDNS, Goto, TypeOK
<1>4. CASE EarlyMoves(q)
  BY <1>2, <1>4 DEF EarlyMoves, Early, BeforeJail, Managing
<1>5. CASE ReadyMoves(q)
  BY <1>2, <1>5 DEF ReadyMoves, Ready
<1>6. CASE WriteFix(q)
  BY <1>6, WriteFixDoes
<1>7. CASE StatMachineID(q) \/ MintMachineID(q) \/ Detach(q) \/ RemovePair(q)
  <2>1. at' = at /\ pc[q] \in {"midstat", "mid", "attached", "rmPair"}
    BY <1>7 DEF StatMachineID, MintMachineID, Detach, RemovePair, Goto, Abort
  <2>2. QED BY <1>2, <2>1
<1>8. QED BY <1>1, <1>3, <1>4, <1>5, <1>6, <1>7 DEF StageMoves

LEMMA CursorAtStartStep ==
    ASSUME TypeOK, [Next]_vars, CursorAtStart
    PROVE  CursorAtStart'
<1> SUFFICES ASSUME NEW q \in Procs, pc'[q] \notin {"fix", "sweep", "killed"}
             PROVE  at'[q] = 1
  BY DEF CursorAtStart
<1>1. StageMoves(q)
  BY StageStep
<1>2. pc[q] \notin {"fix", "sweep", "killed"} => at[q] = 1
  BY DEF CursorAtStart
<1>3. CASE Stays(q) \/ KilledNow(q) \/ Launch(q)
  BY <1>2, <1>3 DEF Stays, KilledNow, Launch, Goto
<1>4. CASE EarlyMoves(q)
  BY <1>2, <1>4 DEF EarlyMoves, Early, BeforeJail, Managing
<1>5. CASE ReadyMoves(q)
  BY <1>2, <1>5 DEF ReadyMoves, Ready
<1>6. CASE WriteFix(q)
  BY <1>6, WriteFixDoes
<1>7. CASE Sweep(q)
  BY <1>7, SweepDoes
<1>8. CASE StartDNS(q)
  BY <1>8 DEF StartDNS, TypeOK
<1>9. CASE \/ StatMachineID(q) \/ MintMachineID(q) \/ Detach(q)
           \/ RemoveTool(q) \/ RemoveSidecar(q) \/ RemovePair(q)
  <2>1. at' = at /\ pc[q] \in {"midstat", "mid", "attached", "tdTool", "tdSidecar", "rmPair"}
    BY <1>9 DEF StatMachineID, MintMachineID, Detach, RemoveTool, RemoveSidecar,
                RemovePair, Goto, Abort
  <2>2. QED BY <1>2, <2>1
<1>10. QED BY <1>1, <1>3, <1>4, <1>5, <1>6, <1>7, <1>8, <1>9 DEF StageMoves

LEMMA FilesNeedSidecarStep ==
    ASSUME TypeOK, [Next]_vars, CreatedInv, FilesNeedSidecar
    PROVE  FilesNeedSidecar'
<1> SUFFICES ASSUME NEW r \in Runs, NEW f \in AllFiles, HasFile(r, f)'
             PROVE  sidecar'[r] # "absent"
  BY DEF FilesNeedSidecar, AllFiles
<1>1. sidecar[r] # "absent"
  <2>1. CASE HasFile(r, f)
    BY <2>1 DEF FilesNeedSidecar
  <2>2. CASE ~HasFile(r, f)
    <3>1. PICK p \in Procs : TargetOf(p) = r /\ (WriteFix(p) \/ MintMachineID(p))
      BY <2>2, FileMovesStep DEF FileMoves
    <3>2. pc[p] \in {"fix", "mid"}
      BY <3>1 DEF WriteFix, MintMachineID, Goto, Abort
    <3>3. QED BY <3>1, <3>2 DEF CreatedInv, Building
  <2>3. QED BY <2>1, <2>2
<1>2. QED BY <1>1, PairStep DEF PairMoves

\* A sidecar that was removed stays removed.
LEMMA RemovedStays ==
    ASSUME TypeOK, TypeOK', [Next]_vars, CreatedInv, NEW r \in Runs, sidecar[r] = "removed"
    PROVE  sidecar'[r] = "removed"
<1>1. PairMoves(r) /\ sidecar'[r] \in {"absent", "stopped", "running", "removed"}
  BY PairStep DEF TypeOK
<1>2. QED BY <1>1 DEF PairMoves, SidecarExists

LEMMA RmSweepsStep ==
    ASSUME TypeOK, TypeOK', [Next]_vars, PathInv, CreatedInv, RmSweeps
    PROVE  RmSweeps'
<1> SUFFICES ASSUME NEW q \in Procs, pc'[q] = "sweep", job'[q].verb = "rm"
             PROVE  sidecar'[TargetOf(q)'] = "removed" /\ outcome'[q] = "ok"
  BY DEF RmSweeps
<1>1. StageMoves(q)
  BY StageStep
<1>2. job'[q] = job[q] /\ ~Launch(q)
  BY LaunchDoes, JobStays
<1>3. ~JailJob(q)
  BY <1>2 DEF JailJob, RunJob, StartJob
<1>4. pc[q] \notin {"attached"} \cup Building
  BY <1>3 DEF PathInv
<1>5. CASE pc[q] = "sweep" /\ outcome'[q] = outcome[q]
  BY <1>2, <1>5, RemovedStays, TargetIsRun DEF RmSweeps
<1>6. CASE RemovePair(q)
  BY <1>2, <1>6, RmDoes
<1>7. Stays(q) \/ Sweep(q) => pc[q] = "sweep" /\ outcome'[q] = outcome[q]
  BY SweepDoes DEF Stays
<1>8. ~EarlyMoves(q) /\ ~ReadyMoves(q) /\ ~KilledNow(q)
  BY <1>4 DEF EarlyMoves, ReadyMoves, Ready, Building, KilledNow
<1>9. ~StartDNS(q) /\ ~WriteFix(q) /\ ~StatMachineID(q) /\ ~MintMachineID(q) /\ ~Detach(q)
  BY <1>4 DEF StartDNS, WriteFix, StatMachineID, MintMachineID, Detach, Goto, Abort, Building
<1>10. ~RemoveTool(q) /\ ~RemoveSidecar(q)
  BY DEF RemoveTool, RemoveSidecar, Goto, TypeOK
<1>11. QED BY <1>1, <1>2, <1>5, <1>6, <1>7, <1>8, <1>9, <1>10 DEF StageMoves

\* These invariants hold in every reachable state.
LEMMA FilesInvariant == Spec => []FilesInv
<1>1. Init => FilesInv
  <2>1. Init => FixCursor /\ PairWhole /\ CursorAtStart /\ RmSweeps
    BY DEF Init, FixCursor, PairWhole, CursorAtStart, RmSweeps, ToolExists, Up
  <2>2. Init => FilesNeedSidecar
    BY DEF Init, FilesNeedSidecar, HasFile
  <2>3. QED BY <2>1, <2>2 DEF FilesInv
<1>2. TypeOK /\ JailInv /\ TypeOK' /\ FilesInv /\ [Next]_vars => FilesInv'
  <2> SUFFICES ASSUME TypeOK, JailInv, TypeOK', FilesInv, [Next]_vars PROVE FilesInv'
    OBVIOUS
  <2>1. FixCursor' /\ PairWhole' /\ CursorAtStart'
    BY CursorStep, PairWholeStep, CursorAtStartStep DEF FilesInv, JailInv
  <2>2. FilesNeedSidecar' /\ RmSweeps'
    BY FilesNeedSidecarStep, RmSweepsStep DEF FilesInv, JailInv
  <2>3. QED BY <2>1, <2>2 DEF FilesInv
<1>3. QED BY <1>1, <1>2, JailInvariant, PTL DEF Spec

-----------------------------------------------------------------------------
(***************************************************************************)
(* One command at a time.                                                  *)
(***************************************************************************)
\* At most one command is in progress.
Alone == \A p, q \in Procs : Active(p) /\ Active(q) => p = q
AloneInv == IsFiniteSet({p \in Procs : Active(p)}) /\ Alone

\* A command that holds a pair: a run from its sidecar on, a start from the
\* reconcile on, until its tool ends.
Holds(p) ==
    \/ pc[p] \in (Building \ {"sidecar"}) \cup {"attached"}
    \/ StartJob(p) /\ pc[p] = "sidecar"
HeldInv == \A p \in Procs : Holds(p) => SidecarExists(TargetOf(p))

\* What a sweep has passed is gone.
Swept(p, f) == \/ pc[p] \in {"tdTool", "tdSidecar"}
               \/ pc[p] = "sweep" /\ f < at[p]
SweptInv == "unlink" \notin Faults =>
    \A p \in Procs, f \in AllFiles : Swept(p, f) => ~HasFile(TargetOf(p), f)

\* A file without a sidecar is one that an `rm` is still to sweep, would have swept
\* had it not been killed, or does not sweep because podman failed.
LeavesFile(p, f) ==
    /\ job[p].verb = "rm"
    /\ \/ pc[p] = "killed" /\ outcome[p] = "ok"
       \/ pc[p] = "sweep" /\ outcome[p] = "ok" /\ at[p] <= f
       \/ pc[p] \in Finished /\ outcome[p] = "failed"
OrphanInv == "unlink" \notin Faults =>
    \A r \in Runs, f \in AllFiles : HasFile(r, f) /\ ~SidecarExists(r) =>
        \E p \in Procs : TargetOf(p) = r /\ LeavesFile(p, f)

\* An ephemeral command that ended well has left no file.
EndedInv == "unlink" \notin Faults =>
    \A p \in Procs : EndedEphemeral(p) /\ left[p] = "nothing" => NoFiles(TargetOf(p))

\* Where a machine id is generated there is none.
Mints(p) == pc[p] = "mid" \/ (RunJob(p) /\ pc[p] \in {"v4", "v6", "dns", "fix"})
MintInv == \A p \in Procs : Mints(p) => mid[TargetOf(p)] = 0

\* The files a command has written are there until its tool ends, unless the
\* temp directory is swept.
Written(p, f) ==
    \/ pc[p] = "fix" /\ f < at[p]
    \/ pc[p] \in {"midstat", "mid"} \cup Ready /\ f \in AllFix
    \/ pc[p] \in Ready
WrittenInv == "sweep" \notin Faults =>
    \A p \in Procs, f \in AllFiles : Written(p, f) => HasFile(TargetOf(p), f)

\* A tool has every file it mounts, until somebody sweeps them in order to
\* remove it, or could not remove it.
Undone(p) == left[p] # "nothing" \/ pc[p] \in {"sweep", "tdTool"}
MountInv == Faults \cap {"crash", "reboot", "sweep"} = {} =>
    \A r \in Runs : ToolExists(r) =>
        HaveMounts(r) \/ \E p \in Procs : TargetOf(p) = r /\ Undone(p)

\* Between its two checks and the exec nobody stops the sidecar.
EnterInv == "die" \notin Faults =>
    \A p \in Procs : pc[p] \in {"xNamed", "xRun"} => sidecar[TargetOf(p)] = "running"

\* A command in progress was in progress, or is launched.
LEMMA ActiveBefore ==
    ASSUME TypeOK, [Next]_vars, NEW q \in Procs, pc'[q] \notin {"idle"} \cup Finished
    PROVE  Active(q) \/ Launch(q)
<1>1. StageMoves(q)
  BY StageStep
<1>2. CASE Stays(q) \/ KilledNow(q)
  BY <1>2 DEF Stays, KilledNow, Active
<1>3. CASE EarlyMoves(q) \/ ReadyMoves(q)
  BY <1>3 DEF EarlyMoves, Early, BeforeJail, Managing, ReadyMoves, Ready, Active, Finished
<1>4. CASE \/ StartDNS(q) \/ WriteFix(q) \/ StatMachineID(q) \/ MintMachineID(q)
           \/ Detach(q) \/ Sweep(q) \/ RemoveTool(q) \/ RemoveSidecar(q) \/ RemovePair(q)
  BY <1>4 DEF StartDNS, WriteFix, StatMachineID, MintMachineID, Detach, Sweep, RemoveTool,
              RemoveSidecar, RemovePair, Goto, Abort, Active, Finished
<1>5. QED BY <1>1, <1>2, <1>3, <1>4 DEF StageMoves

LEMMA AloneStep ==
    ASSUME MaxActive = 1, TypeOK, [Next]_vars, AloneInv
    PROVE  AloneInv'
<1> DEFINE A == {p \in Procs : Active(p)}
<1> DEFINE B == {p \in Procs : pc'[p] \notin {"idle"} \cup Finished}
<1>1. SUFFICES IsFiniteSet(B) /\ \A p, q \in B : p = q
  BY DEF AloneInv, Alone, Active
<1>2. IsFiniteSet(A) /\ \A p, q \in A : p = q
  BY DEF AloneInv, Alone
<1>3. ASSUME NEW p \in Procs, Launch(p) PROVE IsFiniteSet(B) /\ \A q, s \in B : q = s
  <2>1. Cardinality(A) < 1
    BY <1>3 DEF Launch
  <2>2. A = {}
    BY <1>2, <2>1, FS_EmptySet, FS_CardinalityType
  <2>3. B \subseteq {p}
    BY <1>3, <2>2, LaunchDoes DEF Active
  <2>4. IsFiniteSet({p})
    BY FS_Singleton
  <2>5. QED BY <2>3, <2>4, FS_Subset
<1>4. CASE \A p \in Procs : ~Launch(p)
  <2>1. B \subseteq A
    BY <1>4, ActiveBefore
  <2>2. QED BY <1>2, <2>1, FS_Subset
<1>5. QED BY <1>3, <1>4

\* The command that takes a step is the only one in progress.
LEMMA OnlyOne ==
    ASSUME TypeOK, [Next]_vars, AloneInv, NEW p \in Procs, NEW q \in Procs,
           pc[p] \notin {"idle"} \cup Finished, pc'[q] \notin {"idle"} \cup Finished,
           ~Launch(q)
    PROVE  p = q
BY ActiveBefore DEF AloneInv, Alone, Active

\* Nothing takes the sidecar from under a command that holds its pair.
LEMMA HeldStep ==
    ASSUME TypeOK, [Next]_vars, IdleInv, PathInv, AloneInv, HeldInv
    PROVE  HeldInv'
<1> SUFFICES ASSUME NEW q \in Procs, Holds(q)' PROVE SidecarExists(TargetOf(q))'
  BY DEF HeldInv
<1> USE DEF Building
<1>1. pc'[q] \in Building \cup {"attached"}
  BY DEF Holds
<1>2. ~Launch(q) /\ ControlMoves(q) /\ TargetOf(q) \in Runs
  BY <1>1, LaunchDoes, ControlStep, TargetIsRun
<1>3. job'[q] = job[q] /\ TargetOf(q)' = TargetOf(q)
  BY <1>2, JobStays
<1>4. ASSUME SidecarExists(TargetOf(q)) PROVE SidecarExists(TargetOf(q))'
  <2>1. SUFFICES ASSUME NEW r \in Runs, r = TargetOf(q), ~SidecarExists(r)' PROVE FALSE
    BY <1>2, <1>3
  <2>2. PICK p \in Procs : RemoveSidecar(p) \/ RemovePair(p)
    BY <1>4, <2>1, LossStep DEF LossMoves
  <2>3. pc[p] \in {"tdSidecar", "rmPair"} /\ pc'[p] \in {"sweep", "done"}
    BY <2>2 DEF RemoveSidecar, RemovePair, Goto, AfterRm, AfterRmError, TypeOK
  <2>4. p = q
    BY <1>1, <1>2, <2>3, OnlyOne DEF Finished
  <2>5. QED BY <1>1, <2>3, <2>4
<1>5. CASE Holds(q)
  BY <1>4, <1>5 DEF HeldInv
<1>6. CASE pc[q] = "inspect" /\ SidecarExists(TargetOf(q))
  BY <1>4, <1>6
<1>7. CASE sidecar'[TargetOf(q)] = "running"
  BY <1>3, <1>7 DEF SidecarExists
<1>8. \/ Holds(q) \/ (pc[q] = "inspect" /\ SidecarExists(TargetOf(q)))
      \/ sidecar'[TargetOf(q)] = "running"
  <2>1. CASE pc'[q] = pc[q]
    BY <1>3, <2>1 DEF Holds, StartJob
  <2>2. CASE pc'[q] = "sidecar" /\ pc[q] # "sidecar"
    BY <1>2, <2>2, <1>3 DEF ControlMoves, Verified, Holds, StartJob, RunJob, TearingDown, Managing, Finished
  <2>3. CASE pc'[q] = "v4" /\ pc[q] # "v4"
    BY <1>2, <2>3 DEF ControlMoves, Verified, Holds, StartJob, RunJob, PathInv, JailJob,
                      TearingDown, Managing, Finished
  <2>4. CASE pc'[q] \notin {"sidecar", "v4"} /\ pc'[q] # pc[q]
    BY <1>1, <1>2, <2>4 DEF ControlMoves, Verified, Holds, TearingDown, Managing, Finished
  <2>5. QED BY <2>1, <2>2, <2>3, <2>4
<1>9. QED BY <1>5, <1>6, <1>7, <1>8

\* A file that appears has a writer, which holds the pair and leaves it alone.
LEMMA WriterHolds ==
    ASSUME TypeOK, [Next]_vars, NEW r \in Runs, NEW f \in AllFiles,
           HasFile(r, f)', ~HasFile(r, f)
    PROVE  \E p \in Procs : /\ TargetOf(p) = r /\ TargetOf(p)' = r
                            /\ pc[p] \in {"fix", "mid"} /\ Holds(p)
                            /\ UNCHANGED <<sidecar, launcher>>
<1>1. PICK p \in Procs : TargetOf(p) = r /\ (WriteFix(p) \/ MintMachineID(p))
  BY FileMovesStep DEF FileMoves
<1>2. pc[p] \in {"fix", "mid"} /\ UNCHANGED <<sidecar, launcher>>
  BY <1>1 DEF WriteFix, MintMachineID, Goto, Abort, conts
<1>3. Holds(p)
  BY <1>2 DEF Holds, Building
<1>4. TargetOf(p)' = r
  BY <1>1, <1>2, JobStays, LaunchDoes
<1>5. QED BY <1>1, <1>2, <1>3, <1>4

\* Where a command can go from a sweep, and from its end.
LEMMA FromSweep ==
    ASSUME TypeOK, [Next]_vars, NEW q \in Procs, pc[q] = "sweep"
    PROVE  Stays(q) \/ KilledNow(q) \/ Sweep(q)
<1>1. StageMoves(q)
  BY StageStep
<1>2. ~EarlyMoves(q) /\ ~ReadyMoves(q) /\ ~Launch(q)
  BY LaunchDoes DEF EarlyMoves, Early, BeforeJail, Managing, ReadyMoves, Ready
<1>3. /\ ~StartDNS(q) /\ ~WriteFix(q) /\ ~StatMachineID(q) /\ ~MintMachineID(q)
      /\ ~Detach(q) /\ ~RemoveTool(q) /\ ~RemoveSidecar(q) /\ ~RemovePair(q)
  BY DEF StartDNS, WriteFix, StatMachineID, MintMachineID, Detach, RemoveTool,
         RemoveSidecar, RemovePair, Goto, Abort
<1>4. QED BY <1>1, <1>2, <1>3 DEF StageMoves

LEMMA FromFinished ==
    ASSUME TypeOK, [Next]_vars, NEW q \in Procs, pc[q] \in Finished
    PROVE  Stays(q) /\ job'[q] = job[q]
<1>1. StageMoves(q)
  BY StageStep
<1>2. ~EarlyMoves(q) /\ ~ReadyMoves(q) /\ ~Launch(q) /\ ~KilledNow(q)
  BY LaunchDoes DEF EarlyMoves, Early, BeforeJail, Managing, ReadyMoves, Ready,
                    KilledNow, Active, Finished
<1>3. /\ ~StartDNS(q) /\ ~WriteFix(q) /\ ~StatMachineID(q) /\ ~MintMachineID(q)
      /\ ~Detach(q) /\ ~Sweep(q) /\ ~RemoveTool(q) /\ ~RemoveSidecar(q) /\ ~RemovePair(q)
  BY DEF StartDNS, WriteFix, StatMachineID, MintMachineID, Detach, Sweep, RemoveTool,
         RemoveSidecar, RemovePair, Goto, Abort, Finished
<1>4. QED BY <1>1, <1>2, <1>3, JobStays DEF StageMoves

\* What a sweep has passed it has passed, or it has removed it just now.
LEMMA SweptComes ==
    ASSUME TypeOK, TypeOK', [Next]_vars, CursorAtStart, "unlink" \notin Faults,
           NEW q \in Procs, NEW f \in AllFiles, Swept(q, f)', HasFile(TargetOf(q), f)'
    PROVE  Swept(q, f) /\ ~Launch(q)
<1>1. pc'[q] \in {"sweep", "tdTool", "tdSidecar"} /\ (pc'[q] = "sweep" => f < at'[q])
  BY DEF Swept
<1>2. ~Launch(q) /\ TargetOf(q) \in Runs /\ TargetOf(q)' = TargetOf(q)
  BY <1>1, LaunchDoes, TargetIsRun, JobStays
<1>3. PICK r \in Runs : r = TargetOf(q)
  BY <1>2
<1>4. HasFile(r, f)'
  BY <1>2, <1>3
<1>6. SUFFICES ASSUME ~Swept(q, f) PROVE FALSE
  BY <1>2
<1>7. CASE pc'[q] = "sweep" /\ pc[q] # "sweep"
  BY <1>1, <1>7, SweepEntry DEF AllFiles
<1>8. CASE pc[q] = "sweep"
  <2>1. CASE Stays(q)
    BY <1>1, <1>6, <1>8, <2>1 DEF Stays, Swept
  <2>2. CASE Sweep(q)
    <3>1. /\ \A g : g = at[q] => ~HasFile(r, g)'
          /\ \/ pc'[q] = "sweep" /\ at'[q] = at[q] + 1
             \/ at[q] = NFix + 1
      BY <1>2, <1>3, <2>2, SweepDoes, FileCount
    <3>2. at[q] \in Nat /\ f \in Nat /\ f <= NFix + 1
      BY CursorIsFile, FileCount DEF AllFiles
    <3>3. f < at[q] \/ f = at[q]
      BY <1>1, <3>1, <3>2
    <3>4. CASE f < at[q]
      BY <1>6, <1>8, <3>4 DEF Swept
    <3>5. QED BY <1>4, <3>1, <3>3, <3>4
  <2>3. ~KilledNow(q)
    BY <1>1 DEF KilledNow
  <2>4. QED BY <1>8, <2>1, <2>2, <2>3, FromSweep
<1>9. CASE pc'[q] \in {"tdTool", "tdSidecar"} /\ pc[q] # "sweep"
  <2>1. pc[q] \in {"tdTool", "tdSidecar"}
    <3>1. StageMoves(q)
      BY StageStep
    <3>2. ~EarlyMoves(q) /\ ~ReadyMoves(q) /\ ~KilledNow(q) /\ ~Sweep(q)
      BY <1>9, SweepDoes DEF EarlyMoves, Early, BeforeJail, Managing, ReadyMoves, Ready,
                             KilledNow
    <3>3. /\ ~StartDNS(q) /\ ~WriteFix(q) /\ ~StatMachineID(q) /\ ~MintMachineID(q)
          /\ ~Detach(q) /\ ~RemovePair(q)
      BY <1>9 DEF StartDNS, WriteFix, StatMachineID, MintMachineID, Detach, RemovePair,
                  Goto, Abort, ToTeardown, AfterFiles, AfterReach, AfterRm, AfterRmError, TypeOK
    <3>4. CASE Stays(q)
      BY <1>9, <3>4 DEF Stays
    <3>5. CASE RemoveTool(q) \/ RemoveSidecar(q)
      BY <3>5 DEF RemoveTool, RemoveSidecar, Goto
    <3>6. QED BY <1>2, <3>1, <3>2, <3>3, <3>4, <3>5 DEF StageMoves
  <2>2. QED BY <1>6, <2>1 DEF Swept
<1>10. QED BY <1>1, <1>7, <1>8, <1>9

\* The sweep of a command removes what it passes, and nobody writes it again.
LEMMA SweptStep ==
    ASSUME TypeOK, TypeOK', [Next]_vars, AloneInv, CursorAtStart, SweptInv
    PROVE  SweptInv'
<1> SUFFICES ASSUME "unlink" \notin Faults, NEW q \in Procs, NEW f \in AllFiles,
                    Swept(q, f)'
             PROVE  ~HasFile(TargetOf(q), f)'
  BY DEF SweptInv, AllFiles
<1>1. pc'[q] \in {"sweep", "tdTool", "tdSidecar"} /\ (pc'[q] = "sweep" => f < at'[q])
  BY DEF Swept
<1>2. ~Launch(q) /\ TargetOf(q) \in Runs /\ TargetOf(q)' = TargetOf(q)
  BY <1>1, LaunchDoes, TargetIsRun, JobStays
<1>3. PICK r \in Runs : r = TargetOf(q)
  BY <1>2
<1>4. SUFFICES ~HasFile(r, f)'
  BY <1>2, <1>3
<1>5. ASSUME HasFile(r, f)' PROVE HasFile(r, f)
  <2>1. SUFFICES ASSUME ~HasFile(r, f) PROVE FALSE
    OBVIOUS
  <2>2. PICK p \in Procs : pc[p] \in {"fix", "mid"}
    BY <1>5, <2>1, WriterHolds
  <2>3. p = q
    BY <1>1, <1>2, <2>2, OnlyOne DEF Finished
  <2>4. Swept(q, f)
    BY <1>2, <1>3, <1>5, SweptComes
  <2>5. QED BY <2>2, <2>3, <2>4 DEF Swept
<1>6. ASSUME HasFile(r, f)' PROVE FALSE
  BY <1>2, <1>3, <1>5, <1>6, SweptComes DEF SweptInv
<1>7. QED BY <1>6

\* A pair that goes leaves its files only to the `rm` that removed it.
LEMMA OrphanStep ==
    ASSUME TypeOK, TypeOK', [Next]_vars, PathInv, AloneInv, CursorAtStart,
           SweptInv, OrphanInv, HeldInv
    PROVE  OrphanInv'
<1> SUFFICES ASSUME "unlink" \notin Faults, NEW r \in Runs, NEW f \in AllFiles,
                    HasFile(r, f)', ~SidecarExists(r)'
             PROVE  \E p \in Procs : TargetOf(p)' = r /\ LeavesFile(p, f)'
  BY DEF OrphanInv, AllFiles
<1>1. HasFile(r, f)
  <2>1. SUFFICES ASSUME ~HasFile(r, f) PROVE FALSE
    OBVIOUS
  <2>2. PICK p \in Procs : TargetOf(p) = r /\ Holds(p) /\ UNCHANGED sidecar
    BY <2>1, WriterHolds
  <2>3. QED BY <2>2 DEF HeldInv, SidecarExists
<1>2. CASE SidecarExists(r)
  <2>1. PICK p \in Procs : TargetOf(p) = r /\ (RemoveSidecar(p) \/ RemovePair(p))
    BY <1>2, LossStep DEF LossMoves
  <2>2. ~RemoveSidecar(p)
    <3>1. RemoveSidecar(p) => Swept(p, f)
      BY DEF RemoveSidecar, Goto, Swept
    <3>2. QED BY <1>1, <2>1, <3>1 DEF SweptInv
  <2>3. /\ pc[p] = "rmPair" /\ UNCHANGED <<at, job>>
        /\ \/ pc'[p] = "sweep" /\ outcome'[p] = "ok"
           \/ pc'[p] = "done" /\ outcome'[p] = "failed"
    BY <2>1, <2>2, RmDoes
  <2>4. job[p].verb = "rm" /\ at[p] = 1
    BY <2>3 DEF PathInv, CursorAtStart
  <2>5. TargetOf(p)' = r
    BY <2>1, <2>3
  <2>6. LeavesFile(p, f)'
    BY <2>3, <2>4 DEF LeavesFile, AllFiles, Finished
  <2>7. QED BY <2>5, <2>6
<1>3. CASE ~SidecarExists(r)
  <2>1. PICK p \in Procs : TargetOf(p) = r /\ LeavesFile(p, f)
    BY <1>1, <1>3 DEF OrphanInv
  <2>2. ~Launch(p)
    BY <2>1, LaunchDoes DEF LeavesFile, Finished
  <2>3. job'[p] = job[p] /\ TargetOf(p)' = r
    BY <2>1, <2>2, JobStays
  <2>4. SUFFICES LeavesFile(p, f)'
    BY <2>3
  <2>5. CASE pc[p] \in Finished
    BY <2>1, <2>3, <2>5, FromFinished DEF LeavesFile, Stays, Finished
  <2>6. CASE pc[p] = "sweep" /\ at[p] <= f
    <3>1. CASE Stays(p) \/ KilledNow(p)
      BY <2>1, <2>3, <2>6, <3>1 DEF LeavesFile, Stays, KilledNow, Finished
    <3>2. CASE Sweep(p)
      <4>1. /\ \A g : g = at[p] => ~HasFile(r, g)'
            /\ outcome'[p] = outcome[p]
            /\ \/ pc'[p] = "sweep" /\ at'[p] = at[p] + 1
               \/ at[p] = NFix + 1
        BY <2>1, <2>3, <3>2, SweepDoes, FileCount
      <4>2. at[p] \in Nat /\ f \in Nat /\ f <= NFix + 1 /\ NFix \in Nat
        BY CursorIsFile, FileCount DEF AllFiles
      <4>3. f # at[p]
        BY <4>1
      <4>4. pc'[p] = "sweep" /\ at'[p] <= f
        BY <2>6, <4>1, <4>2, <4>3
      <4>5. job[p].verb = "rm" /\ outcome[p] = "ok"
        BY <2>1, <2>6 DEF LeavesFile, Finished
      <4>6. QED BY <2>3, <4>1, <4>4, <4>5 DEF LeavesFile
    <3>3. QED BY <2>6, <3>1, <3>2, FromSweep
  <2>7. QED BY <2>1, <2>5, <2>6 DEF LeavesFile, Finished
<1>4. QED BY <1>2, <1>3

\* What an ephemeral command has removed, files and containers, stays removed.
LEMMA EndedFilesStep ==
    ASSUME TypeOK, TypeOK', [Next]_vars, IdleInv, PathInv, SweptInv, EndedInv,
           GoneInv', HeldInv
    PROVE  EndedInv'
<1> SUFFICES ASSUME "unlink" \notin Faults, NEW q \in Procs,
                    EndedEphemeral(q)', left'[q] = "nothing"
             PROVE  NoFiles(TargetOf(q))'
  BY DEF EndedInv
<1>1. pc'[q] = "done" /\ ~Launch(q)
  BY LaunchDoes DEF EndedEphemeral
<1>2. job'[q] = job[q] /\ TargetOf(q)' = TargetOf(q) /\ TargetOf(q) \in Runs
  BY <1>1, JobStays, TargetIsRun
<1>3. PICK r \in Runs : r = TargetOf(q)
  BY <1>2
<1>4. ~SidecarExists(r)'
  BY <1>2, <1>3 DEF GoneInv, Gone
<1>5. \A f \in AllFiles : ~HasFile(r, f)
  <2>1. JailJob(q) /\ job[q].rm /\ outcome'[q] # "refused"
    BY <1>2 DEF EndedEphemeral, JailJob, RunJob, StartJob
  <2>2. \/ pc[q] = "done" /\ left[q] = "nothing" /\ outcome[q] # "refused"
        \/ pc[q] = "tdSidecar"
    BY <1>1, <2>1, TeardownMovesStep DEF TeardownMoves
  <2>3. CASE pc[q] = "done" /\ left[q] = "nothing"
    <3>1. outcome'[q] = outcome[q]
      BY <2>3, DoneStays
    <3>2. EndedEphemeral(q)
      BY <1>2, <2>3, <3>1 DEF EndedEphemeral
    <3>3. QED BY <1>3, <2>3, <3>2, FilesOfRun DEF EndedInv
  <2>4. CASE pc[q] = "tdSidecar"
    BY <1>3, <2>4 DEF SweptInv, Swept
  <2>5. QED BY <2>2, <2>3, <2>4
<1>6. ASSUME NEW f \in AllFiles PROVE ~HasFile(r, f)'
  <2>1. SUFFICES ASSUME HasFile(r, f)' PROVE FALSE
    OBVIOUS
  <2>2. PICK p \in Procs : TargetOf(p) = r /\ Holds(p) /\ UNCHANGED sidecar
    BY <1>5, <2>1, WriterHolds
  <2>3. QED BY <1>4, <2>2 DEF HeldInv, SidecarExists
<1>7. NoFiles(r)'
  <2>1. NoFiles(r)' <=> \A f \in AllFiles : ~HasFile(r, f)'
    <3>1. AllFiles = AllFix \cup {NFix + 1} /\ NFix + 1 \notin AllFix
      BY FileCount DEF AllFiles
    <3>2. fix'[r] \subseteq AllFix
      BY DEF TypeOK
    <3>3. QED BY <3>1, <3>2 DEF NoFiles, HasFile
  <2>2. QED BY <1>6, <2>1
<1>8. QED BY <1>2, <1>3, <1>7

\* A machine id is generated only where there is none.
LEMMA MintStep ==
    ASSUME TypeOK, TypeOK', [Next]_vars, PathInv, CreatedInv, FilesNeedSidecar,
           AloneInv, MintInv
    PROVE  MintInv'
<1> SUFFICES ASSUME NEW q \in Procs, Mints(q)' PROVE mid'[TargetOf(q)'] = 0
  BY DEF MintInv
<1>1. \/ pc'[q] = "mid"
      \/ RunJob(q)' /\ pc'[q] \in {"v4", "v6", "dns", "fix"}
  BY DEF Mints
<1>2. ~Launch(q) /\ ControlMoves(q) /\ StageMoves(q) /\ TargetOf(q) \in Runs
  BY <1>1, LaunchDoes, ControlStep, StageStep, TargetIsRun
<1>3. job'[q] = job[q] /\ TargetOf(q)' = TargetOf(q) /\ (RunJob(q)' <=> RunJob(q))
  BY <1>2, JobStays DEF RunJob
<1>4. PICK r \in Runs : r = TargetOf(q)
  BY <1>2
<1>5. mid[r] = 0
  <2>1. CASE Mints(q)
    BY <1>4, <2>1 DEF MintInv
  <2>2. CASE pc[q] = "sidecar" /\ RunJob(q)
    <3>1. sidecar[r] = "absent" /\ NFix + 1 \in AllFiles /\ NFix + 1 \notin AllFix
      BY <1>4, <2>2, FileCount DEF CreatedInv, AllFiles
    <3>2. QED BY <3>1 DEF FilesNeedSidecar, HasFile
  <2>3. CASE pc[q] = "midstat"
    <3>1. StatMachineID(q) \/ Stays(q)
      BY <1>1, <1>2, <2>3 DEF StageMoves, KilledNow, EarlyMoves, Early, BeforeJail, Managing,
           ReadyMoves, Ready, StartDNS, WriteFix, MintMachineID, Detach, Sweep, RemoveTool,
           RemoveSidecar, RemovePair, Goto, Abort
    <3>2. StatMachineID(q)
      BY <1>1, <2>3, <3>1 DEF Stays
    <3>3. KeepMachineID(q) => pc'[q] # "mid"
      BY <3>2 DEF StatMachineID, Goto, Abort, ToTeardown, AfterFiles, AfterReach, TypeOK
    <3>4. pc'[q] = "mid"
      BY <1>1, <3>2 DEF StatMachineID, Goto, Abort, ToTeardown, AfterFiles, AfterReach, TypeOK
    <3>5. QED BY <1>4, <3>3, <3>4 DEF KeepMachineID
  <2>4. \/ Mints(q) \/ (pc[q] = "sidecar" /\ RunJob(q)) \/ pc[q] = "midstat"
    <3>1. CASE pc'[q] = pc[q]
      BY <1>1, <1>3, <3>1 DEF Mints
    <3>2. CASE pc'[q] \in {"v4", "v6", "dns"} /\ pc'[q] # pc[q]
      BY <1>1, <1>2, <1>3, <3>2 DEF ControlMoves, Mints, Verified, TearingDown, Managing, Finished
    <3>3. CASE pc'[q] \in {"fix", "mid"} /\ pc'[q] # pc[q]
      <4>1. ~EarlyMoves(q) /\ ~ReadyMoves(q) /\ ~KilledNow(q) /\ ~Stays(q) /\ ~Sweep(q)
        BY <3>3, SweepDoes DEF EarlyMoves, Early, BeforeJail, Managing, ReadyMoves, Ready,
                               KilledNow, Stays, AfterSweep
      <4>2. /\ ~MintMachineID(q) /\ ~Detach(q) /\ ~RemoveTool(q) /\ ~RemoveSidecar(q)
            /\ ~RemovePair(q)
        BY <3>3 DEF MintMachineID, Detach, RemoveTool, RemoveSidecar, RemovePair, Goto, Abort,
                    ToTeardown, AfterFiles, AfterReach, AfterRm, AfterRmError, TypeOK
      <4>3. CASE StartDNS(q)
        <5>1. pc[q] = "dns" /\ pc'[q] # "mid"
          BY <4>3 DEF StartDNS, Goto, Abort, ToTeardown, TypeOK
        <5>2. QED BY <1>1, <1>3, <3>3, <5>1 DEF Mints
      <4>4. CASE WriteFix(q)
        <5>1. pc[q] = "fix" /\ (pc'[q] = "mid" => RunJob(q))
          BY <4>4, WriteFixDoes DEF ToTeardown
        <5>2. QED BY <1>1, <1>3, <3>3, <5>1 DEF Mints
      <4>5. CASE StatMachineID(q)
        BY <4>5 DEF StatMachineID, Goto, Abort
      <4>6. QED BY <1>2, <4>1, <4>2, <4>3, <4>4, <4>5 DEF StageMoves
    <3>4. QED BY <1>1, <3>1, <3>2, <3>3
  <2>5. QED BY <2>1, <2>2, <2>3, <2>4
<1>6. mid'[r] = 0
  <2>1. SUFFICES ASSUME mid'[r] # 0 PROVE FALSE
    OBVIOUS
  <2>2. NFix + 1 \in AllFiles /\ NFix + 1 \notin AllFix
    BY FileCount DEF AllFiles
  <2>3. PICK p \in Procs : TargetOf(p) = r /\ (WriteFix(p) \/ MintMachineID(p))
    <3>1. PICK f \in AllFiles : f = NFix + 1
      BY <2>2
    <3>2. HasFile(r, f)' /\ ~HasFile(r, f)
      BY <1>5, <2>1, <2>2, <3>1 DEF HasFile
    <3>3. QED BY <3>2, FileMovesStep DEF FileMoves
  <2>4. MintMachineID(p)
    BY <1>5, <2>1, <2>3 DEF WriteFix
  <2>5. pc[p] = "mid" /\ pc'[p] \in Ready \cup {"sweep", "done"}
    BY <2>4 DEF MintMachineID, Goto, Abort, ToTeardown, AfterFiles, AfterReach, Ready, TypeOK
  <2>6. p = q
    BY <1>1, <1>2, <2>5, OnlyOne DEF Finished
  <2>7. QED BY <1>1, <2>5, <2>6 DEF Ready
<1>7. QED BY <1>3, <1>4, <1>6

\* The files written stay, and those before the cursor are written.
LEMMA WrittenStep ==
    ASSUME TypeOK, TypeOK', [Next]_vars, AloneInv, WrittenInv
    PROVE  WrittenInv'
<1> SUFFICES ASSUME "sweep" \notin Faults, NEW q \in Procs, NEW f \in AllFiles,
                    Written(q, f)'
             PROVE  HasFile(TargetOf(q), f)'
  BY DEF WrittenInv, AllFiles
<1>1. pc'[q] \in Writing \cup Ready
  BY DEF Written, Writing
<1>2. ~Launch(q) /\ StageMoves(q) /\ TargetOf(q) \in Runs
  BY <1>1, LaunchDoes, StageStep, TargetIsRun DEF Writing, Ready
<1>3. TargetOf(q)' = TargetOf(q)
  BY <1>2, JobStays
<1>4. PICK r \in Runs : r = TargetOf(q)
  BY <1>2
<1>5. SUFFICES HasFile(r, f)'
  BY <1>3, <1>4
<1>6. ASSUME HasFile(r, f) PROVE HasFile(r, f)'
  <2>1. SUFFICES ASSUME ~HasFile(r, f)' PROVE FALSE
    OBVIOUS
  <2>2. PICK p \in Procs : Sweep(p)
    BY <1>6, <2>1, FileMovesStep DEF FileMoves
  <2>3. pc[p] = "sweep" /\ pc'[p] \in {"sweep", "done", "tdTool"}
    BY <2>2, SweepDoes DEF AfterSweep
  <2>4. p = q
    BY <1>1, <1>2, <2>3, OnlyOne DEF Finished, Writing, Ready
  <2>5. QED BY <1>1, <2>3, <2>4 DEF Writing, Ready
<1>7. CASE Written(q, f)
  BY <1>4, <1>6, <1>7 DEF WrittenInv
<1>8. CASE Stays(q)
  BY <1>7, <1>8 DEF Stays, Written
<1>9. CASE ReadyMoves(q)
  BY <1>7, <1>9 DEF ReadyMoves, Written
<1>10. CASE StartDNS(q)
  <2>1. pc'[q] = "fix" /\ at'[q] = 1
    BY <1>1, <1>10 DEF StartDNS, Goto, Abort, ToTeardown, Writing, Ready, TypeOK
  <2>2. ~(f < 1)
    BY FileCount DEF AllFiles
  <2>3. QED BY <2>1, <2>2 DEF Written, Ready
<1>11. CASE WriteFix(q)
  <2>1. /\ pc[q] = "fix"
        /\ fix'[r] = fix[r] \cup {at[q]}
        /\ \/ pc'[q] = "fix" /\ at[q] < NFix /\ at'[q] = at[q] + 1
           \/ pc'[q] \in {"mid", "midstat"} /\ ~(at[q] < NFix)
    BY <1>1, <1>4, <1>11, WriteFixDoes DEF ToTeardown, Writing, Ready
  <2>2. f \in AllFix
    <3>1. CASE pc'[q] = "fix"
      <4>1. at[q] < NFix /\ at'[q] = at[q] + 1 /\ f < at'[q]
        BY <2>1, <3>1 DEF Written, Ready
      <4>2. QED BY <4>1, CursorIsFile, FileCount DEF AllFiles
    <3>2. CASE pc'[q] # "fix"
      BY <2>1, <3>2 DEF Written, Ready
    <3>3. QED BY <3>1, <3>2
  <2>3. f < at[q] \/ f = at[q]
    <3>1. at[q] \in Nat /\ f \in Nat /\ NFix \in Nat /\ f <= NFix
      BY <2>2, CursorIsFile, FileCount DEF AllFiles
    <3>2. pc'[q] = "fix" => f < at'[q]
      BY DEF Written, Ready
    <3>3. QED BY <2>1, <3>1, <3>2
  <2>4. CASE f < at[q]
    BY <1>7, <2>1, <2>4 DEF Written
  <2>5. CASE f = at[q]
    BY <2>1, <2>2, <2>5 DEF HasFile
  <2>6. QED BY <2>3, <2>4, <2>5
<1>12. CASE StatMachineID(q)
  <2>1. /\ pc[q] = "midstat" /\ UNCHANGED files
        /\ \/ pc'[q] = "mid"
           \/ pc'[q] \in Ready /\ mid[r] # 0
    BY <1>1, <1>4, <1>12 DEF StatMachineID, KeepMachineID, Goto, Abort, ToTeardown,
         AfterFiles, AfterReach, Writing, Ready, TypeOK
  <2>2. CASE f \in AllFix
    BY <1>7, <2>1, <2>2 DEF Written
  <2>3. CASE f \notin AllFix
    <3>1. pc'[q] \in Ready
      BY <2>1, <2>3 DEF Written, Ready
    <3>2. QED BY <2>1, <2>3, <3>1 DEF HasFile, files, Ready
  <2>4. QED BY <2>2, <2>3
<1>13. CASE MintMachineID(q)
  <2>1. pc[q] = "mid" /\ pc'[q] \in Ready /\ UNCHANGED fix
    BY <1>1, <1>13 DEF MintMachineID, Goto, Abort, ToTeardown, AfterFiles, AfterReach,
         Writing, Ready, TypeOK
  <2>2. mid'[r] # 0
    BY <1>2, <1>4, <1>13, <2>1 DEF MintMachineID, Mint, Goto, Abort, ToTeardown, Ready, TypeOK
  <2>3. CASE f \in AllFix
    BY <1>7, <2>1, <2>3 DEF Written
  <2>4. CASE f \notin AllFix
    BY <2>2, <2>4 DEF HasFile
  <2>5. QED BY <2>3, <2>4
<1>14. ~EarlyMoves(q) /\ ~KilledNow(q) /\ ~Sweep(q)
  BY <1>1, SweepDoes DEF EarlyMoves, Early, BeforeJail, Managing, Writing, Ready, KilledNow,
                         AfterSweep
<1>15. ~Detach(q) /\ ~RemoveTool(q) /\ ~RemoveSidecar(q) /\ ~RemovePair(q)
  BY <1>1 DEF Detach, RemoveTool, RemoveSidecar, RemovePair, Goto, ToTeardown, AfterRm,
              AfterRmError, Writing, Ready, TypeOK
<1>16. QED BY <1>2, <1>8, <1>9, <1>10, <1>11, <1>12, <1>13, <1>14, <1>15 DEF StageMoves

\* What a Teardown could not remove stays recorded.
LEMMA LeftStays ==
    ASSUME TypeOK, [Next]_vars
    PROVE  \A p \in Procs : left[p] # "nothing" => left'[p] # "nothing"
<1> SUFFICES ASSUME NEW q \in Procs, left[q] # "nothing" PROVE left'[q] # "nothing"
  OBVIOUS
<1> USE DEF TypeOK, ends
<1>1. ASSUME NEW p \in Procs, Launch(p) PROVE left'[q] # "nothing"
  BY <1>1 DEF Launch
<1>2. ASSUME NEW p \in Procs, ResolveTool(p) PROVE left'[q] # "nothing"
  BY <1>2 DEF ResolveTool
<1>3. ASSUME NEW p \in Procs, FindHelper(p) PROVE left'[q] # "nothing"
  BY <1>3 DEF FindHelper
<1>4. ASSUME NEW p \in Procs, Reconcile(p) PROVE left'[q] # "nothing"
  BY <1>4 DEF Reconcile
<1>5. ASSUME NEW p \in Procs, CreateSidecar(p) PROVE left'[q] # "nothing"
  BY <1>5 DEF CreateSidecar
<1>6. ASSUME NEW p \in Procs, ReviveSidecar(p) PROVE left'[q] # "nothing"
  BY <1>6 DEF ReviveSidecar
<1>7. ASSUME NEW p \in Procs, ProbeV4(p) PROVE left'[q] # "nothing"
  BY <1>7 DEF ProbeV4
<1>8. ASSUME NEW p \in Procs, ProbeV6(p) PROVE left'[q] # "nothing"
  BY <1>8 DEF ProbeV6
<1>9. ASSUME NEW p \in Procs, StartDNS(p) PROVE left'[q] # "nothing"
  BY <1>9 DEF StartDNS
<1>10. ASSUME NEW p \in Procs, WriteFix(p) PROVE left'[q] # "nothing"
  BY <1>10 DEF WriteFix
<1>11. ASSUME NEW p \in Procs, StatMachineID(p) PROVE left'[q] # "nothing"
  BY <1>11 DEF StatMachineID
<1>12. ASSUME NEW p \in Procs, MintMachineID(p) PROVE left'[q] # "nothing"
  BY <1>12 DEF MintMachineID
<1>13. ASSUME NEW p \in Procs, OpenReachback(p) PROVE left'[q] # "nothing"
  BY <1>13 DEF OpenReachback
<1>14. ASSUME NEW p \in Procs, CloseReachback(p) PROVE left'[q] # "nothing"
  BY <1>14 DEF CloseReachback
<1>14a. ASSUME NEW p \in Procs, OpenDirect(p) PROVE left'[q] # "nothing"
  BY <1>14a DEF OpenDirect
<1>14b. ASSUME NEW p \in Procs, CloseDirect(p) PROVE left'[q] # "nothing"
  BY <1>14b DEF CloseDirect
<1>15. ASSUME NEW p \in Procs, RunTool(p) PROVE left'[q] # "nothing"
  BY <1>15 DEF RunTool
<1>16. ASSUME NEW p \in Procs, StartTool(p) PROVE left'[q] # "nothing"
  BY <1>16 DEF StartTool
<1>17. ASSUME NEW p \in Procs, Detach(p) PROVE left'[q] # "nothing"
  BY <1>17 DEF Detach
<1>18. ASSUME NEW p \in Procs, Sweep(p) PROVE left'[q] # "nothing"
  BY <1>18 DEF Sweep
<1>19. ASSUME NEW p \in Procs, RemoveTool(p) PROVE left'[q] # "nothing"
  BY <1>19 DEF RemoveTool, Leaves
<1>20. ASSUME NEW p \in Procs, RemoveSidecar(p) PROVE left'[q] # "nothing"
  BY <1>20 DEF RemoveSidecar, Leaves
<1>21. ASSUME NEW p \in Procs, Guard(p) PROVE left'[q] # "nothing"
  BY <1>21 DEF Guard
<1>22. ASSUME NEW p \in Procs, StopNamed(p) PROVE left'[q] # "nothing"
  BY <1>22 DEF StopNamed
<1>23. ASSUME NEW p \in Procs, RemovePair(p) PROVE left'[q] # "nothing"
  BY <1>23 DEF RemovePair
<1>24. ASSUME NEW p \in Procs, CheckSidecar(p) PROVE left'[q] # "nothing"
  BY <1>24 DEF CheckSidecar
<1>25. ASSUME NEW p \in Procs, CheckNamed(p) PROVE left'[q] # "nothing"
  BY <1>25 DEF CheckNamed
<1>26. ASSUME NEW p \in Procs, Exec(p) PROVE left'[q] # "nothing"
  BY <1>26 DEF Exec
<1>27. ASSUME NEW p \in Procs, ProbeEnds(p) PROVE left'[q] # "nothing"
  BY <1>27 DEF ProbeEnds
<1>28. ASSUME NEW p \in Procs, Interrupt(p) PROVE left'[q] # "nothing"
  BY <1>28 DEF Interrupt
<1>29. ASSUME NEW p \in Procs, Kill(p) PROVE left'[q] # "nothing"
  BY <1>29 DEF Kill
<1>30. ASSUME NEW r \in Runs, ApplyRules(r) PROVE left'[q] # "nothing"
  BY <1>30 DEF ApplyRules
<1>31. ASSUME NEW r \in Runs, RuleFails(r) PROVE left'[q] # "nothing"
  BY <1>31 DEF RuleFails
<1>32. ASSUME NEW r \in Runs, ToolExits(r) PROVE left'[q] # "nothing"
  BY <1>32 DEF ToolExits
<1>33. ASSUME NEW r \in Runs, SidecarDies(r) PROVE left'[q] # "nothing"
  BY <1>33 DEF SidecarDies
<1>34. ASSUME NEW r \in Runs, RawStart(r) PROVE left'[q] # "nothing"
  BY <1>34 DEF RawStart
<1>35. ASSUME NEW r \in Runs, TempSweep(r) PROVE left'[q] # "nothing"
  BY <1>35 DEF TempSweep
<1>36. ASSUME Reboot PROVE left'[q] # "nothing"
  BY <1>36 DEF Reboot
<1>37. CASE UNCHANGED vars
  BY <1>37 DEF vars
<1>38. QED BY <1>1, <1>2, <1>3, <1>4, <1>5, <1>6, <1>7, <1>8, <1>9, <1>10, <1>11,
     <1>12, <1>13, <1>14, <1>14a, <1>14b, <1>15, <1>16, <1>17, <1>18, <1>19, <1>20,
     <1>21, <1>22,
     <1>23, <1>24, <1>25, <1>26, <1>27, <1>28, <1>29, <1>30, <1>31, <1>32, <1>33,
     <1>34, <1>35, <1>36, <1>37 DEF Next, Work, BuildStep, TeardownStep, ManageStep,
     Environment

\* All files present is what the mounts of the tool need.
LEMMA MountsAreFiles ==
    ASSUME TypeOK, NEW r \in Runs
    PROVE  HaveMounts(r) <=> \A f \in AllFiles : HasFile(r, f)
<1>1. AllFiles = AllFix \cup {NFix + 1} /\ NFix + 1 \notin AllFix
  BY FileCount DEF AllFiles
<1>2. fix[r] \subseteq AllFix
  BY DEF TypeOK
<1>3. QED BY <1>1, <1>2 DEF HaveMounts, HasFile

\* A tool loses a mount only to a Teardown that goes on to remove it.
LEMMA MountStep ==
    ASSUME TypeOK, TypeOK', [Next]_vars, IdleInv, CreatedInv, PairWhole, RmSweeps,
           WrittenInv, MountInv
    PROVE  MountInv'
<1> SUFFICES ASSUME Faults \cap {"crash", "reboot", "sweep"} = {}, NEW r \in Runs,
                    ToolExists(r)', ~HaveMounts(r)'
             PROVE  \E p \in Procs : TargetOf(p)' = r /\ Undone(p)'
  BY DEF MountInv
<1>1. "sweep" \notin Faults /\ {"crash", "reboot"} \cap Faults = {}
  OBVIOUS
<1>2. HaveMounts(r)' <=> \A f \in AllFiles : HasFile(r, f)'
  <2>1. AllFiles = AllFix \cup {NFix + 1} /\ NFix + 1 \notin AllFix
    BY FileCount DEF AllFiles
  <2>2. fix'[r] \subseteq AllFix
    BY DEF TypeOK
  <2>3. QED BY <2>1, <2>2 DEF HaveMounts, HasFile
<1>3. ToolExists(r)
  <2>1. SUFFICES ASSUME ~ToolExists(r) PROVE FALSE
    OBVIOUS
  <2>2. PICK p \in Procs : TargetOf(p) = r /\ RunTool(p)
    <3>1. PairMoves(r)
      BY PairStep
    <3>2. QED BY <2>1, <3>1 DEF PairMoves, ToolExists, Up
  <2>3. pc[p] = "tool" /\ UNCHANGED files
    BY <2>2, CalledStep DEF Called, files
  <2>4. \A f \in AllFiles : HasFile(r, f)
    BY <1>1, <2>2, <2>3 DEF WrittenInv, Written, Ready
  <2>5. \A f \in AllFiles : HasFile(r, f)'
    BY <2>3, <2>4 DEF HasFile, files
  <2>6. QED BY <1>2, <2>5
<1>4. ASSUME NEW p \in Procs, TargetOf(p) = r, pc[p] = "sweep", Sweep(p)
      PROVE  TargetOf(p)' = r /\ Undone(p)'
  <2>1. job[p].verb # "rm"
    BY <1>3, <1>4 DEF PairWhole, RmSweeps, SidecarExists
  <2>2. pc'[p] \in {"sweep", "tdTool"} /\ UNCHANGED job
    BY <1>4, <2>1, SweepDoes DEF AfterSweep
  <2>3. QED BY <1>4, <2>2 DEF Undone
<1>5. CASE HaveMounts(r)
  <2>1. PICK f \in AllFiles : HasFile(r, f) /\ ~HasFile(r, f)'
    BY <1>2, <1>5, MountsAreFiles
  <2>2. PICK p \in Procs : TargetOf(p) = r /\ Sweep(p)
    BY <1>1, <2>1, FileMovesStep DEF FileMoves
  <2>3. QED BY <1>4, <2>2, SweepDoes
<1>6. ASSUME NEW p \in Procs, TargetOf(p) = r, Undone(p)
      PROVE  TargetOf(p)' = r /\ Undone(p)'
  <2>1. CASE left[p] # "nothing"
    <3>1. left'[p] # "nothing"
      BY <2>1, LeftStays
    <3>2. ~Launch(p)
      <4>1. Launch(p) => left[p] = left'[p] /\ pc[p] = "idle"
        BY LaunchDoes DEF ends
      <4>2. QED BY <2>1, <4>1 DEF IdleInv
    <3>3. QED BY <1>6, <3>1, <3>2, JobStays DEF Undone
  <2>2. CASE pc[p] = "sweep"
    <3>1. CASE Stays(p)
      BY <1>6, <2>2, <3>1, JobStays, LaunchDoes DEF Undone, Stays
    <3>2. CASE Sweep(p)
      BY <1>4, <1>6, <2>2, <3>2
    <3>3. ~KilledNow(p)
      BY <1>1 DEF KilledNow
    <3>4. QED BY <2>2, <3>1, <3>2, <3>3, FromSweep
  <2>3. CASE pc[p] = "tdTool"
    <3>1. StageMoves(p) /\ ~Launch(p) /\ ~KilledNow(p)
      BY <1>1, <2>3, StageStep, LaunchDoes DEF KilledNow
    <3>2. ~EarlyMoves(p) /\ ~ReadyMoves(p) /\ ~Sweep(p)
      BY <2>3, SweepDoes DEF EarlyMoves, Early, BeforeJail, Managing, ReadyMoves, Ready
    <3>3. /\ ~StartDNS(p) /\ ~WriteFix(p) /\ ~StatMachineID(p) /\ ~MintMachineID(p)
          /\ ~Detach(p) /\ ~RemoveSidecar(p) /\ ~RemovePair(p)
      BY <2>3 DEF StartDNS, WriteFix, StatMachineID, MintMachineID, Detach, RemoveSidecar,
                  RemovePair, Goto, Abort
    <3>4. CASE Stays(p)
      BY <1>6, <2>3, <3>1, <3>4, JobStays DEF Undone, Stays
    <3>5. CASE RemoveTool(p)
      <4>1. TargetOf(p)' = r
        BY <1>6, <3>1, JobStays
      <4>2. left'[p] # "nothing" \/ tool'[r] = "removed" \/ ~ToolExists(r)'
        BY <1>6, <3>5 DEF RemoveTool, ToolRemoved, Leaves, ToolExists, Up, TypeOK
      <4>3. QED BY <4>1, <4>2 DEF Undone, ToolExists, Up
    <3>6. QED BY <3>1, <3>2, <3>3, <3>4, <3>5 DEF StageMoves
  <2>4. QED BY <1>6, <2>1, <2>2, <2>3 DEF Undone
<1>7. QED BY <1>1, <1>3, <1>5, <1>6 DEF MountInv

\* A running sidecar stops by itself, with the host, or at the hand of a command.
StopMoves(r) ==
    sidecar[r] = "running" /\ sidecar'[r] # "running" =>
        \/ "die" \in Faults
        \/ \A p \in Procs : pc'[p] \in {"idle"} \cup Finished
        \/ \E p \in Procs : pc[p] \in {"sidecar", "stop", "tdSidecar", "rmPair"}

LEMMA StopStep ==
    ASSUME TypeOK, [Next]_vars
    PROVE  \A r \in Runs : StopMoves(r)
<1> SUFFICES ASSUME NEW s \in Runs PROVE StopMoves(s)
  OBVIOUS
<1>a. ASSUME UNCHANGED sidecar PROVE StopMoves(s)
  BY <1>a DEF StopMoves
<1>1. ASSUME NEW p \in Procs, Launch(p) PROVE StopMoves(s)
  BY <1>1, <1>a DEF Launch, conts
<1>2. ASSUME NEW p \in Procs, ResolveTool(p) PROVE StopMoves(s)
  BY <1>2, <1>a DEF ResolveTool, conts
<1>3. ASSUME NEW p \in Procs, FindHelper(p) PROVE StopMoves(s)
  BY <1>3, <1>a DEF FindHelper, conts
<1>4. ASSUME NEW p \in Procs, Reconcile(p) PROVE StopMoves(s)
  BY <1>4, <1>a DEF Reconcile, conts
<1>5. ASSUME NEW p \in Procs, CreateSidecar(p) PROVE StopMoves(s)
  BY <1>5 DEF CreateSidecar, Goto, Abort, StopMoves
<1>6. ASSUME NEW p \in Procs, ReviveSidecar(p) PROVE StopMoves(s)
  BY <1>6, <1>a, TargetIsRun DEF ReviveSidecar, Revive, StopMoves, TypeOK, conts
<1>7. ASSUME NEW p \in Procs, ProbeV4(p) PROVE StopMoves(s)
  BY <1>7, <1>a DEF ProbeV4, conts
<1>8. ASSUME NEW p \in Procs, ProbeV6(p) PROVE StopMoves(s)
  BY <1>8, <1>a DEF ProbeV6, conts
<1>9. ASSUME NEW p \in Procs, StartDNS(p) PROVE StopMoves(s)
  BY <1>9, <1>a DEF StartDNS, conts
<1>10. ASSUME NEW p \in Procs, WriteFix(p) PROVE StopMoves(s)
  BY <1>10, <1>a DEF WriteFix, conts
<1>11. ASSUME NEW p \in Procs, StatMachineID(p) PROVE StopMoves(s)
  BY <1>11, <1>a DEF StatMachineID, conts
<1>12. ASSUME NEW p \in Procs, MintMachineID(p) PROVE StopMoves(s)
  BY <1>12, <1>a DEF MintMachineID, conts
<1>13. ASSUME NEW p \in Procs, OpenReachback(p) PROVE StopMoves(s)
  BY <1>13, <1>a, TargetIsRun DEF OpenReachback, Revive, StopMoves, TypeOK, conts
<1>14. ASSUME NEW p \in Procs, CloseReachback(p) PROVE StopMoves(s)
  BY <1>14, <1>a DEF CloseReachback, conts
<1>14a. ASSUME NEW p \in Procs, OpenDirect(p) PROVE StopMoves(s)
  BY <1>14a, <1>a, TargetIsRun DEF OpenDirect, Revive, StopMoves, TypeOK, conts
<1>14b. ASSUME NEW p \in Procs, CloseDirect(p) PROVE StopMoves(s)
  BY <1>14b, <1>a DEF CloseDirect, conts
<1>15. ASSUME NEW p \in Procs, RunTool(p) PROVE StopMoves(s)
  BY <1>15, <1>a, MakingStep, TargetIsRun DEF Making, Revive, StopMoves, TypeOK
<1>16. ASSUME NEW p \in Procs, StartTool(p) PROVE StopMoves(s)
  BY <1>16, <1>a, MakingStep, TargetIsRun DEF Making, Revive, StopMoves, TypeOK
<1>17. ASSUME NEW p \in Procs, Detach(p) PROVE StopMoves(s)
  BY <1>17, <1>a DEF Detach, conts
<1>18. ASSUME NEW p \in Procs, Sweep(p) PROVE StopMoves(s)
  BY <1>18, <1>a DEF Sweep, conts
<1>19. ASSUME NEW p \in Procs, RemoveTool(p) PROVE StopMoves(s)
  BY <1>19, <1>a DEF RemoveTool, conts
<1>20. ASSUME NEW p \in Procs, RemoveSidecar(p) PROVE StopMoves(s)
  BY <1>20 DEF RemoveSidecar, Goto, Abort, StopMoves
<1>21. ASSUME NEW p \in Procs, Guard(p) PROVE StopMoves(s)
  BY <1>21, <1>a DEF Guard, conts
<1>22. ASSUME NEW p \in Procs, StopNamed(p) PROVE StopMoves(s)
  BY <1>22 DEF StopNamed, Goto, Abort, StopMoves
<1>23. ASSUME NEW p \in Procs, RemovePair(p) PROVE StopMoves(s)
  BY <1>23 DEF RemovePair, Goto, Abort, StopMoves
<1>24. ASSUME NEW p \in Procs, CheckSidecar(p) PROVE StopMoves(s)
  BY <1>24, <1>a DEF CheckSidecar, conts
<1>25. ASSUME NEW p \in Procs, CheckNamed(p) PROVE StopMoves(s)
  BY <1>25, <1>a DEF CheckNamed, conts
<1>26. ASSUME NEW p \in Procs, Exec(p) PROVE StopMoves(s)
  BY <1>26, <1>a DEF Exec, conts
<1>27. ASSUME NEW p \in Procs, ProbeEnds(p) PROVE StopMoves(s)
  BY <1>27, <1>a DEF ProbeEnds, conts
<1>28. ASSUME NEW p \in Procs, Interrupt(p) PROVE StopMoves(s)
  BY <1>28, <1>a DEF Interrupt, conts
<1>29. ASSUME NEW p \in Procs, Kill(p) PROVE StopMoves(s)
  BY <1>29, <1>a DEF Kill, conts
<1>30. ASSUME NEW r \in Runs, ApplyRules(r) PROVE StopMoves(s)
  BY <1>30, <1>a DEF ApplyRules, conts
<1>31. ASSUME NEW r \in Runs, RuleFails(r) PROVE StopMoves(s)
  BY <1>31, <1>a DEF RuleFails, conts
<1>32. ASSUME NEW r \in Runs, ToolExits(r) PROVE StopMoves(s)
  BY <1>32, <1>a DEF ToolExits, conts
<1>33. ASSUME NEW r \in Runs, SidecarDies(r) PROVE StopMoves(s)
  BY <1>33 DEF SidecarDies, StopMoves
<1>34. ASSUME NEW r \in Runs, RawStart(r) PROVE StopMoves(s)
  BY <1>34, <1>a DEF RawStart, Revive, StopMoves, TypeOK
<1>35. ASSUME NEW r \in Runs, TempSweep(r) PROVE StopMoves(s)
  BY <1>35, <1>a DEF TempSweep, conts
<1>36. ASSUME Reboot PROVE StopMoves(s)
  BY <1>36 DEF Reboot, StopMoves, Active, Finished, TypeOK
<1>37. CASE UNCHANGED vars
  BY <1>37, <1>a DEF vars
<1>38. QED BY <1>1, <1>2, <1>3, <1>4, <1>5, <1>6, <1>7, <1>8, <1>9, <1>10, <1>11,
     <1>12, <1>13, <1>14, <1>14a, <1>14b, <1>15, <1>16, <1>17, <1>18, <1>19, <1>20,
     <1>21, <1>22,
     <1>23, <1>24, <1>25, <1>26, <1>27, <1>28, <1>29, <1>30, <1>31, <1>32, <1>33,
     <1>34, <1>35, <1>36, <1>37 DEF Next, Work, BuildStep, TeardownStep, ManageStep,
     Environment

\* Nobody stops the sidecar between the checks of an exec and its podman call.
LEMMA EnterStep ==
    ASSUME TypeOK, [Next]_vars, AloneInv, EnterInv
    PROVE  EnterInv'
<1> SUFFICES ASSUME "die" \notin Faults, NEW q \in Procs, pc'[q] \in {"xNamed", "xRun"}
             PROVE  sidecar'[TargetOf(q)'] = "running"
  BY DEF EnterInv
<1>1. ~Launch(q) /\ StageMoves(q) /\ TargetOf(q) \in Runs
  BY LaunchDoes, StageStep, TargetIsRun
<1>2. TargetOf(q)' = TargetOf(q)
  BY <1>1, JobStays
<1>3. SUFFICES sidecar'[TargetOf(q)] = "running"
  BY <1>2
<1>4. CASE Stays(q)
  <2>1. sidecar[TargetOf(q)] = "running"
    BY <1>4 DEF EnterInv, Stays
  <2>2. SUFFICES ASSUME sidecar'[TargetOf(q)] # "running" PROVE FALSE
    OBVIOUS
  <2>3. pc'[q] \notin {"idle"} \cup Finished
    BY DEF Finished
  <2>4. PICK p \in Procs : pc[p] \in {"sidecar", "stop", "tdSidecar", "rmPair"}
    BY <1>1, <2>1, <2>2, <2>3, StopStep DEF StopMoves
  <2>5. p = q
    BY <1>1, <2>3, <2>4, OnlyOne DEF Finished
  <2>6. QED BY <1>4, <2>4, <2>5 DEF Stays
<1>5. CASE EarlyMoves(q)
  BY <1>5 DEF EarlyMoves, EnterInv
<1>6. ~ReadyMoves(q) /\ ~KilledNow(q) /\ ~Sweep(q) /\ ~WriteFix(q)
  BY SweepDoes, WriteFixDoes DEF ReadyMoves, Ready, KilledNow, AfterSweep, ToTeardown
<1>7. /\ ~StartDNS(q) /\ ~StatMachineID(q) /\ ~MintMachineID(q) /\ ~Detach(q)
      /\ ~RemoveTool(q) /\ ~RemoveSidecar(q) /\ ~RemovePair(q)
  BY DEF StartDNS, StatMachineID, MintMachineID, Detach, RemoveTool, RemoveSidecar,
         RemovePair, Goto, Abort, ToTeardown, AfterFiles, AfterReach, AfterRm,
         AfterRmError, TypeOK
<1>8. QED BY <1>1, <1>4, <1>5, <1>6, <1>7 DEF StageMoves

-----------------------------------------------------------------------------
(***************************************************************************)
(* The theorems about one command at a time.                               *)
(***************************************************************************)
SequentialInv ==
    /\ AloneInv /\ HeldInv /\ SweptInv /\ OrphanInv /\ EndedInv
    /\ MintInv /\ WrittenInv /\ MountInv /\ EnterInv

\* The inductive invariant of commands that follow one another.
LEMMA SequentialInvariant ==
    ASSUME MaxActive = 1
    PROVE  Spec => []SequentialInv
<1> DEFINE Known == TypeOK /\ JailInv /\ FilesInv
<1>1. Init => SequentialInv
  <2> SUFFICES ASSUME Init PROVE SequentialInv
    OBVIOUS
  <2>1. \A p \in Procs : pc[p] = "idle" /\ ~Active(p)
    BY DEF Init, Active
  <2>2. AloneInv
    <3>1. {p \in Procs : Active(p)} = {}
      BY <2>1
    <3>2. QED BY <2>1, <3>1, FS_EmptySet DEF AloneInv, Alone
  <2>3. \A r \in Runs, f \in AllFiles : ~HasFile(r, f)
    BY DEF Init, HasFile
  <2>4. HeldInv /\ SweptInv /\ MintInv /\ WrittenInv /\ EnterInv
    BY <2>1 DEF HeldInv, Holds, Building, SweptInv, Swept, MintInv, Mints, WrittenInv,
                Written, Ready, EnterInv
  <2>5. OrphanInv /\ EndedInv
    BY <2>1, <2>3 DEF OrphanInv, EndedInv, EndedEphemeral
  <2>6. MountInv
    BY DEF Init, MountInv, ToolExists, Up
  <2>7. QED BY <2>2, <2>4, <2>5, <2>6 DEF SequentialInv
<1>2. Known /\ Known' /\ SequentialInv /\ [Next]_vars => SequentialInv'
  <2> SUFFICES ASSUME Known, Known', SequentialInv, [Next]_vars PROVE SequentialInv'
    OBVIOUS
  <2> USE DEF JailInv, FilesInv, SequentialInv
  <2>1. AloneInv'
    BY AloneStep
  <2>2. HeldInv'
    BY HeldStep
  <2>3. SweptInv' /\ OrphanInv'
    BY SweptStep, OrphanStep
  <2>4. EndedInv'
    BY EndedFilesStep
  <2>5. MintInv' /\ WrittenInv'
    BY MintStep, WrittenStep
  <2>6. MountInv' /\ EnterInv'
    BY MountStep, EnterStep
  <2>7. QED BY <2>1, <2>2, <2>3, <2>4, <2>5, <2>6
<1>3. Spec => []Known
  BY JailInvariant, FilesInvariant, PTL
<1>4. QED BY <1>1, <1>2, <1>3, PTL DEF Spec

\* CrashResidue, with one command at a time and files that can be removed: of all
\* that may be killed, fail or be rebooted, only an `rm` leaves files without a
\* pair, one that was killed after podman's removal or whose podman failed in it.
THEOREM CrashResidueHolds ==
    ASSUME MaxActive = 1, "unlink" \notin Faults
    PROVE  Spec => []CrashResidue
<1>1. TypeOK /\ SequentialInv => CrashResidue
  <2> SUFFICES ASSUME TypeOK, SequentialInv, NEW r \in Runs, Orphaned(r)
               PROVE  \E p \in Procs : TargetOf(p) = r /\ (FailedRm(p) \/ KilledRm(p))
    BY DEF CrashResidue
  <2>1. AtRest(r) /\ ~SidecarExists(r) /\ ~NoFiles(r)
    BY DEF Orphaned
  <2>2. PICK f \in AllFiles : HasFile(r, f)
    BY <2>1, FilesOfRun
  <2>3. PICK p \in Procs : TargetOf(p) = r /\ LeavesFile(p, f)
    BY <2>1, <2>2 DEF SequentialInv, OrphanInv
  <2>4. pc[p] # "sweep"
    BY <2>1, <2>3 DEF AtRest, Active, Finished
  <2>5. QED BY <2>3, <2>4 DEF LeavesFile, FailedRm, KilledRm
<1>2. QED BY <1>1, JailInvariant, SequentialInvariant, PTL

\* A command is killed only by the host or the user.
LEMMA NobodyKilled ==
    ASSUME {"crash", "reboot"} \cap Faults = {}
    PROVE  Spec => [](\A p \in Procs : pc[p] # "killed")
<1> DEFINE NK == \A p \in Procs : pc[p] # "killed"
<1>1. Init => NK
  BY DEF Init
<1>2. TypeOK /\ NK /\ [Next]_vars => NK'
  <2> SUFFICES ASSUME TypeOK, NK, [Next]_vars, NEW q \in Procs, pc'[q] = "killed"
               PROVE  FALSE
    OBVIOUS
  <2>1. StageMoves(q)
    BY StageStep
  <2>2. ~KilledNow(q) /\ ~Stays(q) /\ ~Launch(q) /\ ~EarlyMoves(q) /\ ~ReadyMoves(q)
    BY LaunchDoes DEF KilledNow, Stays, EarlyMoves, Early, BeforeJail, Managing,
                      ReadyMoves, Ready
  <2>3. ~WriteFix(q) /\ ~Sweep(q)
    BY WriteFixDoes, SweepDoes DEF ToTeardown, AfterSweep
  <2>4. /\ ~StartDNS(q) /\ ~StatMachineID(q) /\ ~MintMachineID(q) /\ ~Detach(q)
        /\ ~RemoveTool(q) /\ ~RemoveSidecar(q) /\ ~RemovePair(q)
    BY DEF StartDNS, StatMachineID, MintMachineID, Detach, RemoveTool, RemoveSidecar,
           RemovePair, Goto, Abort, ToTeardown, AfterFiles, AfterReach, AfterRm,
           AfterRmError, TypeOK
  <2>5. QED BY <2>1, <2>2, <2>3, <2>4 DEF StageMoves
<1>3. QED BY <1>1, <1>2, TypeCorrect, PTL DEF Spec

\* FilesHavePair, with one command at a time, none of them killed, and files that
\* can be removed: whatever else fails or is interrupted, the bind-mount files
\* outlive their pair only where podman failed, or was stopped, in an `rm`.
THEOREM FilesHavePairHolds ==
    ASSUME MaxActive = 1, {"crash", "reboot", "unlink"} \cap Faults = {}
    PROVE  Spec => []FilesHavePair
<1>1. "unlink" \notin Faults /\ {"crash", "reboot"} \cap Faults = {}
  OBVIOUS
<1>2. CrashResidue /\ (\A p \in Procs : pc[p] # "killed") => FilesHavePair
  BY DEF CrashResidue, FilesHavePair, KilledRm
<1>3. Spec => []CrashResidue
  BY <1>1, CrashResidueHolds
<1>4. Spec => [](\A p \in Procs : pc[p] # "killed")
  BY <1>1, NobodyKilled
<1>5. QED BY <1>2, <1>3, <1>4, PTL

\* EphemeralNoResidue, with one command at a time and files that can be removed:
\* an ephemeral command that ended, however, has left neither container nor file.
THEOREM EphemeralNoResidueHolds ==
    ASSUME MaxActive = 1, "unlink" \notin Faults
    PROVE  Spec => []EphemeralNoResidue
<1>1. EphemeralGone /\ SequentialInv => EphemeralNoResidue
  BY DEF EphemeralGone, SequentialInv, EndedInv, EphemeralNoResidue
<1>2. QED BY <1>1, EphemeralGoneHolds, SequentialInvariant, PTL

\* KeptPairRestartable, with one command at a time, none killed, and the temp
\* directory left alone: podman alone can bring a pair at rest up again.
THEOREM KeptPairRestartableHolds ==
    ASSUME MaxActive = 1, Faults \cap {"crash", "reboot", "sweep"} = {}
    PROVE  Spec => []KeptPairRestartable
<1>1. SequentialInv => KeptPairRestartable
  <2> SUFFICES ASSUME SequentialInv, NEW r \in Runs, AtRest(r), ToolExists(r), ~HaveMounts(r)
               PROVE  \E p \in Procs : TargetOf(p) = r /\ left[p] # "nothing"
    BY DEF KeptPairRestartable
  <2>1. PICK p \in Procs : TargetOf(p) = r /\ Undone(p)
    BY DEF SequentialInv, MountInv
  <2>2. pc[p] \notin {"sweep", "tdTool"}
    BY <2>1 DEF AtRest, Active, Finished
  <2>3. QED BY <2>1, <2>2 DEF Undone
<1>2. QED BY <1>1, SequentialInvariant, PTL

\* MachineIdStable, with one command at a time: whatever else goes wrong, the
\* machine id of a run is never replaced by another one.
THEOREM MachineIdStableHolds ==
    ASSUME MaxActive = 1
    PROVE  Spec => MachineIdStable
<1> DEFINE Keeps == \A r \in Runs : mid[r] # 0 /\ mid'[r] # 0 => mid'[r] = mid[r]
<1>1. TypeOK /\ SequentialInv /\ [Next]_vars => [Keeps]_vars
  <2> SUFFICES ASSUME TypeOK, SequentialInv, [Next]_vars,
                      NEW r \in Runs, mid[r] # 0, mid'[r] # 0
               PROVE  mid'[r] = mid[r]
    OBVIOUS
  <2>1. CASE UNCHANGED files
    BY <2>1 DEF files
  <2>2. ASSUME NEW p \in Procs, WriteFix(p) PROVE mid'[r] = mid[r]
    BY <2>2 DEF WriteFix
  <2>3. ASSUME NEW p \in Procs, MintMachineID(p) PROVE mid'[r] = mid[r]
    <3>1. pc[p] = "mid" /\ TargetOf(p) \in Runs
      BY <2>3, TargetIsRun DEF MintMachineID, Goto, Abort
    <3>2. TargetOf(p) # r
      BY <3>1 DEF SequentialInv, MintInv, Mints
    <3>3. QED BY <2>3, <3>1, <3>2 DEF MintMachineID, Mint, TypeOK
  <2>4. ASSUME NEW p \in Procs, Sweep(p) PROVE mid'[r] = mid[r]
    BY <2>4, TargetIsRun DEF Sweep, TypeOK
  <2>5. ASSUME NEW s \in Runs, TempSweep(s) PROVE mid'[r] = mid[r]
    BY <2>5 DEF TempSweep, TypeOK
  <2>6. QED BY <2>1, <2>2, <2>3, <2>4, <2>5, FileStepsOnly DEF FileSteps
<1>2. QED BY <1>1, TypeCorrect, SequentialInvariant, PTL DEF Spec, MachineIdStable

\* ExecInsideJail, with one command at a time and a sidecar that does not die by
\* itself: an exec into the tool finds the sidecar that it checked.
THEOREM ExecInsideJailHolds ==
    ASSUME MaxActive = 1, "die" \notin Faults
    PROVE  Spec => ExecInsideJail
<1> DEFINE Inside == \A p \in Procs : Entered(p) /\ job[p].name = "tool"
                        => sidecar[TargetOf(p)] = "running"
<1>1. SequentialInv => Inside
  BY DEF SequentialInv, EnterInv, Entered
<1>2. QED BY <1>1, SequentialInvariant, PTL DEF Spec, ExecInsideJail
-----------------------------------------------------------------------------
(***************************************************************************)
(* Commands on one pair at the same time.                                  *)
(***************************************************************************)
\* A run or a start that got past its refusals: it may have written files.
Committed(q) == JailJob(q) /\ pc[q] \notin {"idle"} \cup BeforeJail /\ outcome[q] # "refused"

\* The tool of the pair, if it ever ran, was brought up by somebody else.
Toolless(q) == launcher[TargetOf(q)] # q

\* A command that removes pairs, on its way out.
Leaving(p) == Removes(p) /\ pc[p] \in TearingDown \cup Finished

\* A pair that is gone was removed by one of these.
RemovedByInv == \A r \in Runs :
    sidecar[r] = "removed" => \E p \in Procs : TargetOf(p) = r /\ Leaving(p)

\* What a Teardown has swept is there again only if somebody else wrote it.
LateInv == \A p \in Procs, f \in AllFiles :
    Swept(p, f) /\ JailJob(p) /\ HasFile(TargetOf(p), f) =>
        \E q \in Procs : q # p /\ TargetOf(q) = TargetOf(p) /\ Committed(q)

\* A file without a sidecar: an `rm` is still to sweep it, or its podman failed, or
\* one command removed the pair while another wrote.
StillToSweep(p, f) == job[p].verb = "rm" /\ pc[p] = "sweep" /\ at[p] <= f
RmFailed(p) == FailedRm(p) /\ pc[p] \in Finished
WroteBeside(p, q) ==
    /\ p # q /\ Leaving(p) /\ Committed(q)
    /\ job[p].verb = "rm" => Toolless(q)
StrayInv == \A r \in Runs, f \in AllFiles : HasFile(r, f) /\ ~SidecarExists(r) =>
    \/ \E p \in Procs : TargetOf(p) = r /\ (StillToSweep(p, f) \/ RmFailed(p))
    \/ \E p, q \in Procs : /\ TargetOf(p) = r /\ TargetOf(q) = r
                           /\ WroteBeside(p, q)

ConcurrentInv == RemovedByInv /\ LateInv /\ StrayInv

\* A command on its way out goes on, and its outcome stands.
LEMMA LeavingStays ==
    ASSUME TypeOK, [Next]_vars, NEW p \in Procs, pc[p] \in TearingDown \cup Finished
    PROVE  /\ pc'[p] \in TearingDown \cup Finished /\ outcome'[p] = outcome[p]
           /\ job'[p] = job[p] /\ TargetOf(p)' = TargetOf(p)
<1>1. job'[p] = job[p]
  BY LaunchDoes, JobStays DEF TearingDown, Finished
<1>2. CASE pc[p] \in Finished
  BY <1>1, <1>2, FromFinished DEF Stays
<1>3. CASE pc[p] = "sweep"
  <2>1. CASE Stays(p) \/ KilledNow(p)
    BY <1>1, <1>3, <2>1 DEF Stays, KilledNow, TearingDown, Finished
  <2>2. CASE Sweep(p)
    BY <1>1, <2>2, SweepDoes DEF AfterSweep, TearingDown, Finished
  <2>3. QED BY <1>3, <2>1, <2>2, FromSweep
<1>4. CASE pc[p] \in {"tdTool", "tdSidecar"}
  <2>1. StageMoves(p)
    BY StageStep
  <2>2. ~EarlyMoves(p) /\ ~ReadyMoves(p) /\ ~Launch(p) /\ ~Sweep(p)
    BY <1>4, LaunchDoes, SweepDoes DEF EarlyMoves, Early, BeforeJail, Managing, ReadyMoves, Ready
  <2>3. /\ ~StartDNS(p) /\ ~WriteFix(p) /\ ~StatMachineID(p) /\ ~MintMachineID(p)
        /\ ~Detach(p) /\ ~RemovePair(p)
    BY <1>4 DEF StartDNS, WriteFix, StatMachineID, MintMachineID, Detach, RemovePair,
                Goto, Abort
  <2>4. CASE RemoveTool(p) \/ RemoveSidecar(p)
    BY <1>1, <2>4 DEF RemoveTool, RemoveSidecar, Goto, TearingDown, Finished, TypeOK
  <2>5. CASE Stays(p) \/ KilledNow(p)
    BY <1>1, <1>4, <2>5 DEF Stays, KilledNow, TearingDown, Finished
  <2>6. QED BY <2>1, <2>2, <2>3, <2>4, <2>5 DEF StageMoves
<1>5. QED BY <1>2, <1>3, <1>4 DEF TearingDown

\* So it stays a command that removed.
LEMMA LeavingOn ==
    ASSUME TypeOK, [Next]_vars, NEW p \in Procs, Leaving(p)
    PROVE  Leaving(p)' /\ TargetOf(p)' = TargetOf(p) /\ job'[p] = job[p]
<1>1. pc[p] \in TearingDown \cup Finished
  BY DEF Leaving
<1>2. QED BY <1>1, LeavingStays DEF Leaving, Removes

\* Past its refusals a run or a start is not refused any more.
LEMMA CommittedStays ==
    ASSUME TypeOK, [Next]_vars, PathInv, NEW q \in Procs, Committed(q)
    PROVE  Committed(q)' /\ TargetOf(q)' = TargetOf(q)
<1>1. JailJob(q) /\ pc[q] \notin {"idle"} \cup BeforeJail /\ outcome[q] # "refused"
  BY DEF Committed
<1>2. job'[q] = job[q] /\ TargetOf(q)' = TargetOf(q) /\ ~Launch(q)
  BY <1>1, LaunchDoes, JobStays
<1>3. JailJob(q)'
  BY <1>1, <1>2 DEF JailJob, RunJob, StartJob
<1>4. SUFFICES pc'[q] \notin {"idle"} \cup BeforeJail /\ outcome'[q] # "refused"
  BY <1>2, <1>3 DEF Committed
<1>5. StageMoves(q) /\ pc[q] \notin {"guard"} \cup Managing
  BY <1>1, StageStep DEF PathInv
<1>6. CASE Stays(q) \/ KilledNow(q)
  BY <1>1, <1>6 DEF Stays, KilledNow, BeforeJail
<1>7. CASE EarlyMoves(q)
  BY <1>1, <1>5, <1>7 DEF EarlyMoves, Early, Building, BeforeJail
<1>8. CASE ReadyMoves(q)
  BY <1>1, <1>8 DEF ReadyMoves, Ready, BeforeJail
<1>9. CASE \/ StartDNS(q) \/ WriteFix(q) \/ StatMachineID(q) \/ MintMachineID(q)
           \/ Detach(q)
  BY <1>1, <1>9 DEF StartDNS, WriteFix, StatMachineID, MintMachineID, Detach, Goto, Abort,
                    ToTeardown, AfterFiles, AfterReach, End, BeforeJail, TypeOK
<1>10. CASE Sweep(q) \/ RemoveTool(q) \/ RemoveSidecar(q)
  <2>1. pc[q] \in TearingDown \cup Finished
    BY <1>10 DEF Sweep, RemoveTool, RemoveSidecar, Goto, TearingDown
  <2>2. QED BY <1>1, <2>1, LeavingStays DEF TearingDown, Finished, BeforeJail
<1>11. ~RemovePair(q)
  BY <1>5 DEF RemovePair, Goto, Managing
<1>12. QED BY <1>2, <1>5, <1>6, <1>7, <1>8, <1>9, <1>10, <1>11 DEF StageMoves

\* Without a pair nobody brings the tool up any more.
LEMMA ToollessStays ==
    ASSUME TypeOK, [Next]_vars, PathInv, CreatedInv, NEW q \in Procs, Committed(q),
           Toolless(q), ~SidecarExists(TargetOf(q))
    PROVE  Toolless(q)'
<1>1. ToolMoves(TargetOf(q))
  BY ToolMovesStep, TargetIsRun
<1>2. launcher'[TargetOf(q)] = launcher[TargetOf(q)]
  BY <1>1 DEF ToolMoves, Entering
<1>3. TargetOf(q)' = TargetOf(q)
  BY CommittedStays
<1>4. QED BY <1>2, <1>3 DEF Toolless

\* A file that appears makes its writer one of these.
LEMMA WriterCommits ==
    ASSUME TypeOK, TypeOK', [Next]_vars, PathInv, CreatedInv, LauncherInv,
           NEW r \in Runs, NEW f \in AllFiles, HasFile(r, f)', ~HasFile(r, f)
    PROVE  \E q \in Procs : /\ TargetOf(q) = r /\ TargetOf(q)' = r
                            /\ pc[q] \in {"fix", "mid"}
                            /\ Committed(q)' /\ Toolless(q)' /\ sidecar[r] # "absent"
<1>1. PICK q \in Procs : /\ TargetOf(q) = r /\ TargetOf(q)' = r
                         /\ pc[q] \in {"fix", "mid"} /\ UNCHANGED launcher
  BY WriterHolds
<1>2. JailJob(q) /\ outcome[q] # "refused"
  BY <1>1 DEF PathInv, Building, Finished
<1>3. Committed(q)
  BY <1>1, <1>2 DEF Committed, BeforeJail
<1>4. sidecar[r] # "absent"
  BY <1>1 DEF CreatedInv, Building
<1>5. Committed(q)'
  BY <1>3, CommittedStays
<1>6. launcher[r] # q
  BY <1>1 DEF LauncherInv, TearingDown, Finished
<1>7. Toolless(q)'
  BY <1>1, <1>6 DEF Toolless
<1>8. QED BY <1>1, <1>4, <1>5, <1>7

LEMMA RemovedByStep ==
    ASSUME TypeOK, TypeOK', [Next]_vars, PathInv, CreatedInv, RemovedByInv
    PROVE  RemovedByInv'
<1> SUFFICES ASSUME NEW r \in Runs, sidecar'[r] = "removed"
             PROVE  \E p \in Procs : TargetOf(p)' = r /\ Leaving(p)'
  BY DEF RemovedByInv
<1>1. CASE sidecar[r] = "removed"
  BY <1>1, LeavingOn DEF RemovedByInv
<1>2. CASE sidecar[r] = "absent"
  <2>1. PICK p \in Procs : TargetOf(p) = r /\ CreateSidecar(p)
    BY <1>2, PairStep DEF PairMoves
  <2>2. QED BY <1>2, <2>1 DEF CreateSidecar, TypeOK
<1>3. CASE SidecarExists(r)
  <2>1. PICK p \in Procs : TargetOf(p) = r /\ (RemoveSidecar(p) \/ RemovePair(p))
    BY <1>3, LossStep DEF LossMoves, SidecarExists
  <2>2. CASE RemoveSidecar(p)
    <3>1. Leaving(p)
      BY <2>2 DEF RemoveSidecar, Goto, PathInv, Leaving, Removes, JailJob, RunJob, StartJob,
                  TearingDown, Finished
    <3>2. QED BY <2>1, <3>1, LeavingOn
  <2>3. CASE RemovePair(p)
    <3>1. job[p].verb = "rm" /\ job'[p] = job[p]
      BY <2>3, RmDoes DEF PathInv
    <3>2. pc'[p] \in {"sweep", "done"} /\ outcome'[p] # "refused"
      BY <2>3, RmDoes
    <3>3. QED BY <2>1, <3>1, <3>2 DEF Leaving, Removes, TearingDown, Finished
  <2>4. QED BY <2>1, <2>2, <2>3
<1>4. QED BY <1>1, <1>2, <1>3 DEF SidecarExists, TypeOK

LEMMA LateStep ==
    ASSUME TypeOK, TypeOK', [Next]_vars, PathInv, CreatedInv, LauncherInv, CursorAtStart,
           "unlink" \notin Faults, LateInv
    PROVE  LateInv'
<1> SUFFICES ASSUME NEW p \in Procs, NEW f \in AllFiles,
                    Swept(p, f)', JailJob(p)', HasFile(TargetOf(p), f)'
             PROVE  \E q \in Procs : /\ q # p /\ TargetOf(q)' = TargetOf(p)'
                                     /\ Committed(q)'
  BY DEF LateInv, AllFiles
<1>1. Swept(p, f) /\ ~Launch(p)
  BY SweptComes
<1>2. job'[p] = job[p] /\ TargetOf(p)' = TargetOf(p) /\ JailJob(p)
  BY <1>1, JobStays DEF JailJob, RunJob, StartJob
<1>3. PICK r \in Runs : r = TargetOf(p)
  BY TargetIsRun
<1>4. HasFile(r, f)'
  BY <1>2, <1>3
<1>5. CASE HasFile(r, f)
  <2>1. PICK q \in Procs : q # p /\ TargetOf(q) = r /\ Committed(q)
    BY <1>1, <1>2, <1>3, <1>5 DEF LateInv
  <2>2. QED BY <1>2, <1>3, <2>1, CommittedStays
<1>6. CASE ~HasFile(r, f)
  <2>1. PICK q \in Procs : TargetOf(q)' = r /\ pc[q] \in {"fix", "mid"} /\ Committed(q)'
    BY <1>4, <1>6, WriterCommits
  <2>2. q # p
    BY <1>1, <2>1 DEF Swept
  <2>3. QED BY <1>2, <1>3, <2>1, <2>2
<1>7. QED BY <1>5, <1>6

LEMMA StrayStep ==
    ASSUME TypeOK, TypeOK', [Next]_vars, PathInv, CreatedInv, LauncherInv, CursorAtStart,
           {"crash", "reboot", "unlink"} \cap Faults = {}, RemovedByInv, LateInv, StrayInv
    PROVE  StrayInv'
<1> SUFFICES ASSUME NEW r \in Runs, NEW f \in AllFiles,
                    HasFile(r, f)', ~SidecarExists(r)'
             PROVE  \/ \E p \in Procs : TargetOf(p)' = r /\ (StillToSweep(p, f) \/ RmFailed(p))'
                    \/ \E p, q \in Procs : /\ TargetOf(p)' = r /\ TargetOf(q)' = r
                                           /\ WroteBeside(p, q)'
  BY DEF StrayInv, AllFiles
<1>1. CASE SidecarExists(r)
  <2>1. PICK p \in Procs : TargetOf(p) = r /\ (RemoveSidecar(p) \/ RemovePair(p))
    BY <1>1, LossStep DEF LossMoves
  <2>2. job'[p] = job[p] /\ TargetOf(p)' = r
    BY <2>1 DEF RemoveSidecar, RemovePair
  <2>3. CASE RemoveSidecar(p)
    <3>1. pc[p] = "tdSidecar" /\ UNCHANGED files
      BY <2>3 DEF RemoveSidecar, Goto
    <3>2. JailJob(p) /\ Leaving(p) /\ Swept(p, f)
      BY <3>1 DEF PathInv, Leaving, Removes, JailJob, RunJob, StartJob, TearingDown,
                  Finished, Swept
    <3>3. HasFile(r, f)
      BY <3>1 DEF files, HasFile
    <3>4. PICK q \in Procs : q # p /\ TargetOf(q) = r /\ Committed(q)
      BY <2>1, <3>2, <3>3 DEF LateInv
    <3>5. Leaving(p)' /\ Committed(q)' /\ TargetOf(q)' = r
      BY <3>2, <3>4, LeavingOn, CommittedStays
    <3>6. job'[p].verb # "rm"
      BY <2>2, <3>2 DEF JailJob, RunJob, StartJob
    <3>7. WroteBeside(p, q)'
      BY <3>4, <3>5, <3>6 DEF WroteBeside
    <3>8. QED BY <2>2, <3>5, <3>7
  <2>4. CASE RemovePair(p)
    <3>1. /\ pc[p] = "rmPair" /\ UNCHANGED at
          /\ pc'[p] = "sweep" \/ (pc'[p] = "done" /\ outcome'[p] = "failed")
      BY <2>4, RmDoes
    <3>2. job[p].verb = "rm" /\ at[p] = 1
      BY <3>1 DEF PathInv, CursorAtStart
    <3>3. StillToSweep(p, f)' \/ RmFailed(p)'
      BY <2>2, <3>1, <3>2 DEF StillToSweep, RmFailed, FailedRm, Finished, AllFiles
    <3>4. QED BY <2>2, <3>3
  <2>5. QED BY <2>1, <2>3, <2>4
<1>2. CASE ~SidecarExists(r) /\ ~HasFile(r, f)
  <2>1. PICK q \in Procs : /\ TargetOf(q)' = r /\ pc[q] \in {"fix", "mid"}
                           /\ Committed(q)' /\ Toolless(q)' /\ sidecar[r] # "absent"
    BY <1>2, WriterCommits
  <2>2. sidecar[r] = "removed"
    BY <1>2, <2>1 DEF SidecarExists, TypeOK
  <2>3. PICK p \in Procs : TargetOf(p) = r /\ Leaving(p)
    BY <2>2 DEF RemovedByInv
  <2>4. p # q
    BY <2>1, <2>3 DEF Leaving, TearingDown, Finished
  <2>5. Leaving(p)' /\ TargetOf(p)' = r
    BY <2>3, LeavingOn
  <2>6. WroteBeside(p, q)'
    BY <2>1, <2>4, <2>5 DEF WroteBeside
  <2>7. QED BY <2>1, <2>5, <2>6
<1>3. ASSUME NEW p \in Procs, TargetOf(p) = r, StillToSweep(p, f)
      PROVE  TargetOf(p)' = r /\ StillToSweep(p, f)'
  <2>1. pc[p] = "sweep" /\ job[p].verb = "rm" /\ at[p] <= f
    BY <1>3 DEF StillToSweep
  <2>2. job'[p] = job[p] /\ TargetOf(p)' = r
    BY <1>3, <2>1, LeavingStays DEF TearingDown
  <2>3. CASE Stays(p)
    BY <2>1, <2>2, <2>3 DEF Stays, StillToSweep
  <2>4. CASE Sweep(p)
    <3>1. /\ \A g : g = at[p] => ~HasFile(r, g)'
          /\ \/ pc'[p] = "sweep" /\ at'[p] = at[p] + 1
             \/ at[p] = NFix + 1
      BY <1>3, <2>2, <2>4, SweepDoes, FileCount
    <3>2. at[p] \in Nat /\ f \in Nat /\ f <= NFix + 1 /\ NFix \in Nat
      BY CursorIsFile, FileCount DEF AllFiles
    <3>3. f # at[p]
      BY <3>1
    <3>4. pc'[p] = "sweep" /\ at'[p] <= f
      BY <2>1, <3>1, <3>2, <3>3
    <3>5. QED BY <2>1, <2>2, <3>4 DEF StillToSweep
  <2>5. ~KilledNow(p)
    BY DEF KilledNow
  <2>6. QED BY <2>1, <2>3, <2>4, <2>5, FromSweep
<1>4. ASSUME NEW p \in Procs, NEW q \in Procs, TargetOf(p) = r, TargetOf(q) = r,
             WroteBeside(p, q), ~SidecarExists(r)
      PROVE  TargetOf(p)' = r /\ TargetOf(q)' = r /\ WroteBeside(p, q)'
  <2>1. Leaving(p)' /\ TargetOf(p)' = r /\ job'[p] = job[p]
    BY <1>4, LeavingOn DEF WroteBeside
  <2>2. Committed(q)' /\ TargetOf(q)' = r
    BY <1>4, CommittedStays DEF WroteBeside
  <2>3. Toolless(q) => Toolless(q)'
    BY <1>4, ToollessStays DEF WroteBeside
  <2>4. QED BY <1>4, <2>1, <2>2, <2>3 DEF WroteBeside
<1>5. ASSUME NEW p \in Procs, TargetOf(p) = r, RmFailed(p)
      PROVE  TargetOf(p)' = r /\ RmFailed(p)'
  BY <1>5, FromFinished DEF RmFailed, FailedRm, Stays
<1>6. CASE ~SidecarExists(r) /\ HasFile(r, f)
  BY <1>3, <1>4, <1>5, <1>6 DEF StrayInv
<1>7. QED BY <1>1, <1>2, <1>6

\* ResidueExplained, for any number of commands at a time, none of them killed,
\* and files that can be removed: files without a pair are those of an `rm` whose
\* podman failed, or those that one command wrote while another removed the pair;
\* and if that was an `rm`, the writer never got the tool up.
THEOREM ResidueExplainedHolds ==
    ASSUME {"crash", "reboot", "unlink"} \cap Faults = {}
    PROVE  Spec => []ResidueExplained
<1> DEFINE Known == TypeOK /\ JailInv /\ FilesInv
<1>1. Init => ConcurrentInv
  <2> SUFFICES ASSUME Init PROVE ConcurrentInv
    OBVIOUS
  <2>1. \A r \in Runs, f \in AllFiles : ~HasFile(r, f)
    BY DEF Init, HasFile
  <2>2. \A r \in Runs : sidecar[r] # "removed"
    BY DEF Init
  <2>3. \A p \in Procs, f \in AllFiles : ~Swept(p, f)
    BY DEF Init, Swept
  <2>4. QED BY <2>1, <2>2, <2>3 DEF ConcurrentInv, RemovedByInv, LateInv, StrayInv
<1>2. Known /\ Known' /\ ConcurrentInv /\ [Next]_vars => ConcurrentInv'
  <2> SUFFICES ASSUME Known, Known', ConcurrentInv, [Next]_vars PROVE ConcurrentInv'
    OBVIOUS
  <2> USE DEF JailInv, FilesInv, ConcurrentInv
  <2>1. RemovedByInv'
    BY RemovedByStep
  <2>2. LateInv'
    BY LateStep
  <2>3. StrayInv'
    BY StrayStep
  <2>4. QED BY <2>1, <2>2, <2>3
<1>3. Spec => []Known
  BY JailInvariant, FilesInvariant, PTL
<1>4. Known /\ ConcurrentInv => ResidueExplained
  <2> SUFFICES ASSUME Known, ConcurrentInv, NEW r \in Runs, Orphaned(r),
                      ~ \E p \in Procs : TargetOf(p) = r /\ FailedRm(p)
               PROVE  \E p, q \in Procs :
                          /\ p # q /\ TargetOf(p) = r /\ TargetOf(q) = r
                          /\ Removes(p) /\ Wrote(q)
                          /\ job[p].verb = "rm" => launcher[r] # q
    BY DEF ResidueExplained
  <2>1. AtRest(r) /\ ~SidecarExists(r) /\ ~NoFiles(r)
    BY DEF Orphaned
  <2>2. PICK f \in AllFiles : HasFile(r, f)
    BY <2>1, FilesOfRun
  <2>3. ~ \E p \in Procs : TargetOf(p) = r /\ (StillToSweep(p, f) \/ RmFailed(p))
    BY <2>1 DEF AtRest, Active, StillToSweep, RmFailed, Finished
  <2>4. PICK p, q \in Procs : TargetOf(p) = r /\ TargetOf(q) = r /\ WroteBeside(p, q)
    BY <2>1, <2>2, <2>3 DEF ConcurrentInv, StrayInv
  <2>5. Removes(p) /\ Wrote(q)
    BY <2>4 DEF WroteBeside, Leaving, Committed, Wrote, JailJob, RunJob, StartJob
  <2>6. QED BY <2>4, <2>5 DEF WroteBeside, Toolless
<1>5. QED BY <1>1, <1>2, <1>3, <1>4, PTL DEF Spec

=============================================================================
