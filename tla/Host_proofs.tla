---------------------------- MODULE Host_proofs ----------------------------
(***************************************************************************)
(* The promises the commands of one host keep to each other and to the     *)
(* user, for any number of processes, backups and file names, wherever     *)
(* they are killed and whatever fails.                                     *)
(***************************************************************************)
EXTENDS Host, TLAPS

VerifySteps == {"list", "create", "toc", "scratch", "count", "prove", "revoke", "drop"}

\* How far a command is says which of its locals are set.
Shape(j) ==
    /\ j.pc \in {"idle", "clean", "load", "temp", "inspect", "open", "write"} => j.tmp = None
    /\ j.pc \in {"fetch", "dump"} => j.tmp # None
    /\ j.pc # "scratch" => j.toc = None
    /\ j.pc # "clean" => j.todo = {}
    /\ j.made => j.pc \in {"toc", "scratch", "count", "prove", "revoke", "drop"}
    /\ j.pc \in {"toc", "scratch", "count", "prove", "drop"} => j.made
    /\ j.pc \in VerifySteps => j.cmd = "verify"
    /\ j.pc \in {"idle", "unlink"} => j.cmd = "none"
    /\ j.pc = "clean" => j.cmd # "none"
    /\ j.pc = "load" => j.cmd \in {"verify", "restore", "tofile"}
    /\ j.pc \in {"temp", "fetch"} => j.cmd \in {"backup", "verify", "restore"}
    /\ j.pc = "temp" /\ j.cmd # "backup" => j.id # None
    /\ j.pc = "fetch" => j.cmd # "backup"
    /\ j.pc \in VerifySteps \cup {"fetch", "inspect", "into", "open", "write"} => j.id # None
    /\ j.pc \in VerifySteps \ {"revoke", "drop"} => j.id \notin Damaged
    /\ j.pc \in {"inspect", "into"} => j.cmd = "restore"
    /\ j.cmd = "restore" /\ j.pc \in {"inspect", "temp", "fetch", "into"} => j.target # None
    /\ j.cmd # "restore" => j.target = None
    /\ j.pc \in {"idle", "clean", "load", "inspect"} => ~j.clean
    /\ j.clean => j.force
    /\ j.alone => j.cmd = "verify"

\* Every process is somewhere in a command.
ShapeInv == job \in [Procs -> Job] /\ \A p \in Procs : Shape(job[p])

\* A process that does nothing has a shape.
LEMMA IdleIsAJob == Idle \in Job /\ Shape(Idle)
  BY NoneIsNothing DEF Idle, Job, Shape, VerifySteps, Causes

\* A process that becomes j is j, and the others are what they were.
LEMMA BecomesIs ==
    ASSUME ShapeInv, NEW p \in Procs, NEW j, Becomes(p, j)
    PROVE  /\ job'[p] = j
           /\ \A q \in Procs \ {p} : job'[q] = job[q]
           /\ j \in Job /\ Shape(j) => ShapeInv'
  BY DEF ShapeInv, Becomes

\* Neither flag of the history or of the file says anything of the rest.
LEMMA FlagsAreFree ==
    ASSUME NEW j \in Job, Shape(j), NEW b \in BOOLEAN
    PROVE  /\ [j EXCEPT !.alone = FALSE] \in Job /\ Shape([j EXCEPT !.alone = FALSE])
           /\ [j EXCEPT !.mixed = b] \in Job /\ Shape([j EXCEPT !.mixed = b])
  <1> DEFINE Same(k) ==
        /\ k.cmd = j.cmd /\ k.pc = j.pc /\ k.id = j.id /\ k.tmp = j.tmp /\ k.toc = j.toc
        /\ k.todo = j.todo /\ k.target = j.target /\ k.force = j.force
        /\ k.made = j.made /\ k.clean = j.clean
  <1>1. ASSUME NEW k, Same(k), k.alone => j.alone PROVE Shape(k)
    BY <1>1 DEF Shape
  <1>2. Same([j EXCEPT !.alone = FALSE]) /\ ~[j EXCEPT !.alone = FALSE].alone
    BY DEF Job
  <1>3. Same([j EXCEPT !.mixed = b]) /\ ([j EXCEPT !.mixed = b].alone => j.alone)
    BY DEF Job
  <1>4. [j EXCEPT !.alone = FALSE] \in Job /\ [j EXCEPT !.mixed = b] \in Job
    BY DEF Job
  <1> QED
    BY <1>1, <1>2, <1>3, <1>4

\* No step puts a command into a shape it cannot have.
LEMMA ShapeStep == TypeOK /\ ShapeInv /\ [Next]_vars => ShapeInv'
  <1> SUFFICES ASSUME TypeOK, ShapeInv, [Next]_vars PROVE ShapeInv'
    OBVIOUS
  <1>a. ASSUME NEW p \in Procs, NEW j, Becomes(p, j), j \in Job, Shape(j) PROVE ShapeInv'
    BY <1>a, BecomesIs
  <1>b. ASSUME NEW p \in Procs, Return(p) PROVE ShapeInv'
    BY <1>b, <1>a, IdleIsAJob DEF Return
  <1>c. ASSUME NEW p \in Procs PROVE job[p] \in Job /\ Shape(job[p])
    BY DEF ShapeInv
  <1>d. ASSUME NEW p \in Procs, Ends(p), job[p].pc \in {"revoke", "drop", "into", "dump",
               "hash", "read"}
        PROVE  ShapeInv'
    <2>1. [Idle EXCEPT !.pc = "unlink", !.tmp = job[p].tmp] \in Job
      BY <1>c, IdleIsAJob DEF Job
    <2>2. Shape([Idle EXCEPT !.pc = "unlink", !.tmp = job[p].tmp])
      BY NoneIsNothing DEF Idle, Shape, VerifySteps
    <2> QED BY <1>a, <1>d, <2>1, <2>2 DEF Ends
  <1>e. ASSUME NEW p \in Procs, NEW steps \in SUBSET {"list", "create", "toc", "scratch",
               "count"},
               NEW c \in Causes, Fails(p, steps, c)
        PROVE  ShapeInv'
    <2>1. ASSUME NEW j \in Job, Shape(j), j.pc \in {"list", "create", "toc", "scratch", "count"}
          PROVE  [j EXCEPT !.pc = "revoke", !.toc = None, !.cause = c] \in Job
                 /\ Shape([j EXCEPT !.pc = "revoke", !.toc = None, !.cause = c])
      BY <2>1, NoneIsNothing, ZenonT(60) DEF Job, Shape, VerifySteps
    <2> QED
      BY <1>e, <1>a, <1>c, <2>1 DEF Fails
  <1>1. ASSUME NEW p \in Procs, CleanOne(p) PROVE ShapeInv'
    <2>1. ASSUME NEW j \in Job, Shape(j), j.pc = "clean", NEW f
          PROVE  [j EXCEPT !.todo = @ \ {f}] \in Job /\ Shape([j EXCEPT !.todo = @ \ {f}])
      BY <2>1, NoneIsNothing, ZenonT(60) DEF Job, Shape, VerifySteps
    <2> QED
      BY <1>1, <1>a, <1>c, <2>1 DEF CleanOne, At
  <1>2. ASSUME NEW p \in Procs, CleanDone(p) PROVE ShapeInv'
    <2>1. ASSUME NEW j \in Job, Shape(j), j.pc = "clean", j.todo = {}, j.cmd = "backup"
          PROVE  [j EXCEPT !.pc = "temp"] \in Job /\ Shape([j EXCEPT !.pc = "temp"])
      BY <2>1, NoneIsNothing, ZenonT(60) DEF Job, Shape, VerifySteps
    <2>2. ASSUME NEW j \in Job, Shape(j), j.pc = "clean", j.todo = {}, j.cmd # "backup"
          PROVE  [j EXCEPT !.pc = "load"] \in Job /\ Shape([j EXCEPT !.pc = "load"])
      BY <2>2, NoneIsNothing, ZenonT(60) DEF Job, Shape, VerifySteps
    <2> QED
      BY <1>2, <1>a, <1>c, <2>1, <2>2 DEF CleanDone, Goes, At
  <1>3. ASSUME NEW p \in Procs, LoadForVerify(p) PROVE ShapeInv'
    <2>1. ASSUME NEW j \in Job, Shape(j), j.pc = "load", j.cmd = "verify", NEW i \in Ids
          PROVE  /\ [j EXCEPT !.pc = "temp", !.id = i] \in Job
                 /\ Shape([j EXCEPT !.pc = "temp", !.id = i])
      BY <2>1, NoneIsNothing, ZenonT(60) DEF Job, Shape, VerifySteps
    <2> QED
      BY <1>3, <1>a, <1>c, <2>1 DEF LoadForVerify, Only, At, Verifying
  <1>4. ASSUME NEW p \in Procs, LoadForRestore(p) PROVE ShapeInv'
    <2>1. ASSUME NEW j \in Job, Shape(j), j.pc = "load", j.cmd = "tofile", NEW i \in Ids,
                 NEW t \in {None}, NEW force \in BOOLEAN
          PROVE  /\ [j EXCEPT !.pc = "open", !.id = i, !.target = t, !.force = force] \in Job
                 /\ Shape([j EXCEPT !.pc = "open", !.id = i, !.target = t, !.force = force])
      BY <2>1, NoneIsNothing, ZenonT(60) DEF Job, Shape, VerifySteps
    <2>2. ASSUME NEW j \in Job, Shape(j), j.pc = "load", j.cmd = "restore", NEW i \in Ids,
                 NEW t \in {Target, Source}, NEW force \in BOOLEAN
          PROVE  /\ [j EXCEPT !.pc = "inspect", !.id = i, !.target = t, !.force = force] \in Job
                 /\ Shape([j EXCEPT !.pc = "inspect", !.id = i, !.target = t, !.force = force])
      BY <2>2, NoneIsNothing, ZenonT(60) DEF Job, Shape, VerifySteps
    <2> QED
      <3>1. PICK i \in Ids, force \in BOOLEAN,
                 t \in IF job[p].cmd = "tofile" THEN {None} ELSE {Target, Source} :
              Becomes(p, [job[p] EXCEPT !.pc = IF t = None THEN "open" ELSE "inspect",
                                        !.id = i, !.target = t, !.force = force])
        BY <1>4 DEF LoadForRestore, Only
      <3>2. job[p].pc = "load" /\ job[p].cmd \in {"restore", "tofile"}
        BY <1>4, <1>c DEF LoadForRestore, At, Verifying, Shape
      <3>3. CASE job[p].cmd = "tofile"
        BY <1>a, <1>c, <2>1, <3>1, <3>2, <3>3
      <3>4. CASE job[p].cmd = "restore"
        BY <1>a, <1>c, <2>2, <3>1, <3>2, <3>4, NoneIsNothing
      <3> QED
        BY <3>2, <3>3, <3>4
  <1>5. ASSUME NEW p \in Procs, Refuse(p) PROVE ShapeInv'
    BY <1>5, <1>b DEF Refuse
  <1>6. ASSUME NEW p \in Procs, CreateTemp(p) PROVE ShapeInv'
    <2>1. ASSUME NEW j \in Job, Shape(j), j.pc = "temp", NEW f \in Names, NEW s \in {"dump",
                 "fetch"}, s = "dump" <=> j.cmd = "backup"
          PROVE  [j EXCEPT !.pc = s, !.tmp = f] \in Job /\ Shape([j EXCEPT !.pc = s, !.tmp = f])
      BY <2>1, NoneIsNothing, ZenonT(60) DEF Job, Shape, VerifySteps
    <2> QED
      BY <1>6, <1>a, <1>c, <2>1 DEF CreateTemp, After, At
  <1>7. ASSUME NEW p \in Procs, WriteFails(p) PROVE ShapeInv'
    BY <1>7, <1>b DEF WriteFails
  <1>8. ASSUME NEW p \in Procs, Fetch(p) PROVE ShapeInv'
    <2>1. ASSUME NEW j \in Job, Shape(j), j.pc = "fetch", j.id \notin Damaged, j.cmd = "verify"
          PROVE  [j EXCEPT !.pc = "list"] \in Job /\ Shape([j EXCEPT !.pc = "list"])
      BY <2>1, NoneIsNothing, ZenonT(60) DEF Job, Shape, VerifySteps
    <2>2. ASSUME NEW j \in Job, Shape(j), j.pc = "fetch", j.cmd # "verify"
          PROVE  [j EXCEPT !.pc = "into"] \in Job /\ Shape([j EXCEPT !.pc = "into"])
      BY <2>2, NoneIsNothing, ZenonT(60) DEF Job, Shape, VerifySteps
    <2> QED
      BY <1>8, <1>a, <1>c, <2>1, <2>2 DEF Fetch, Goes, At, Verifying
  <1>9. ASSUME NEW p \in Procs, FetchFails(p) PROVE ShapeInv'
    <2>1. ASSUME NEW j \in Job, Shape(j), j.pc = "fetch", j.cmd = "verify",
                 NEW c \in {"fault", "disk"}
          PROVE  /\ [j EXCEPT !.pc = "revoke", !.tmp = None, !.cause = c] \in Job
                 /\ Shape([j EXCEPT !.pc = "revoke", !.tmp = None, !.cause = c])
      BY <2>1, NoneIsNothing, ZenonT(60) DEF Job, Shape, VerifySteps, Causes
    <2> QED
      BY <1>9, <1>a, <1>b, <1>c, <2>1 DEF FetchFails, At, Verifying, Return
  <1>10. ASSUME NEW p \in Procs, Unlink(p) PROVE ShapeInv'
    BY <1>10, <1>b DEF Unlink
  <1>11. ASSUME NEW p \in Procs, ToolFails(p) PROVE ShapeInv'
    BY <1>11, <1>e DEF ToolFails, Causes
  <1>12. ASSUME NEW p \in Procs, DumpGone(p) PROVE ShapeInv'
    BY <1>12, <1>e DEF DumpGone, Causes
  <1>13. ASSUME NEW p \in Procs, RestoreScratchFails(p) PROVE ShapeInv'
    BY <1>13, <1>e DEF RestoreScratchFails, Causes
  <1>14. ASSUME NEW p \in Procs, ListArchive(p) PROVE ShapeInv'
    <2>1. ASSUME NEW j \in Job, Shape(j), j.pc = "list"
          PROVE  [j EXCEPT !.pc = "create"] \in Job /\ Shape([j EXCEPT !.pc = "create"])
      BY <2>1, NoneIsNothing, ZenonT(60) DEF Job, Shape, VerifySteps
    <2> QED
      BY <1>14, <1>a, <1>c, <2>1 DEF ListArchive, Goes, At
  <1>15. ASSUME NEW p \in Procs, CreateScratch(p) PROVE ShapeInv'
    <2>1. ASSUME NEW j \in Job, Shape(j), j.pc = "create"
          PROVE  /\ [j EXCEPT !.pc = "toc", !.made = TRUE] \in Job
                 /\ Shape([j EXCEPT !.pc = "toc", !.made = TRUE])
      BY <2>1, NoneIsNothing, ZenonT(60) DEF Job, Shape, VerifySteps
    <2> QED
      BY <1>15, <1>a, <1>c, <2>1 DEF CreateScratch, At
  <1>16. ASSUME NEW p \in Procs, ScratchExists(p) PROVE ShapeInv'
    <2>1. ASSUME NEW j \in Job, Shape(j), j.pc = "create"
          PROVE  /\ [j EXCEPT !.pc = "revoke", !.cause = "exists"] \in Job
                 /\ Shape([j EXCEPT !.pc = "revoke", !.cause = "exists"])
      BY <2>1, NoneIsNothing, ZenonT(60) DEF Job, Shape, VerifySteps, Causes
    <2> QED
      BY <1>16, <1>a, <1>c, <2>1 DEF ScratchExists, Only, At
  <1>17. ASSUME NEW p \in Procs, SandboxTOC(p) PROVE ShapeInv'
    <2>1. ASSUME NEW j \in Job, Shape(j), j.pc = "toc", NEW f \in Names
          PROVE  /\ [j EXCEPT !.pc = "scratch", !.toc = f] \in Job
                 /\ Shape([j EXCEPT !.pc = "scratch", !.toc = f])
      BY <2>1, NoneIsNothing, ZenonT(60) DEF Job, Shape, VerifySteps
    <2> QED
      BY <1>17, <1>a, <1>c, <2>1 DEF SandboxTOC, At
  <1>18. ASSUME NEW p \in Procs, RestoreScratch(p) PROVE ShapeInv'
    <2>1. ASSUME NEW j \in Job, Shape(j), j.pc = "scratch"
          PROVE  /\ [j EXCEPT !.pc = "count", !.toc = None] \in Job
                 /\ Shape([j EXCEPT !.pc = "count", !.toc = None])
      BY <2>1, NoneIsNothing, ZenonT(60) DEF Job, Shape, VerifySteps
    <2> QED
      BY <1>18, <1>a, <1>c, <2>1 DEF RestoreScratch, At
  <1>19. ASSUME NEW p \in Procs, Count(p) PROVE ShapeInv'
    <2>1. ASSUME NEW j \in Job, Shape(j), j.pc = "count"
          PROVE  [j EXCEPT !.pc = "prove"] \in Job /\ Shape([j EXCEPT !.pc = "prove"])
      BY <2>1, NoneIsNothing, ZenonT(60) DEF Job, Shape, VerifySteps
    <2> QED
      BY <1>19, <1>a, <1>c, <2>1 DEF Count, Goes, At
  <1>20. ASSUME NEW p \in Procs, Prove(p) PROVE ShapeInv'
    <2>1. ASSUME NEW j \in Job, Shape(j), j.pc = "prove"
          PROVE  [j EXCEPT !.pc = "drop"] \in Job /\ Shape([j EXCEPT !.pc = "drop"])
      BY <2>1, NoneIsNothing, ZenonT(60) DEF Job, Shape, VerifySteps
    <2> QED
      BY <1>20, <1>a, <1>c, <2>1 DEF Prove, Goes, At
  <1>21. ASSUME NEW p \in Procs, Revoke(p) PROVE ShapeInv'
    <2>1. ASSUME NEW j \in Job, Shape(j), j.pc = "revoke", j.made
          PROVE  /\ [j EXCEPT !.pc = "drop", !.cause = "none"] \in Job
                 /\ Shape([j EXCEPT !.pc = "drop", !.cause = "none"])
      BY <2>1, NoneIsNothing, ZenonT(60) DEF Job, Shape, VerifySteps, Causes
    <2> QED
      BY <1>21, <1>a, <1>d, <1>c, <2>1 DEF Revoke, At
  <1>22. ASSUME NEW p \in Procs, Drop(p) PROVE ShapeInv'
    BY <1>22, <1>d DEF Drop, At
  <1>23. ASSUME NEW p \in Procs, Inspect(p) PROVE ShapeInv'
    <2>1. ASSUME NEW j \in Job, Shape(j), j.pc = "inspect", NEW c \in BOOLEAN, c => j.force
          PROVE  /\ [j EXCEPT !.pc = "temp", !.clean = c] \in Job
                 /\ Shape([j EXCEPT !.pc = "temp", !.clean = c])
      BY <2>1, NoneIsNothing, ZenonT(60) DEF Job, Shape, VerifySteps
    <2> QED
      BY <1>23, <1>a, <1>c, <2>1 DEF Inspect, Only, At
  <1>24. ASSUME NEW p \in Procs, InspectRefuses(p) PROVE ShapeInv'
    BY <1>24, <1>b DEF InspectRefuses
  <1>25. ASSUME NEW p \in Procs, RestoreInto(p) PROVE ShapeInv'
    BY <1>25, <1>d DEF RestoreInto, At
  <1>26. ASSUME NEW p \in Procs, RestoreIntoFails(p) PROVE ShapeInv'
    BY <1>26, <1>d DEF RestoreIntoFails, At
  <1>27. ASSUME NEW p \in Procs, OpenFileFails(p) PROVE ShapeInv'
    BY <1>27, <1>b DEF OpenFileFails
  <1>28. ASSUME NEW p \in Procs, WriteFile(p) PROVE ShapeInv'
    BY <1>28, <1>b DEF WriteFile
  <1>29. ASSUME NEW p \in Procs, WriteFileFails(p) PROVE ShapeInv'
    BY <1>29, <1>b DEF WriteFileFails
  <1>30. ASSUME NEW p \in Procs, Dump(p) PROVE ShapeInv'
    <2>1. ASSUME NEW j \in Job, Shape(j), j.pc = "dump"
          PROVE  [j EXCEPT !.pc = "hash"] \in Job /\ Shape([j EXCEPT !.pc = "hash"])
      BY <2>1, NoneIsNothing, ZenonT(60) DEF Job, Shape, VerifySteps
    <2> QED
      BY <1>30, <1>a, <1>c, <2>1 DEF Dump, Goes, At
  <1>31. ASSUME NEW p \in Procs, Hash(p) PROVE ShapeInv'
    <2>1. ASSUME NEW j \in Job, Shape(j), j.pc = "hash"
          PROVE  [j EXCEPT !.pc = "read"] \in Job /\ Shape([j EXCEPT !.pc = "read"])
      BY <2>1, NoneIsNothing, ZenonT(60) DEF Job, Shape, VerifySteps
    <2> QED
      BY <1>31, <1>a, <1>c, <2>1 DEF Hash, Goes, At
  <1>32. ASSUME NEW p \in Procs, Read(p) PROVE ShapeInv'
    BY <1>32, <1>d DEF Read
  <1>33. ASSUME NEW p \in Procs, Kill(p) PROVE ShapeInv'
    BY <1>33, <1>b DEF Kill, Return
  <1>34. ASSUME NEW p \in Procs, NEW cmd \in Commands[p], Start(p, cmd) PROVE ShapeInv'
    <2>1. PICK anew \in BOOLEAN, alone \in BOOLEAN :
            /\ alone => cmd = "verify"
            /\ job' = [q \in Procs |->
                 IF q = p THEN [Idle EXCEPT !.cmd = cmd, !.pc = "clean",
                                            !.todo = IF anew THEN dumps ELSE {}, !.alone = alone]
                 ELSE [job[q] EXCEPT !.alone = FALSE]]
      BY <1>34, Zenon DEF Start
    <2> DEFINE todo == IF anew THEN dumps ELSE {}
               new == [Idle EXCEPT !.cmd = cmd, !.pc = "clean", !.todo = todo, !.alone = alone]
    <2>2. cmd \in {"backup", "verify", "restore", "tofile"}
      BY CommandsTyped
    <2>3. todo \in SUBSET Names
      BY DEF TypeOK
    <2> HIDE DEF todo
    <2>4. new \in Job
      <3>1. alone \in BOOLEAN
        BY <2>1
      <3> QED
        BY <2>2, <2>3, <3>1, IdleIsAJob DEF Job
    <2>5. Shape(new)
      <3>1. alone \in BOOLEAN /\ (alone => cmd = "verify") /\ cmd # "none"
        BY <2>1, <2>2
      <3> QED
        BY <3>1 DEF Idle, Shape, VerifySteps
    <2>7. ASSUME NEW q \in Procs
          PROVE  job'[q] = IF q = p THEN new ELSE [job[q] EXCEPT !.alone = FALSE]
      BY <2>1 DEF todo
    <2> HIDE DEF new
    <2>8. ASSUME NEW q \in Procs PROVE job'[q] \in Job /\ Shape(job'[q])
      BY <1>c, <2>4, <2>5, <2>7, FlagsAreFree
    <2>6. DOMAIN job' = Procs /\ job' = [q \in Procs |-> job'[q]]
      BY <2>1
    <2> QED
      BY <2>8, <2>6 DEF ShapeInv
  <1>35. ASSUME NEW p \in Procs, OpenFile(p) PROVE ShapeInv'
    <2>1. ASSUME NEW j \in Job, Shape(j), j.pc = "open", NEW b \in BOOLEAN
          PROVE  /\ [j EXCEPT !.pc = "write", !.mixed = b] \in Job
                 /\ Shape([j EXCEPT !.pc = "write", !.mixed = b])
      BY <2>1, NoneIsNothing, ZenonT(60) DEF Job, Shape, VerifySteps
    <2>2. \A q \in Procs : job[q].mixed \in BOOLEAN
      BY <1>c DEF Job
    <2> QED
      BY <1>35, <1>c, <2>1, <2>2, FlagsAreFree DEF OpenFile, ShapeInv, At
  <1>36. CASE UNCHANGED job
    BY <1>36 DEF ShapeInv
  <1>37. ASSUME NEW p \in Procs, CreateScratchUnseen(p) PROVE ShapeInv'
    <2>1. ASSUME NEW j \in Job, Shape(j), j.pc = "create"
          PROVE  /\ [j EXCEPT !.pc = "revoke", !.cause = "fault"] \in Job
                 /\ Shape([j EXCEPT !.pc = "revoke", !.cause = "fault"])
      BY <2>1, NoneIsNothing, ZenonT(60) DEF Job, Shape, VerifySteps, Causes
    <2> QED
      BY <1>37, <1>a, <1>c, <2>1 DEF CreateScratchUnseen, At
  <1> QED
    BY <1>1, <1>2, <1>3, <1>4, <1>5, <1>6, <1>7, <1>8, <1>9, <1>10, <1>11, <1>12, <1>13,
       <1>14, <1>15, <1>16, <1>17, <1>18, <1>19, <1>20, <1>21, <1>22, <1>23, <1>24, <1>25,
       <1>26, <1>27, <1>28, <1>29, <1>30, <1>31, <1>32, <1>33, <1>34, <1>35, <1>36, <1>37
       DEF Next, Common, VerifyStep, RestoreStep, BackupStep, Filled, vars

-----------------------------------------------------------------------------
(* What a step does to the fields of the jobs.                             *)

\* What no step of another process changes.
Kept(q) ==
    /\ job'[q].pc = job[q].pc /\ job'[q].id = job[q].id /\ job'[q].tmp = job[q].tmp
    /\ job'[q].toc = job[q].toc /\ job'[q].todo = job[q].todo /\ job'[q].made = job[q].made
    /\ job'[q].cmd = job[q].cmd /\ job'[q].target = job[q].target
    /\ job'[q].force = job[q].force /\ job'[q].clean = job[q].clean
    /\ job'[q].cause = job[q].cause

\* What a step of p does to the fields of its job.
Fields(p, pc, id, tmp, toc, todo, made) ==
    /\ job'[p].pc = pc /\ job'[p].id = id /\ job'[p].tmp = tmp /\ job'[p].toc = toc
    /\ job'[p].todo = todo /\ job'[p].made = made
    /\ \A q \in Procs \ {p} : Kept(q)
Args(p, cmd, target, force, clean, mixed) ==
    /\ job'[p].cmd = cmd /\ job'[p].target = target /\ job'[p].force = force
    /\ job'[p].clean = clean /\ job'[p].mixed = mixed
Hist(p, cause, alone) ==
    /\ job'[p].cause = cause /\ job'[p].alone = alone
    /\ \A q \in Procs \ {p} : job'[q].alone => job[q].alone
Alike(p) == \A q \in Procs \ {p} : job'[q].mixed = job[q].mixed

\* Only the step changes.
LEMMA GoesFields ==
    ASSUME ShapeInv, NEW p \in Procs, NEW s, Goes(p, s)
    PROVE  /\ Fields(p, s, job[p].id, job[p].tmp, job[p].toc, job[p].todo, job[p].made)
           /\ Args(p, job[p].cmd, job[p].target, job[p].force, job[p].clean, job[p].mixed)
           /\ Hist(p, job[p].cause, job[p].alone)
           /\ Alike(p)
  BY DEF Goes, Becomes, ShapeInv, Job, Fields, Args, Hist, Alike, Kept

\* A command that returns forgets everything.
LEMMA ReturnFields ==
    ASSUME ShapeInv, NEW p \in Procs, Return(p)
    PROVE  /\ Fields(p, "idle", None, None, None, {}, FALSE)
           /\ Args(p, "none", None, FALSE, FALSE, FALSE)
           /\ Hist(p, "none", FALSE)
           /\ Alike(p)
  BY DEF Return, Idle, Becomes, ShapeInv, Job, Fields, Args, Hist, Alike, Kept

\* A command that ends keeps its dump, to remove it.
LEMMA EndsFields ==
    ASSUME ShapeInv, NEW p \in Procs, Ends(p)
    PROVE  /\ Fields(p, "unlink", None, job[p].tmp, None, {}, FALSE)
           /\ Args(p, "none", None, FALSE, FALSE, FALSE)
           /\ Hist(p, "none", FALSE)
           /\ Alike(p)
  BY DEF Ends, Idle, Becomes, ShapeInv, Job, Fields, Args, Hist, Alike, Kept

\* A verify that fails forgets its list and goes on to revoke.
LEMMA FailsFields ==
    ASSUME ShapeInv, NEW p \in Procs, NEW steps, NEW c, Fails(p, steps, c)
    PROVE  /\ Fields(p, "revoke", job[p].id, job[p].tmp, None, job[p].todo, job[p].made)
           /\ Args(p, job[p].cmd, job[p].target, job[p].force, job[p].clean, job[p].mixed)
           /\ Hist(p, c, job[p].alone)
           /\ Alike(p)
  BY DEF Fails, Becomes, ShapeInv, Job, Fields, Args, Hist, Alike, Kept

\* The cleanup gets on.
LEMMA TodoFields ==
    ASSUME ShapeInv, NEW p \in Procs, NEW t, Becomes(p, [job[p] EXCEPT !.todo = t])
    PROVE  /\ Fields(p, job[p].pc, job[p].id, job[p].tmp, job[p].toc, t, job[p].made)
           /\ Args(p, job[p].cmd, job[p].target, job[p].force, job[p].clean, job[p].mixed)
           /\ Hist(p, job[p].cause, job[p].alone)
           /\ Alike(p)
  BY DEF Becomes, ShapeInv, Job, Fields, Args, Hist, Alike, Kept

\* restore has its arguments.
LEMMA LoadFields ==
    ASSUME ShapeInv, NEW p \in Procs, NEW s, NEW i, NEW t, NEW f,
           Becomes(p, [job[p] EXCEPT !.pc = s, !.id = i, !.target = t, !.force = f])
    PROVE  /\ Fields(p, s, i, job[p].tmp, job[p].toc, job[p].todo, job[p].made)
           /\ Args(p, job[p].cmd, t, f, job[p].clean, job[p].mixed)
           /\ Hist(p, job[p].cause, job[p].alone)
           /\ Alike(p)
  BY DEF Becomes, ShapeInv, Job, Fields, Args, Hist, Alike, Kept

\* A command has a temporary dump.
LEMMA TempFields ==
    ASSUME ShapeInv, NEW p \in Procs, NEW s, NEW t, Becomes(p, [job[p] EXCEPT !.pc = s, !.tmp = t])
    PROVE  /\ Fields(p, s, job[p].id, t, job[p].toc, job[p].todo, job[p].made)
           /\ Args(p, job[p].cmd, job[p].target, job[p].force, job[p].clean, job[p].mixed)
           /\ Hist(p, job[p].cause, job[p].alone)
           /\ Alike(p)
  BY DEF Becomes, ShapeInv, Job, Fields, Args, Hist, Alike, Kept

\* A verify has no dump to go on with.
LEMMA RevokeFields ==
    ASSUME ShapeInv, NEW p \in Procs, NEW t, NEW c,
           Becomes(p, [job[p] EXCEPT !.pc = "revoke", !.tmp = t, !.cause = c])
    PROVE  /\ Fields(p, "revoke", job[p].id, t, job[p].toc, job[p].todo, job[p].made)
           /\ Args(p, job[p].cmd, job[p].target, job[p].force, job[p].clean, job[p].mixed)
           /\ Hist(p, c, job[p].alone)
           /\ Alike(p)
  BY DEF Becomes, ShapeInv, Job, Fields, Args, Hist, Alike, Kept

\* A verify has a scratch database.
LEMMA ScratchFields ==
    ASSUME ShapeInv, NEW p \in Procs, Becomes(p, [job[p] EXCEPT !.pc = "toc", !.made = TRUE])
    PROVE  /\ Fields(p, "toc", job[p].id, job[p].tmp, job[p].toc, job[p].todo, TRUE)
           /\ Args(p, job[p].cmd, job[p].target, job[p].force, job[p].clean, job[p].mixed)
           /\ Hist(p, job[p].cause, job[p].alone)
           /\ Alike(p)
  BY DEF Becomes, ShapeInv, Job, Fields, Args, Hist, Alike, Kept

\* A verify has or loses its list.
LEMMA ListFields ==
    ASSUME ShapeInv, NEW p \in Procs, NEW s, NEW t, Becomes(p, [job[p] EXCEPT !.pc = s, !.toc = t])
    PROVE  /\ Fields(p, s, job[p].id, job[p].tmp, t, job[p].todo, job[p].made)
           /\ Args(p, job[p].cmd, job[p].target, job[p].force, job[p].clean, job[p].mixed)
           /\ Hist(p, job[p].cause, job[p].alone)
           /\ Alike(p)
  BY DEF Becomes, ShapeInv, Job, Fields, Args, Hist, Alike, Kept

\* A verify goes on, for a cause.
LEMMA CauseFields ==
    ASSUME ShapeInv, NEW p \in Procs, NEW s, NEW c,
           Becomes(p, [job[p] EXCEPT !.pc = s, !.cause = c])
    PROVE  /\ Fields(p, s, job[p].id, job[p].tmp, job[p].toc, job[p].todo, job[p].made)
           /\ Args(p, job[p].cmd, job[p].target, job[p].force, job[p].clean, job[p].mixed)
           /\ Hist(p, c, job[p].alone)
           /\ Alike(p)
  BY DEF Becomes, ShapeInv, Job, Fields, Args, Hist, Alike, Kept

\* restore knows whether it cleans.
LEMMA CleanFields ==
    ASSUME ShapeInv, NEW p \in Procs, NEW c, Becomes(p, [job[p] EXCEPT !.pc = "temp", !.clean = c])
    PROVE  /\ Fields(p, "temp", job[p].id, job[p].tmp, job[p].toc, job[p].todo, job[p].made)
           /\ Args(p, job[p].cmd, job[p].target, job[p].force, c, job[p].mixed)
           /\ Hist(p, job[p].cause, job[p].alone)
           /\ Alike(p)
  BY DEF Becomes, ShapeInv, Job, Fields, Args, Hist, Alike, Kept

\* A command has the id of a backup.
LEMMA IdFields ==
    ASSUME ShapeInv, NEW p \in Procs, NEW s, NEW i, Becomes(p, [job[p] EXCEPT !.pc = s, !.id = i])
    PROVE  /\ Fields(p, s, i, job[p].tmp, job[p].toc, job[p].todo, job[p].made)
           /\ Args(p, job[p].cmd, job[p].target, job[p].force, job[p].clean, job[p].mixed)
           /\ Hist(p, job[p].cause, job[p].alone)
           /\ Alike(p)
  BY DEF Becomes, ShapeInv, Job, Fields, Args, Hist, Alike, Kept

\* What Start makes of the jobs.
Begins(p, cmd, anew) ==
    job' = [q \in Procs |->
        IF q = p THEN [Idle EXCEPT !.cmd = cmd, !.pc = "clean", !.todo = IF anew THEN dumps ELSE {},
                                   !.alone = cmd = "verify" /\ {r \in Procs \ {p} : Running(r)} = {}]
        ELSE [job[q] EXCEPT !.alone = FALSE]]

\* A start is a beginning.
LEMMA BeginsIs ==
    ASSUME NEW p, NEW cmd, Start(p, cmd)
    PROVE  \E anew \in BOOLEAN : Begins(p, cmd, anew)
  BY Zenon DEF Start, Begins

\* A beginning sets every field, and nobody is alone any more but the one who began.
LEMMA StartFields ==
    ASSUME ShapeInv, NEW p \in Procs, NEW cmd, NEW anew \in BOOLEAN, Begins(p, cmd, anew)
    PROVE  /\ Fields(p, "clean", None, None, None, IF anew THEN dumps ELSE {}, FALSE)
           /\ Args(p, cmd, None, FALSE, FALSE, FALSE)
           /\ Hist(p, "none", cmd = "verify" /\ {r \in Procs \ {p} : Running(r)} = {})
           /\ \A q \in Procs \ {p} : ~job'[q].alone
           /\ Alike(p)
  <1> DEFINE todo == IF anew THEN dumps ELSE {}
             alone == cmd = "verify" /\ {r \in Procs \ {p} : Running(r)} = {}
             new == [Idle EXCEPT !.cmd = cmd, !.pc = "clean", !.todo = todo, !.alone = alone]
  <1>1. job'[p] = new
    BY DEF Begins
  <1>2. ASSUME NEW q \in Procs \ {p}
        PROVE  job'[q] = [job[q] EXCEPT !.alone = FALSE] /\ job[q] \in Job
    BY DEF Begins, ShapeInv
  <1> HIDE DEF todo, alone
  <1>3. /\ new.pc = "clean" /\ new.id = None /\ new.tmp = None /\ new.toc = None /\ new.todo = todo
        /\ ~new.made /\ new.cmd = cmd /\ new.target = None /\ ~new.force /\ ~new.clean /\ ~new.mixed
        /\ new.cause = "none" /\ new.alone = alone
    BY DEF Idle
  <1>4. ASSUME NEW q \in Procs \ {p}
        PROVE  Kept(q) /\ ~job'[q].alone /\ job'[q].mixed = job[q].mixed
    <2>1. job'[q].alone = FALSE
      BY <1>2 DEF Job
    <2>2. job'[q].mixed = job[q].mixed
      BY <1>2 DEF Job
    <2> QED
      BY <1>2, <2>1, <2>2 DEF Kept, Job
  <1> HIDE DEF new
  <1>5. new.made = FALSE /\ new.force = FALSE /\ new.clean = FALSE /\ new.mixed = FALSE
    BY DEF new, Idle
  <1>6. Fields(p, "clean", None, None, None, todo, FALSE)
    BY <1>1, <1>3, <1>4, <1>5 DEF Fields
  <1>7. Args(p, cmd, None, FALSE, FALSE, FALSE)
    BY <1>1, <1>3, <1>5 DEF Args
  <1>8. Hist(p, "none", alone)
    BY <1>1, <1>3, <1>4 DEF Hist
  <1> QED
    BY <1>4, <1>6, <1>7, <1>8 DEF Alike, todo, alone

\* Who opens the file finds other writers, and they find it.
LEMMA OpenFields ==
    ASSUME ShapeInv, NEW p \in Procs, OpenFile(p)
    PROVE  /\ Fields(p, "write", job[p].id, job[p].tmp, job[p].toc, job[p].todo, job[p].made)
           /\ Args(p, job[p].cmd, job[p].target, job[p].force, job[p].clean, Writers(p) # {})
           /\ Hist(p, job[p].cause, job[p].alone)
           /\ \A q \in Procs \ {p} : job'[q].mixed = (job[q].mixed \/ q \in Writers(p))
  <1>1. job'[p] = [job[p] EXCEPT !.pc = "write", !.mixed = Writers(p) # {}] /\ job[p] \in Job
    BY DEF OpenFile, ShapeInv
  <1>2. ASSUME NEW q \in Procs \ {p}
        PROVE  job'[q] = [job[q] EXCEPT !.mixed = job[q].mixed \/ q \in Writers(p)] /\ job[q] \in Job
    BY DEF OpenFile, ShapeInv
  <1>3. ASSUME NEW q \in Procs \ {p}
        PROVE  Kept(q) /\ job'[q].alone = job[q].alone
               /\ job'[q].mixed = (job[q].mixed \/ q \in Writers(p))
    <2>1. job'[q].mixed = (job[q].mixed \/ q \in Writers(p))
      BY <1>2, Zenon DEF Job
    <2>2. job'[q].alone = job[q].alone
      BY <1>2, Zenon DEF Job
    <2>3. /\ job'[q].pc = job[q].pc /\ job'[q].id = job[q].id /\ job'[q].tmp = job[q].tmp
          /\ job'[q].toc = job[q].toc /\ job'[q].todo = job[q].todo /\ job'[q].cmd = job[q].cmd
          /\ job'[q].target = job[q].target /\ job'[q].cause = job[q].cause
      BY <1>2, Zenon DEF Job
    <2>4. /\ job'[q].made = job[q].made /\ job'[q].force = job[q].force
          /\ job'[q].clean = job[q].clean
      BY <1>2, Zenon DEF Job
    <2> QED
      BY <2>1, <2>2, <2>3, <2>4, Zenon DEF Kept
  <1>4. /\ job'[p].pc = "write" /\ job'[p].id = job[p].id /\ job'[p].tmp = job[p].tmp
        /\ job'[p].toc = job[p].toc /\ job'[p].todo = job[p].todo /\ job'[p].made = job[p].made
        /\ Args(p, job[p].cmd, job[p].target, job[p].force, job[p].clean, Writers(p) # {})
        /\ job'[p].cause = job[p].cause /\ job'[p].alone = job[p].alone
    BY <1>1 DEF Args, Job
  <1> QED
    BY <1>3, <1>4 DEF Fields, Hist

-----------------------------------------------------------------------------
(* Files and scratch databases have owners.                                *)

\* A temporary list has a name of its own, and everything has an owner.
NamesInv ==
    /\ dumps \cap lists = {}
    /\ \A p \in Procs : job[p].tmp \notin lists /\ job[p].todo \cap lists = {}
    /\ NothingIsLeft

\* What is there after a step of p is p's, or somebody's still, or litter.
Accounted(p, id, tmp, toc, made) ==
    /\ \A n \in dumps' : n = tmp \/ (n \in dumps /\ (n = job[p].tmp => n \in litter'))
    /\ \A n \in lists' : n = toc \/ (n \in lists /\ (n = job[p].toc => n \in litter'))
    /\ \A i \in Ids : db'[i] # None =>
          \/ made /\ id = i
          \/ db[i] # None /\ (job[p].made /\ job[p].id = i => i \in litter')
    /\ \A n \in litter : n \in litter' \/ n \notin dumps' \cup lists' \cup Ids

\* The lists stay apart from every other name.
Apart(p, tmp, todo) ==
    /\ dumps' \cap lists' = {}
    /\ tmp \notin lists' /\ todo \cap lists' = {}
    /\ \A q \in Procs \ {p} : job[q].tmp \notin lists' /\ job[q].todo \cap lists' = {}

\* What is accounted for has an owner.
LEMMA AccountedStep ==
    ASSUME NamesInv, NEW p \in Procs, NEW pc, NEW id, NEW tmp, NEW toc, NEW todo, NEW made,
           Fields(p, pc, id, tmp, toc, todo, made),
           Apart(p, tmp, todo), Accounted(p, id, tmp, toc, made)
    PROVE  NamesInv'
  <1>1. (\A q \in Procs : job[q].tmp \notin lists /\ job[q].todo \cap lists = {})'
    BY DEF Fields, Kept, Apart
  <1>2. ASSUME NEW n \in dumps' PROVE n \in litter' \/ \E q \in Procs : job'[q].tmp = n
    BY DEF Fields, Kept, Accounted, NamesInv, NothingIsLeft
  <1>3. ASSUME NEW n \in lists' PROVE n \in litter' \/ \E q \in Procs : job'[q].toc = n
    BY DEF Fields, Kept, Accounted, NamesInv, NothingIsLeft
  <1>4. ASSUME NEW i \in Ids, db'[i] # None
        PROVE  i \in litter' \/ \E q \in Procs : job'[q].made /\ job'[q].id = i
    <2>1. CASE made /\ id = i
      BY <2>1 DEF Fields, Kept
    <2>2. CASE db[i] # None /\ (job[p].made /\ job[p].id = i => i \in litter')
      <3>1. i \in litter \/ \E q \in Procs : job[q].made /\ job[q].id = i
        BY <2>2 DEF NamesInv, NothingIsLeft
      <3>2. CASE i \in litter
        BY <3>2 DEF Accounted
      <3>3. CASE \E q \in Procs : job[q].made /\ job[q].id = i
        BY <2>2, <3>3 DEF Fields, Kept
      <3> QED
        BY <3>1, <3>2, <3>3
    <2> QED
      BY <1>4, <2>1, <2>2 DEF Accounted
  <1> QED
    BY <1>1, <1>2, <1>3, <1>4 DEF Apart, NamesInv, NothingIsLeft

\* Removals keep the lists apart.
LEMMA ApartStays ==
    ASSUME NamesInv, NEW p \in Procs, lists' \subseteq lists,
           dumps' \subseteq dumps \cup {job[p].tmp}, NEW tmp \in {None, job[p].tmp},
           NEW todo \in SUBSET job[p].todo, None \notin lists
    PROVE  Apart(p, tmp, todo)
  BY DEF Apart, NamesInv

\* No step leaves anything without an owner.
LEMMA NamesStep == TypeOK /\ ShapeInv /\ NamesInv /\ [Next]_vars => NamesInv'
  <1> SUFFICES ASSUME TypeOK, ShapeInv, NamesInv, [Next]_vars PROVE NamesInv'
    OBVIOUS
  <1>a. ASSUME NEW p \in Procs PROVE Shape(job[p])
    BY DEF ShapeInv
  <1>b. None \notin lists /\ None \notin dumps
    BY NoneIsNothing DEF TypeOK
  \* What a step leaves alone, or takes away, without changing what is p's.
  <1>c. ASSUME NEW p \in Procs, NEW pc, NEW id,
               Fields(p, pc, id, job[p].tmp, job[p].toc, job[p].todo, job[p].made),
               job[p].made => id = job[p].id, UNCHANGED <<disk, db>>
        PROVE  NamesInv'
    <2>1. Apart(p, job[p].tmp, job[p].todo)
      BY <1>b, <1>c, ApartStays DEF disk
    <2>2. Accounted(p, id, job[p].tmp, job[p].toc, job[p].made)
      BY <1>c DEF Accounted, disk
    <2> QED
      BY <1>c, <2>1, <2>2, AccountedStep
  \* A command that returns has nothing left, or has it removed.
  <1>d. ASSUME NEW p \in Procs, NEW pc, NEW tmp \in {None, job[p].tmp},
               Fields(p, pc, None, tmp, None, {}, FALSE),
               job[p].toc = None, ~job[p].made, UNCHANGED <<lists, litter, db>>,
               dumps' = dumps \ {job[p].tmp} \/ (dumps' = dumps /\ (tmp = job[p].tmp \/ job[p].tmp = None))
        PROVE  NamesInv'
    <2>1. Apart(p, tmp, {})
      BY <1>b, <1>d, ApartStays
    <2>2. Accounted(p, None, tmp, None, FALSE)
      BY <1>b, <1>d DEF Accounted
    <2> QED
      BY <1>d, <2>1, <2>2, AccountedStep
  <1>1. ASSUME NEW p \in Procs, CleanDone(p) PROVE NamesInv'
    BY <1>1, <1>a, <1>c, GoesFields DEF CleanDone, shared
  <1>2. ASSUME NEW p \in Procs, Fetch(p) PROVE NamesInv'
    BY <1>2, <1>a, <1>c, GoesFields DEF Fetch, shared
  <1>3. ASSUME NEW p \in Procs, ListArchive(p) PROVE NamesInv'
    BY <1>3, <1>a, <1>c, GoesFields DEF ListArchive, shared
  <1>4. ASSUME NEW p \in Procs, Count(p) PROVE NamesInv'
    BY <1>4, <1>a, <1>c, GoesFields DEF Count, shared
  <1>5. ASSUME NEW p \in Procs, Hash(p) PROVE NamesInv'
    BY <1>5, <1>a, <1>c, GoesFields DEF Hash, shared
  <1>6. ASSUME NEW p \in Procs, Prove(p) PROVE NamesInv'
    BY <1>6, <1>a, <1>c, GoesFields DEF Prove, shared
  <1>7. ASSUME NEW p \in Procs, LoadForRestore(p) PROVE NamesInv'
    BY <1>7, <1>a, <1>c, LoadFields DEF LoadForRestore, Only, At, Shape, shared
  <1>8. ASSUME NEW p \in Procs, ScratchExists(p) PROVE NamesInv'
    BY <1>8, <1>a, <1>c, CauseFields DEF ScratchExists, Only, shared
  <1>9. ASSUME NEW p \in Procs, Inspect(p) PROVE NamesInv'
    BY <1>9, <1>a, <1>c, CleanFields DEF Inspect, Only, shared
  <1>10. ASSUME NEW p \in Procs, Refuse(p) PROVE NamesInv'
    BY <1>10, <1>a, <1>d, ReturnFields DEF Refuse, At, Shape, shared, disk
  <1>11. ASSUME NEW p \in Procs, InspectRefuses(p) PROVE NamesInv'
    BY <1>11, <1>a, <1>d, ReturnFields DEF InspectRefuses, At, Shape, shared, disk
  <1>12. ASSUME NEW p \in Procs, OpenFileFails(p) PROVE NamesInv'
    BY <1>12, <1>a, <1>d, ReturnFields DEF OpenFileFails, At, Shape, shared, disk
  <1>13. ASSUME NEW p \in Procs, WriteFile(p) PROVE NamesInv'
    BY <1>13, <1>a, <1>d, ReturnFields DEF WriteFile, At, Shape, shared, disk
  <1>14. ASSUME NEW p \in Procs, WriteFileFails(p) PROVE NamesInv'
    BY <1>14, <1>a, <1>d, ReturnFields DEF WriteFileFails, At, Shape, shared, disk
  <1>15. ASSUME NEW p \in Procs, WriteFails(p) PROVE NamesInv'
    BY <1>15, <1>a, <1>d, ReturnFields DEF WriteFails, At, Shape, shared, disk
  <1>16. ASSUME NEW p \in Procs, Unlink(p) PROVE NamesInv'
    BY <1>16, <1>a, <1>d, ReturnFields DEF Unlink, At, Shape, shared, disk
  <1>17. ASSUME NEW p \in Procs, Read(p) PROVE NamesInv'
    BY <1>17, <1>a, <1>d, EndsFields DEF Read, At, Shape, shared, disk
  <1>18. ASSUME NEW p \in Procs, ToolFails(p) PROVE NamesInv'
    <2>1. Fields(p, "revoke", job[p].id, job[p].tmp, None, job[p].todo, job[p].made)
      BY <1>18, FailsFields DEF ToolFails, Fails
    <2>2. Apart(p, job[p].tmp, job[p].todo)
      BY <1>18, <1>a, <1>b, ApartStays DEF ToolFails, disk, shared, Shape, At, Fails
    <2>3. Accounted(p, job[p].id, job[p].tmp, None, job[p].made)
      BY <1>18, <1>a, <1>b, NoneIsNothing
         DEF ToolFails, Accounted, disk, shared, Shape, At, Fails
    <2> QED
      BY <2>1, <2>2, <2>3, AccountedStep
  <1>19. ASSUME NEW p \in Procs, DumpGone(p) PROVE NamesInv'
    <2>1. Fields(p, "revoke", job[p].id, job[p].tmp, None, job[p].todo, job[p].made)
      BY <1>19, FailsFields DEF DumpGone, Fails
    <2>2. Apart(p, job[p].tmp, job[p].todo)
      BY <1>19, <1>a, <1>b, ApartStays DEF DumpGone, disk, shared, Shape, At, Fails
    <2>3. Accounted(p, job[p].id, job[p].tmp, None, job[p].made)
      BY <1>19, <1>a, <1>b, NoneIsNothing
         DEF DumpGone, Accounted, disk, shared, Shape, At, Fails
    <2> QED
      BY <2>1, <2>2, <2>3, AccountedStep
  <1>20. ASSUME NEW p \in Procs, CleanOne(p) PROVE NamesInv'
    <2>0. PICK f \in job[p].todo :
            /\ \/ dumps' = dumps \ {f} /\ litter' = litter \ {f}
               \/ UNCHANGED <<dumps, litter>>
            /\ Becomes(p, [job[p] EXCEPT !.todo = job[p].todo \ {f}])
      BY <1>20 DEF CleanOne
    <2>f. f \in Names /\ f \notin lists
      BY DEF NamesInv, ShapeInv, Job
    <2>1. Fields(p, job[p].pc, job[p].id, job[p].tmp, job[p].toc, job[p].todo \ {f}, job[p].made)
      BY <1>20, <2>0, <2>f, TodoFields DEF CleanOne
    <2>2. Apart(p, job[p].tmp, job[p].todo \ {f})
      BY <1>20, <2>0, <2>f, <1>a, <1>b, ApartStays DEF CleanOne, Shape, At
    <2>3. Accounted(p, job[p].id, job[p].tmp, job[p].toc, job[p].made)
      BY <1>20, <2>0, <2>f, <1>a, <1>b, NoneIsNothing, NamesAreNoIds
         DEF CleanOne, Shape, At, Accounted
    <2> QED
      BY <2>1, <2>2, <2>3, AccountedStep
  <1>21. ASSUME NEW p \in Procs, LoadForVerify(p) PROVE NamesInv'
    <2>1. PICK i \in Ids : Becomes(p, [job[p] EXCEPT !.pc = "temp", !.id = i])
      BY <1>21 DEF LoadForVerify, Only
    <2>2. Fields(p, "temp", i, job[p].tmp, job[p].toc, job[p].todo, job[p].made)
      BY <2>1, IdFields
    <2> QED
      BY <1>21, <1>a, <1>c, <2>2 DEF LoadForVerify, Only, shared, At, Shape
  <1>22. ASSUME NEW p \in Procs, CreateTemp(p) PROVE NamesInv'
    <2>0. PICK f \in Names :
            /\ FreeName(f)
            /\ dumps' = dumps \cup {f}
            /\ Becomes(p, [job[p] EXCEPT !.pc = After(p), !.tmp = f])
      BY <1>22 DEF CreateTemp
    <2>1. Fields(p, After(p), job[p].id, f, job[p].toc, job[p].todo, job[p].made)
      BY <2>0, TempFields
    <2>2. Apart(p, f, job[p].todo)
      BY <1>22, <2>0 DEF CreateTemp, FreeName, Apart, NamesInv
    <2>3. Accounted(p, job[p].id, f, job[p].toc, job[p].made)
      BY <1>22, <1>a, <1>b, <2>0 DEF CreateTemp, Accounted, Shape, At
    <2> QED
      BY <2>1, <2>2, <2>3, AccountedStep
  <1>23. ASSUME NEW p \in Procs, FetchFails(p) PROVE NamesInv'
    <2>1. CASE Return(p)
      BY <1>23, <1>a, <1>d, <2>1, ReturnFields DEF FetchFails, At, Shape
    <2>2. CASE ~Return(p)
      <3>1. PICK c \in {"fault", "disk"} :
               Becomes(p, [job[p] EXCEPT !.pc = "revoke", !.tmp = None, !.cause = c])
        BY <1>23, <2>2 DEF FetchFails, Return
      <3>2. Fields(p, "revoke", job[p].id, None, job[p].toc, job[p].todo, job[p].made)
        BY <3>1, RevokeFields
      <3>3. Apart(p, None, job[p].todo)
        BY <1>23, <1>b, ApartStays DEF FetchFails
      <3>4. Accounted(p, job[p].id, None, job[p].toc, job[p].made)
        BY <1>23, <1>a, <1>b DEF FetchFails, Accounted, Shape, At
      <3> QED
        BY <3>2, <3>3, <3>4, AccountedStep
    <2> QED
      BY <2>1, <2>2
  <1>24. ASSUME NEW p \in Procs, CreateScratch(p) PROVE NamesInv'
    <2>1. Fields(p, "toc", job[p].id, job[p].tmp, job[p].toc, job[p].todo, TRUE)
      BY <1>24, ScratchFields DEF CreateScratch
    <2>2. Apart(p, job[p].tmp, job[p].todo)
      BY <1>24, <1>a, <1>b, ApartStays DEF CreateScratch, disk, TypeOK, Databases, Shape, At
    <2>3. Accounted(p, job[p].id, job[p].tmp, job[p].toc, TRUE)
      BY <1>24, <1>a, <1>b, NoneIsNothing, NamesAreNoIds
         DEF CreateScratch, disk, TypeOK, Databases, Shape, At, Accounted
    <2> QED
      BY <2>1, <2>2, <2>3, AccountedStep
  <1>25. ASSUME NEW p \in Procs, SandboxTOC(p) PROVE NamesInv'
    <2>0. PICK f \in Names :
            /\ FreeName(f)
            /\ lists' = lists \cup {f}
            /\ Becomes(p, [job[p] EXCEPT !.pc = "scratch", !.toc = f])
      BY <1>25 DEF SandboxTOC
    <2>1. Fields(p, "scratch", job[p].id, job[p].tmp, f, job[p].todo, job[p].made)
      BY <2>0, ListFields
    <2>2. Apart(p, job[p].tmp, job[p].todo)
      BY <1>25, <2>0 DEF SandboxTOC, FreeName, Apart, NamesInv
    <2>3. Accounted(p, job[p].id, job[p].tmp, f, job[p].made)
      BY <1>25, <1>a, <1>b, <2>0 DEF SandboxTOC, Accounted, Shape, At
    <2> QED
      BY <2>1, <2>2, <2>3, AccountedStep
  <1>26. ASSUME NEW p \in Procs, RestoreScratch(p) PROVE NamesInv'
    <2>1. Fields(p, "count", job[p].id, job[p].tmp, None, job[p].todo, job[p].made)
      BY <1>26, ListFields DEF RestoreScratch
    <2>2. Apart(p, job[p].tmp, job[p].todo)
      BY <1>26, <1>a, <1>b, ApartStays DEF RestoreScratch, TypeOK, Databases, Shape, At
    <2>3. Accounted(p, job[p].id, job[p].tmp, None, job[p].made)
      BY <1>26, <1>a, <1>b, NoneIsNothing, NamesAreNoIds
         DEF RestoreScratch, TypeOK, Databases, Shape, At, Accounted
    <2> QED
      BY <2>1, <2>2, <2>3, AccountedStep
  <1>27. ASSUME NEW p \in Procs, RestoreScratchFails(p) PROVE NamesInv'
    <2>1. Fields(p, "revoke", job[p].id, job[p].tmp, None, job[p].todo, job[p].made)
      BY <1>27, FailsFields DEF RestoreScratchFails
    <2>2. Apart(p, job[p].tmp, job[p].todo)
      BY <1>27, <1>a, <1>b, ApartStays
         DEF RestoreScratchFails, Fails, TypeOK, Databases, Shape, At
    <2>3. Accounted(p, job[p].id, job[p].tmp, None, job[p].made)
      BY <1>27, <1>a, <1>b, NoneIsNothing, NamesAreNoIds
         DEF RestoreScratchFails, Fails, TypeOK, Databases, Shape, At, Accounted
    <2> QED
      BY <2>1, <2>2, <2>3, AccountedStep
  <1>28. ASSUME NEW p \in Procs, Revoke(p) PROVE NamesInv'
    <2>1. CASE job[p].made
      <3>1. Fields(p, "drop", job[p].id, job[p].tmp, job[p].toc, job[p].todo, job[p].made)
        BY <1>28, <2>1, CauseFields DEF Revoke
      <3> QED
        BY <1>28, <1>c, <3>1 DEF Revoke
    <2>2. CASE ~job[p].made
      BY <1>28, <1>a, <1>d, <2>2, EndsFields DEF Revoke, At, Shape, disk
    <2> QED
      BY <2>1, <2>2
  <1>29. ASSUME NEW p \in Procs, Drop(p) PROVE NamesInv'
    <2>1. Fields(p, "unlink", None, job[p].tmp, None, {}, FALSE)
      BY <1>29, EndsFields DEF Drop
    <2>2. Apart(p, job[p].tmp, {})
      BY <1>29, <1>a, <1>b, ApartStays DEF Drop, TypeOK, Databases, Shape, At
    <2>3. Accounted(p, None, job[p].tmp, None, FALSE)
      BY <1>29, <1>a, <1>b, NoneIsNothing, NamesAreNoIds
         DEF Drop, TypeOK, Databases, Shape, At, Accounted
    <2> QED
      BY <2>1, <2>2, <2>3, AccountedStep
  <1>30. ASSUME NEW p \in Procs, RestoreInto(p) PROVE NamesInv'
    <2>t. job[p].target \notin Ids
      BY NoneIsNothing, TargetsAreNoScratch DEF ShapeInv, Job
    <2>1. Fields(p, "unlink", None, job[p].tmp, None, {}, FALSE)
      BY <1>30, <2>t, EndsFields DEF RestoreInto
    <2>2. Apart(p, job[p].tmp, {})
      BY <1>30, <2>t, <1>a, <1>b, ApartStays DEF RestoreInto, disk, TypeOK, Databases, Shape, At
    <2>3. Accounted(p, None, job[p].tmp, None, FALSE)
      BY <1>30, <2>t, <1>a, <1>b, NoneIsNothing, NamesAreNoIds
         DEF RestoreInto, disk, TypeOK, Databases, Shape, At, Accounted
    <2> QED
      BY <2>1, <2>2, <2>3, AccountedStep
  <1>31. ASSUME NEW p \in Procs, RestoreIntoFails(p) PROVE NamesInv'
    <2>t. job[p].target \notin Ids
      BY NoneIsNothing, TargetsAreNoScratch DEF ShapeInv, Job
    <2>1. Fields(p, "unlink", None, job[p].tmp, None, {}, FALSE)
      BY <1>31, <2>t, EndsFields DEF RestoreIntoFails
    <2>2. Apart(p, job[p].tmp, {})
      BY <1>31, <2>t, <1>a, <1>b, ApartStays
         DEF RestoreIntoFails, disk, TypeOK, Databases, Shape, At
    <2>3. Accounted(p, None, job[p].tmp, None, FALSE)
      BY <1>31, <2>t, <1>a, <1>b, NoneIsNothing, NamesAreNoIds
         DEF RestoreIntoFails, disk, TypeOK, Databases, Shape, At, Accounted
    <2> QED
      BY <2>1, <2>2, <2>3, AccountedStep
  <1>32. ASSUME NEW p \in Procs, Dump(p) PROVE NamesInv'
    <2>1. Fields(p, "hash", job[p].id, job[p].tmp, job[p].toc, job[p].todo, job[p].made)
      BY <1>32, GoesFields DEF Dump
    <2>2. Apart(p, job[p].tmp, job[p].todo)
      BY <1>32, <1>a, <1>b, ApartStays DEF Dump, Shape, At
    <2>3. Accounted(p, job[p].id, job[p].tmp, job[p].toc, job[p].made)
      BY <1>32, <1>a, <1>b, NoneIsNothing, NamesAreNoIds DEF Dump, Shape, At, Accounted
    <2> QED
      BY <2>1, <2>2, <2>3, AccountedStep
  <1>33. ASSUME NEW p \in Procs, Kill(p) PROVE NamesInv'
    <2>0. Return(p)
      BY <1>33 DEF Kill, Return
    <2>1. Fields(p, "idle", None, None, None, {}, FALSE)
      BY <1>33, <2>0, ReturnFields DEF Kill
    <2>2. Apart(p, None, {})
      BY <1>33, <2>0, <1>a, <1>b, ApartStays DEF Kill
    <2>3. Accounted(p, None, None, None, FALSE)
      BY <1>33, <2>0, <1>a, <1>b, NoneIsNothing, NamesAreNoIds DEF Kill, Accounted
    <2> QED
      BY <2>1, <2>2, <2>3, AccountedStep
  <1>34. ASSUME NEW p \in Procs, OpenFile(p) PROVE NamesInv'
    <2>1. Fields(p, "write", job[p].id, job[p].tmp, job[p].toc, job[p].todo, job[p].made)
      BY <1>34, OpenFields
    <2> QED
      BY <1>34, <1>c, <2>1 DEF OpenFile
  <1>35. ASSUME NEW p \in Procs, NEW cmd \in Commands[p], Start(p, cmd) PROVE NamesInv'
    <2>0. PICK anew \in BOOLEAN : Begins(p, cmd, anew)
      BY <1>35, BeginsIs
    <2> DEFINE todo == IF anew THEN dumps ELSE {}
    <2>1. Fields(p, "clean", None, None, None, todo, FALSE)
      BY <2>0, StartFields
    <2>2. Apart(p, None, todo)
      BY <1>35, <1>b DEF Start, Apart, NamesInv, shared, disk
    <2>3. Accounted(p, None, None, None, FALSE)
      BY <1>35, <1>a, <1>b DEF Start, Accounted, shared, disk, Shape, At
    <2> HIDE DEF todo
    <2> QED
      BY <2>1, <2>2, <2>3, AccountedStep
  <1>36. ASSUME NEW d \in {Target, Source}, Filled(d) PROVE NamesInv'
    BY <1>36, TargetsAreNoScratch
       DEF Filled, NamesInv, NothingIsLeft, disk, TypeOK, Databases
  <1>37. CASE UNCHANGED vars
    BY <1>37 DEF vars, NamesInv, NothingIsLeft
  <1>38. ASSUME NEW p \in Procs, CreateScratchUnseen(p) PROVE NamesInv'
    <2>1. Fields(p, "revoke", job[p].id, job[p].tmp, job[p].toc, job[p].todo, job[p].made)
      BY <1>38, CauseFields DEF CreateScratchUnseen
    <2>2. Apart(p, job[p].tmp, job[p].todo)
      BY <1>38, <1>b, ApartStays DEF CreateScratchUnseen
    <2>3. ~job[p].made /\ job[p].toc = None
      BY <1>38, <1>a DEF CreateScratchUnseen, Shape, At
    <2>4. \A i \in Ids : db'[i] # None => db[i] # None \/ i \in litter'
      BY <1>38 DEF CreateScratchUnseen, TypeOK, Databases
    <2> QED
      <3>1. \A q \in Procs : job'[q].tmp = job[q].tmp /\ job'[q].toc = job[q].toc
                             /\ job'[q].todo = job[q].todo /\ job'[q].id = job[q].id
                             /\ (job[q].made => job'[q].made)
        BY <2>1, <2>3 DEF Fields, Kept
      <3> QED
        BY <1>38, <2>4, <3>1 DEF CreateScratchUnseen, NamesInv, NothingIsLeft
  <1> QED
    BY <1>1, <1>2, <1>3, <1>4, <1>5, <1>6, <1>7, <1>8, <1>9, <1>10, <1>11, <1>12, <1>13,
       <1>14, <1>15, <1>16, <1>17, <1>18, <1>19, <1>20, <1>21, <1>22, <1>23, <1>24, <1>25,
       <1>26, <1>27, <1>28, <1>29, <1>30, <1>31, <1>32, <1>33, <1>34, <1>35, <1>36, <1>37,
       <1>38
       DEF Next, Common, VerifyStep, RestoreStep, BackupStep

-----------------------------------------------------------------------------
(* Scratch databases.                                                      *)

\* A scratch database has one maker, and holds what that maker has got to.
ScratchInv ==
    /\ db[Target] # None /\ db[Source] # None
    /\ \A p \in Procs : job[p].made => db[job[p].id] # None
    /\ \A p, q \in Procs : p # q /\ job[p].made /\ job[q].made => job[p].id # job[q].id
    /\ \A p \in Procs :
          /\ job[p].pc \in {"toc", "scratch"} => db[job[p].id] = {}
          /\ job[p].pc \in {"count", "prove"} => db[job[p].id] = {job[p].id}

\* A step of p that makes no scratch database and changes none.
LEMMA ScratchKept ==
    ASSUME ShapeInv, ScratchInv, NEW p \in Procs,
           NEW pc, NEW id, NEW tmp, NEW toc, NEW todo, NEW made,
           Fields(p, pc, id, tmp, toc, todo, made),
           made => job[p].made /\ id = job[p].id,
           pc \in {"toc", "scratch"} => job[p].pc \in {"toc", "scratch"} /\ id = job[p].id,
           pc \in {"count", "prove"} => job[p].pc \in {"count", "prove"} /\ id = job[p].id,
           \A i \in Ids : db'[i] = db[i], db'[Target] # None, db'[Source] # None
    PROVE  ScratchInv'
  <1>1. ASSUME NEW q \in Procs
        PROVE  /\ job[q].made => job[q].id \in Ids
               /\ job[q].pc \in {"toc", "scratch", "count", "prove"} => job[q].id \in Ids
    BY DEF ShapeInv, Job, Shape, VerifySteps
  <1> QED
    BY <1>1 DEF ScratchInv, Fields, Kept

\* No step gives a scratch database a second maker or other contents.
LEMMA ScratchStep == TypeOK /\ ShapeInv /\ ScratchInv /\ [Next]_vars => ScratchInv'
  <1> SUFFICES ASSUME TypeOK, ShapeInv, ScratchInv, [Next]_vars PROVE ScratchInv'
    OBVIOUS
  <1>a. ASSUME NEW p \in Procs
        PROVE  /\ Shape(job[p])
               /\ job[p].made => job[p].id \in Ids
               /\ job[p].pc \in {"create", "toc", "scratch", "count", "prove"} => job[p].id \in Ids
               /\ job[p].target \in {Target, Source, None}
    BY DEF ShapeInv, Job, Shape, VerifySteps
  <1>q. ASSUME NEW p \in Procs, NEW pc, NEW id, NEW tmp, NEW toc, NEW todo, NEW made,
               Fields(p, pc, id, tmp, toc, todo, made), UNCHANGED db,
               made => job[p].made /\ id = job[p].id,
               pc \in {"toc", "scratch", "count", "prove"} =>
                  /\ id = job[p].id
                  /\ pc \in {"toc", "scratch"} => job[p].pc \in {"toc", "scratch"}
                  /\ pc \in {"count", "prove"} => job[p].pc \in {"count", "prove"}
        PROVE  ScratchInv'
    BY <1>q, ScratchKept DEF ScratchInv
  <1>1. ASSUME NEW p \in Procs, CleanOne(p) PROVE ScratchInv'
    <2>0. PICK f \in job[p].todo : Becomes(p, [job[p] EXCEPT !.todo = job[p].todo \ {f}])
      BY <1>1 DEF CleanOne
    <2>1. Fields(p, job[p].pc, job[p].id, job[p].tmp, job[p].toc, job[p].todo \ {f}, job[p].made)
      BY <2>0, TodoFields
    <2> QED
      BY <1>1, <1>a, <1>q, <2>1 DEF CleanOne
  <1>2. ASSUME NEW p \in Procs, CleanDone(p) PROVE ScratchInv'
    <2>1. Fields(p, IF job[p].cmd = "backup" THEN "temp" ELSE "load",
                 job[p].id, job[p].tmp, job[p].toc, job[p].todo, job[p].made)
      BY <1>2, GoesFields DEF CleanDone
    <2> QED
      BY <1>2, <1>a, <1>q, <2>1 DEF CleanDone, shared, disk, At, Shape, VerifySteps
  <1>3. ASSUME NEW p \in Procs, LoadForVerify(p) PROVE ScratchInv'
    <2>0. PICK i \in Ids : Becomes(p, [job[p] EXCEPT !.pc = "temp", !.id = i])
      BY <1>3 DEF LoadForVerify, Only
    <2>1. Fields(p, "temp", i, job[p].tmp, job[p].toc, job[p].todo, job[p].made)
      BY <2>0, IdFields
    <2> QED
      BY <1>3, <1>a, <1>q, <2>1 DEF LoadForVerify, Only, shared, At, Shape
  <1>4. ASSUME NEW p \in Procs, LoadForRestore(p) PROVE ScratchInv'
    <2>0. PICK i \in Ids, force \in BOOLEAN,
               t \in IF job[p].cmd = "tofile" THEN {None} ELSE {Target, Source} :
             Becomes(p, [job[p] EXCEPT !.pc = IF t = None THEN "open" ELSE "inspect",
                                       !.id = i, !.target = t, !.force = force])
      BY <1>4 DEF LoadForRestore, Only
    <2>1. Fields(p, IF t = None THEN "open" ELSE "inspect",
                 i, job[p].tmp, job[p].toc, job[p].todo, job[p].made)
      BY <2>0, LoadFields
    <2> QED
      BY <1>4, <1>a, <1>q, <2>1 DEF LoadForRestore, Only, shared, At, Shape
  <1>5. ASSUME NEW p \in Procs, Refuse(p) PROVE ScratchInv'
    <2>1. Fields(p, "idle", None, None, None, {}, FALSE)
      BY <1>5, ReturnFields DEF Refuse
    <2> QED
      BY <1>5, <1>a, <1>q, <2>1 DEF Refuse, shared, disk, At, Shape, VerifySteps
  <1>6. ASSUME NEW p \in Procs, InspectRefuses(p) PROVE ScratchInv'
    <2>1. Fields(p, "idle", None, None, None, {}, FALSE)
      BY <1>6, ReturnFields DEF InspectRefuses
    <2> QED
      BY <1>6, <1>a, <1>q, <2>1 DEF InspectRefuses, shared, disk, At, Shape, VerifySteps
  <1>7. ASSUME NEW p \in Procs, OpenFileFails(p) PROVE ScratchInv'
    <2>1. Fields(p, "idle", None, None, None, {}, FALSE)
      BY <1>7, ReturnFields DEF OpenFileFails
    <2> QED
      BY <1>7, <1>a, <1>q, <2>1 DEF OpenFileFails, shared, disk, At, Shape, VerifySteps
  <1>8. ASSUME NEW p \in Procs, WriteFile(p) PROVE ScratchInv'
    <2>1. Fields(p, "idle", None, None, None, {}, FALSE)
      BY <1>8, ReturnFields DEF WriteFile
    <2> QED
      BY <1>8, <1>a, <1>q, <2>1 DEF WriteFile, shared, disk, At, Shape, VerifySteps
  <1>9. ASSUME NEW p \in Procs, WriteFileFails(p) PROVE ScratchInv'
    <2>1. Fields(p, "idle", None, None, None, {}, FALSE)
      BY <1>9, ReturnFields DEF WriteFileFails
    <2> QED
      BY <1>9, <1>a, <1>q, <2>1 DEF WriteFileFails, shared, disk, At, Shape, VerifySteps
  <1>10. ASSUME NEW p \in Procs, WriteFails(p) PROVE ScratchInv'
    <2>1. Fields(p, "idle", None, None, None, {}, FALSE)
      BY <1>10, ReturnFields DEF WriteFails
    <2> QED
      BY <1>10, <1>a, <1>q, <2>1 DEF WriteFails, shared, disk, At, Shape, VerifySteps
  <1>11. ASSUME NEW p \in Procs, Unlink(p) PROVE ScratchInv'
    <2>1. Fields(p, "idle", None, None, None, {}, FALSE)
      BY <1>11, ReturnFields DEF Unlink
    <2> QED
      BY <1>11, <1>a, <1>q, <2>1 DEF Unlink, shared, disk, At, Shape, VerifySteps
  <1>12. ASSUME NEW p \in Procs, CreateTemp(p) PROVE ScratchInv'
    <2>0. PICK f \in Names : Becomes(p, [job[p] EXCEPT !.pc = After(p), !.tmp = f])
      BY <1>12 DEF CreateTemp
    <2>1. Fields(p, After(p), job[p].id, f, job[p].toc, job[p].todo, job[p].made)
      BY <2>0, TempFields
    <2> QED
      BY <1>12, <1>a, <1>q, <2>1 DEF CreateTemp, After
  <1>13. ASSUME NEW p \in Procs, Fetch(p) PROVE ScratchInv'
    <2>1. Fields(p, IF Verifying(p) THEN "list" ELSE "into",
                 job[p].id, job[p].tmp, job[p].toc, job[p].todo, job[p].made)
      BY <1>13, GoesFields DEF Fetch
    <2> QED
      BY <1>13, <1>a, <1>q, <2>1 DEF Fetch, shared, disk, At, Shape, VerifySteps
  <1>14. ASSUME NEW p \in Procs, FetchFails(p) PROVE ScratchInv'
    <2>1. CASE Return(p)
      BY <1>14, <1>q, <2>1, ReturnFields DEF FetchFails
    <2>2. CASE ~Return(p)
      <3>1. PICK c \in {"fault", "disk"} :
               Becomes(p, [job[p] EXCEPT !.pc = "revoke", !.tmp = None, !.cause = c])
        BY <1>14, <2>2 DEF FetchFails, Return
      <3>2. Fields(p, "revoke", job[p].id, None, job[p].toc, job[p].todo, job[p].made)
        BY <3>1, RevokeFields
      <3> QED
        BY <1>14, <1>q, <3>2 DEF FetchFails
    <2> QED
      BY <2>1, <2>2
  <1>15. ASSUME NEW p \in Procs, ToolFails(p) PROVE ScratchInv'
    <2>1. Fields(p, "revoke", job[p].id, job[p].tmp, None, job[p].todo, job[p].made)
      BY <1>15, FailsFields DEF ToolFails, Fails
    <2> QED
      BY <1>15, <1>a, <1>q, <2>1 DEF ToolFails, shared, disk, At, Shape, VerifySteps, Fails
  <1>16. ASSUME NEW p \in Procs, DumpGone(p) PROVE ScratchInv'
    <2>1. Fields(p, "revoke", job[p].id, job[p].tmp, None, job[p].todo, job[p].made)
      BY <1>16, FailsFields DEF DumpGone, Fails
    <2> QED
      BY <1>16, <1>a, <1>q, <2>1 DEF DumpGone, shared, disk, At, Shape, VerifySteps, Fails
  <1>17. ASSUME NEW p \in Procs, ListArchive(p) PROVE ScratchInv'
    <2>1. Fields(p, "create", job[p].id, job[p].tmp, job[p].toc, job[p].todo, job[p].made)
      BY <1>17, GoesFields DEF ListArchive
    <2> QED
      BY <1>17, <1>a, <1>q, <2>1 DEF ListArchive, shared, disk, At, Shape, VerifySteps
  <1>18. ASSUME NEW p \in Procs, CreateScratch(p) PROVE ScratchInv'
    <2>1. Fields(p, "toc", job[p].id, job[p].tmp, job[p].toc, job[p].todo, TRUE)
      BY <1>18, ScratchFields DEF CreateScratch
    <2>2. job[p].id \in Ids /\ db[job[p].id] = None /\ ~job[p].made
      BY <1>18, <1>a DEF CreateScratch, At, Shape
    <2>3. /\ db'[job[p].id] = {}
          /\ \A d \in Databases : d # job[p].id => db'[d] = db[d]
      BY <1>18, <2>2 DEF CreateScratch, TypeOK, Databases
    <2>4. \A q \in Procs \ {p} : job[q].made => job[q].id # job[p].id
      BY <2>2 DEF ScratchInv
    <2>5. \A q \in Procs \ {p} : job[q].pc \in {"toc", "scratch", "count", "prove"} => job[q].made
      BY <1>a DEF Shape
    <2>6. {} # None /\ Target \in Databases /\ Source \in Databases
      BY NoneIsNothing DEF Databases
    <2> QED
      BY <1>a, <2>1, <2>2, <2>3, <2>4, <2>5, <2>6, TargetsAreNoScratch
         DEF ScratchInv, Fields, Kept, Databases
  <1>19. ASSUME NEW p \in Procs, ScratchExists(p) PROVE ScratchInv'
    <2>1. Fields(p, "revoke", job[p].id, job[p].tmp, job[p].toc, job[p].todo, job[p].made)
      BY <1>19, CauseFields DEF ScratchExists, Only
    <2> QED
      BY <1>19, <1>a, <1>q, <2>1 DEF ScratchExists, shared, disk, At, Shape, VerifySteps, Only
  <1>20. ASSUME NEW p \in Procs, SandboxTOC(p) PROVE ScratchInv'
    <2>0. PICK f \in Names : Becomes(p, [job[p] EXCEPT !.pc = "scratch", !.toc = f])
      BY <1>20 DEF SandboxTOC
    <2>1. Fields(p, "scratch", job[p].id, job[p].tmp, f, job[p].todo, job[p].made)
      BY <2>0, ListFields
    <2> QED
      BY <1>20, <1>a, <1>q, <2>1 DEF SandboxTOC, At
  <1>21. ASSUME NEW p \in Procs, RestoreScratch(p) PROVE ScratchInv'
    <2>1. Fields(p, "count", job[p].id, job[p].tmp, None, job[p].todo, job[p].made)
      BY <1>21, ListFields DEF RestoreScratch
    <2>2. job[p].id \in Ids /\ job[p].made
      BY <1>21, <1>a DEF RestoreScratch, Fails, At, Shape
    <2>3. /\ db'[job[p].id] = {job[p].id}
          /\ \A d \in Databases : d # job[p].id => db'[d] = db[d]
      BY <1>21, <2>2 DEF RestoreScratch, Fails, TypeOK, Databases, At, ScratchInv
    <2>4. \A q \in Procs \ {p} : job[q].made => job[q].id # job[p].id
      BY <2>2 DEF ScratchInv
    <2>5. \A q \in Procs \ {p} : job[q].pc \in {"toc", "scratch", "count", "prove"} => job[q].made
      BY <1>a DEF Shape
    <2> QED
      BY <1>a, <2>1, <2>2, <2>3, <2>4, <2>5, NoneIsNothing, TargetsAreNoScratch
         DEF ScratchInv, Fields, Kept, Databases, Contents
  <1>22. ASSUME NEW p \in Procs, RestoreScratchFails(p) PROVE ScratchInv'
    <2>1. Fields(p, "revoke", job[p].id, job[p].tmp, None, job[p].todo, job[p].made)
      BY <1>22, FailsFields DEF RestoreScratchFails
    <2>2. job[p].id \in Ids /\ job[p].made
      BY <1>22, <1>a DEF RestoreScratchFails, Fails, At, Shape
    <2>3. /\ db'[job[p].id] \in {{}, {job[p].id}}
          /\ \A d \in Databases : d # job[p].id => db'[d] = db[d]
      BY <1>22, <2>2 DEF RestoreScratchFails, Fails, TypeOK, Databases, At, ScratchInv
    <2>4. \A q \in Procs \ {p} : job[q].made => job[q].id # job[p].id
      BY <2>2 DEF ScratchInv
    <2>5. \A q \in Procs \ {p} : job[q].pc \in {"toc", "scratch", "count", "prove"} => job[q].made
      BY <1>a DEF Shape
    <2> QED
      BY <1>a, <2>1, <2>2, <2>3, <2>4, <2>5, NoneIsNothing, TargetsAreNoScratch
         DEF ScratchInv, Fields, Kept, Databases, Contents
  <1>23. ASSUME NEW p \in Procs, Count(p) PROVE ScratchInv'
    <2>1. Fields(p, "prove", job[p].id, job[p].tmp, job[p].toc, job[p].todo, job[p].made)
      BY <1>23, GoesFields DEF Count
    <2> QED
      BY <1>23, <1>a, <1>q, <2>1 DEF Count, shared, disk, At, Shape, VerifySteps
  <1>24. ASSUME NEW p \in Procs, Prove(p) PROVE ScratchInv'
    <2>1. Fields(p, "drop", job[p].id, job[p].tmp, job[p].toc, job[p].todo, job[p].made)
      BY <1>24, GoesFields DEF Prove
    <2> QED
      BY <1>24, <1>a, <1>q, <2>1 DEF Prove, shared, disk, At, Shape, VerifySteps
  <1>25. ASSUME NEW p \in Procs, Revoke(p) PROVE ScratchInv'
    <2>1. CASE job[p].made
      <3>1. Fields(p, "drop", job[p].id, job[p].tmp, job[p].toc, job[p].todo, job[p].made)
        BY <1>25, <2>1, CauseFields DEF Revoke
      <3> QED
        BY <1>25, <1>q, <3>1 DEF Revoke
    <2>2. CASE ~job[p].made
      BY <1>25, <1>q, <2>2, EndsFields DEF Revoke
    <2> QED
      BY <2>1, <2>2
  <1>26. ASSUME NEW p \in Procs, Drop(p) PROVE ScratchInv'
    <2>1. Fields(p, "unlink", None, job[p].tmp, None, {}, FALSE)
      BY <1>26, EndsFields DEF Drop
    <2>2. job[p].id \in Ids /\ job[p].made
      BY <1>26, <1>a DEF Drop, At, Shape
    <2>3. \A d \in Databases : d # job[p].id => db'[d] = db[d]
      BY <1>26 DEF Drop, TypeOK
    <2>4. \A q \in Procs \ {p} : job[q].made => job[q].id # job[p].id
      BY <2>2 DEF ScratchInv
    <2>5. \A q \in Procs \ {p} : job[q].pc \in {"toc", "scratch", "count", "prove"} => job[q].made
      BY <1>a DEF Shape
    <2> QED
      BY <1>a, <2>1, <2>2, <2>3, <2>4, <2>5, TargetsAreNoScratch
         DEF ScratchInv, Fields, Kept, Databases
  <1>27. ASSUME NEW p \in Procs, Inspect(p) PROVE ScratchInv'
    <2>1. Fields(p, "temp", job[p].id, job[p].tmp, job[p].toc, job[p].todo, job[p].made)
      BY <1>27, CleanFields DEF Inspect, Only
    <2> QED
      BY <1>27, <1>a, <1>q, <2>1 DEF Inspect, shared, disk, At, Shape, VerifySteps, Only
  <1>28. ASSUME NEW p \in Procs, RestoreInto(p) PROVE ScratchInv'
    <2>1. Fields(p, "unlink", None, job[p].tmp, None, {}, FALSE)
      BY <1>28, EndsFields DEF RestoreInto
    <2>2. job[p].target \in {Target, Source} /\ job[p].id \in Ids
      BY <1>28, <1>a DEF RestoreInto, At, Shape, VerifySteps, ShapeInv, Job
    <2>3. db[job[p].target] \in SUBSET Contents
      BY <2>2 DEF ScratchInv, TypeOK, Databases
    <2>4. PICK held \in SUBSET Contents : db' = [db EXCEPT ![job[p].target] = held]
      BY <1>28, <2>2, <2>3 DEF RestoreInto, Restored, Contents
    <2>5. \A i \in Ids : db'[i] = db[i]
      BY <2>2, <2>4, TargetsAreNoScratch DEF TypeOK, Databases
    <2>6. db'[Target] # None /\ db'[Source] # None
      BY <2>2, <2>4, NoneIsNothing DEF TypeOK, Databases, ScratchInv
    <2> QED
      BY <2>1, <2>5, <2>6, ScratchKept
  <1>29. ASSUME NEW p \in Procs, RestoreIntoFails(p) PROVE ScratchInv'
    <2>1. Fields(p, "unlink", None, job[p].tmp, None, {}, FALSE)
      BY <1>29, EndsFields DEF RestoreIntoFails
    <2>2. job[p].target \in {Target, Source} /\ job[p].id \in Ids
      BY <1>29, <1>a DEF RestoreIntoFails, At, Shape, VerifySteps, ShapeInv, Job
    <2>3. db[job[p].target] \in SUBSET Contents
      BY <2>2 DEF ScratchInv, TypeOK, Databases
    <2>4. PICK held \in SUBSET Contents : db' = [db EXCEPT ![job[p].target] = held]
      BY <1>29, <2>2, <2>3 DEF RestoreIntoFails, Restored, Contents
    <2>5. \A i \in Ids : db'[i] = db[i]
      BY <2>2, <2>4, TargetsAreNoScratch DEF TypeOK, Databases
    <2>6. db'[Target] # None /\ db'[Source] # None
      BY <2>2, <2>4, NoneIsNothing DEF TypeOK, Databases, ScratchInv
    <2> QED
      BY <2>1, <2>5, <2>6, ScratchKept
  <1>30. ASSUME NEW p \in Procs, Dump(p) PROVE ScratchInv'
    <2>1. Fields(p, "hash", job[p].id, job[p].tmp, job[p].toc, job[p].todo, job[p].made)
      BY <1>30, GoesFields DEF Dump
    <2> QED
      BY <1>30, <1>a, <1>q, <2>1 DEF Dump, shared, disk, At, Shape, VerifySteps
  <1>31. ASSUME NEW p \in Procs, Hash(p) PROVE ScratchInv'
    <2>1. Fields(p, "read", job[p].id, job[p].tmp, job[p].toc, job[p].todo, job[p].made)
      BY <1>31, GoesFields DEF Hash
    <2> QED
      BY <1>31, <1>a, <1>q, <2>1 DEF Hash, shared, disk, At, Shape, VerifySteps
  <1>32. ASSUME NEW p \in Procs, Read(p) PROVE ScratchInv'
    <2>1. Fields(p, "unlink", None, job[p].tmp, None, {}, FALSE)
      BY <1>32, EndsFields DEF Read
    <2> QED
      BY <1>32, <1>a, <1>q, <2>1 DEF Read, shared, disk, At, Shape, VerifySteps
  <1>33. ASSUME NEW p \in Procs, Kill(p) PROVE ScratchInv'
    <2>1. Fields(p, "idle", None, None, None, {}, FALSE)
      BY <1>33, ReturnFields DEF Kill, Return
    <2> QED
      BY <1>33, <1>q, <2>1 DEF Kill
  <1>34. ASSUME NEW p \in Procs, OpenFile(p) PROVE ScratchInv'
    <2>1. Fields(p, "write", job[p].id, job[p].tmp, job[p].toc, job[p].todo, job[p].made)
      BY <1>34, OpenFields
    <2>2. UNCHANGED db
      BY <1>34 DEF OpenFile
    <2> QED
      BY <1>q, <2>1, <2>2
  <1>35. ASSUME NEW p \in Procs, NEW cmd \in Commands[p], Start(p, cmd) PROVE ScratchInv'
    <2>1. PICK anew \in BOOLEAN : Begins(p, cmd, anew)
      BY <1>35, BeginsIs
    <2>2. Fields(p, "clean", None, None, None, IF anew THEN dumps ELSE {}, FALSE)
      BY <2>1, StartFields
    <2> QED
      BY <1>35, <1>q, <2>2 DEF Start, shared
  <1>36. ASSUME NEW d \in {Target, Source}, Filled(d) PROVE ScratchInv'
    <2>1. db[d] \in SUBSET Contents
      BY DEF ScratchInv, TypeOK, Databases
    <2>2. db'[d] # None /\ (\A e \in Databases : e # d => db'[e] = db[e]) /\ UNCHANGED job
      BY <1>36, <2>1, NoneIsNothing DEF Filled, TypeOK, Databases, Contents
    <2> QED
      BY <1>a, <2>2, TargetsAreNoScratch DEF ScratchInv, Databases
  <1>37. CASE UNCHANGED vars
    BY <1>37 DEF vars, ScratchInv
  <1>38. ASSUME NEW p \in Procs, CreateScratchUnseen(p) PROVE ScratchInv'
    <2>1. Fields(p, "revoke", job[p].id, job[p].tmp, job[p].toc, job[p].todo, job[p].made)
      BY <1>38, CauseFields DEF CreateScratchUnseen
    <2>2. job[p].id \in Ids /\ db[job[p].id] = None /\ ~job[p].made
      BY <1>38, <1>a DEF CreateScratchUnseen, At, Shape
    <2>3. \A d \in Databases : d # job[p].id => db'[d] = db[d]
      BY <1>38 DEF CreateScratchUnseen, TypeOK
    <2>4. \A q \in Procs : job[q].made => job[q].id # job[p].id
      BY <2>2 DEF ScratchInv
    <2>5. \A q \in Procs \ {p} : job[q].pc \in {"toc", "scratch", "count", "prove"} => job[q].made
      BY <1>a DEF Shape
    <2> QED
      BY <1>a, <2>1, <2>2, <2>3, <2>4, <2>5, TargetsAreNoScratch
         DEF ScratchInv, Fields, Kept, Databases
  <1> QED
    BY <1>1, <1>2, <1>3, <1>4, <1>5, <1>6, <1>7, <1>8, <1>9, <1>10, <1>11, <1>12, <1>13,
       <1>14, <1>15, <1>16, <1>17, <1>18, <1>19, <1>20, <1>21, <1>22, <1>23, <1>24, <1>25,
       <1>26, <1>27, <1>28, <1>29, <1>30, <1>31, <1>32, <1>33, <1>34, <1>35, <1>36, <1>37,
       <1>38
       DEF Next, Common, VerifyStep, RestoreStep, BackupStep

-----------------------------------------------------------------------------
(* A verify that is alone.                                                 *)

\* The steps between the decrypted dump and its restore.
HasDump == {"fetch", "list", "create", "toc", "scratch"}

\* It finds its dump, and finds its database free unless it is litter.
AloneInv ==
    \A p \in Procs : job[p].alone =>
        /\ \A q \in Procs \ {p} : job[q].pc = "idle"
        /\ job[p].pc \in HasDump => job[p].tmp \in dumps
        /\ job[p].pc = "revoke" /\ job[p].id \notin litter => job[p].cause \notin {"gone", "exists"}

\* While one verify is alone, no step is another's, unless it starts.
LEMMA AloneMoves ==
    ASSUME AloneInv, NEW p \in Procs,
           NEW pc, NEW id, NEW tmp, NEW toc, NEW todo, NEW made, NEW cause, NEW alone,
           Fields(p, pc, id, tmp, toc, todo, made), Hist(p, cause, alone),
           job[p].pc # "idle" \/ \A q \in Procs \ {p} : ~job'[q].alone,
           alone => /\ \A q \in Procs \ {p} : job[q].pc = "idle"
                    /\ pc \in HasDump => tmp \in dumps'
                    /\ pc = "revoke" /\ id \notin litter' => cause \notin {"gone", "exists"}
    PROVE  AloneInv'
  <1>1. ASSUME NEW q \in Procs \ {p} PROVE ~job'[q].alone
    BY DEF Hist, AloneInv
  <1>2. job'[p].alone => alone
    BY DEF Hist
  <1> QED
    BY <1>1, <1>2 DEF AloneInv, Fields, Hist, Kept

\* Nothing happens to a verify that is alone but what it does.
LEMMA AloneStep == TypeOK /\ ShapeInv /\ NamesInv /\ AloneInv /\ [Next]_vars => AloneInv'
  <1> SUFFICES ASSUME TypeOK, ShapeInv, NamesInv, AloneInv, [Next]_vars PROVE AloneInv'
    OBVIOUS
  <1>a. ASSUME NEW p \in Procs PROVE Shape(job[p]) /\ job[p].id \in Ids \cup {None}
    BY DEF ShapeInv, Job
  \* A command that is over is no verify any more.
  <1>d. ASSUME NEW p \in Procs, job[p].pc # "idle", Return(p) \/ Ends(p) PROVE AloneInv'
    <2>1. CASE Return(p)
      BY <1>d, <2>1, ReturnFields, AloneMoves
    <2>2. CASE Ends(p)
      BY <1>d, <2>2, EndsFields, AloneMoves
    <2> QED
      BY <1>d, <2>1, <2>2
  \* A step that goes on with the dump it has, or has none to go on with.
  <1>q. ASSUME NEW p \in Procs, job[p].pc # "idle",
               NEW pc, NEW id, NEW tmp, NEW toc, NEW todo, NEW made, NEW cause,
               Fields(p, pc, id, tmp, toc, todo, made), Hist(p, cause, job[p].alone),
               pc \in HasDump => job[p].pc \in HasDump /\ tmp = job[p].tmp /\ dumps' = dumps,
               job[p].alone /\ pc = "revoke" /\ id \notin litter' => cause \notin {"gone", "exists"}
        PROVE  AloneInv'
    BY <1>q, AloneMoves DEF AloneInv
  <1>1. ASSUME NEW p \in Procs, CleanOne(p) PROVE AloneInv'
    <2>0. PICK f \in job[p].todo : Becomes(p, [job[p] EXCEPT !.todo = job[p].todo \ {f}])
      BY <1>1 DEF CleanOne
    <2>1. /\ Fields(p, job[p].pc, job[p].id, job[p].tmp, job[p].toc, job[p].todo \ {f}, job[p].made)
          /\ Hist(p, job[p].cause, job[p].alone)
      BY <2>0, TodoFields
    <2> QED
      BY <1>1, <1>q, <2>1 DEF CleanOne, HasDump, At
  <1>2. ASSUME NEW p \in Procs, CleanDone(p) PROVE AloneInv'
    <2>1. /\ Fields(p, IF job[p].cmd = "backup" THEN "temp" ELSE "load",
                    job[p].id, job[p].tmp, job[p].toc, job[p].todo, job[p].made)
          /\ Hist(p, job[p].cause, job[p].alone)
      BY <1>2, GoesFields DEF CleanDone
    <2> QED
      BY <1>2, <1>a, <1>q, <2>1 DEF CleanDone, HasDump, shared, disk, At, Shape, VerifySteps
  <1>3. ASSUME NEW p \in Procs, LoadForVerify(p) PROVE AloneInv'
    <2>0. PICK i \in Ids : Becomes(p, [job[p] EXCEPT !.pc = "temp", !.id = i])
      BY <1>3 DEF LoadForVerify, Only
    <2>1. /\ Fields(p, "temp", i, job[p].tmp, job[p].toc, job[p].todo, job[p].made)
          /\ Hist(p, job[p].cause, job[p].alone)
      BY <2>0, IdFields
    <2> QED
      BY <1>3, <1>q, <2>1 DEF LoadForVerify, HasDump, At
  <1>4. ASSUME NEW p \in Procs, LoadForRestore(p) PROVE AloneInv'
    <2>0. PICK i \in Ids, force \in BOOLEAN,
               t \in IF job[p].cmd = "tofile" THEN {None} ELSE {Target, Source} :
             Becomes(p, [job[p] EXCEPT !.pc = IF t = None THEN "open" ELSE "inspect",
                                       !.id = i, !.target = t, !.force = force])
      BY <1>4 DEF LoadForRestore, Only
    <2>1. /\ Fields(p, IF t = None THEN "open" ELSE "inspect",
                    i, job[p].tmp, job[p].toc, job[p].todo, job[p].made)
          /\ Hist(p, job[p].cause, job[p].alone)
      BY <2>0, LoadFields
    <2> QED
      BY <1>4, <1>q, <2>1 DEF LoadForRestore, HasDump, At
  <1>5. ASSUME NEW p \in Procs, Refuse(p) PROVE AloneInv'
    BY <1>5, <1>d DEF Refuse, At
  <1>6. ASSUME NEW p \in Procs, InspectRefuses(p) PROVE AloneInv'
    BY <1>6, <1>d DEF InspectRefuses, At
  <1>7. ASSUME NEW p \in Procs, OpenFileFails(p) PROVE AloneInv'
    BY <1>7, <1>d DEF OpenFileFails, At
  <1>8. ASSUME NEW p \in Procs, WriteFile(p) PROVE AloneInv'
    BY <1>8, <1>d DEF WriteFile, At
  <1>9. ASSUME NEW p \in Procs, WriteFileFails(p) PROVE AloneInv'
    BY <1>9, <1>d DEF WriteFileFails, At
  <1>10. ASSUME NEW p \in Procs, WriteFails(p) PROVE AloneInv'
    BY <1>10, <1>d DEF WriteFails, At
  <1>11. ASSUME NEW p \in Procs, Unlink(p) PROVE AloneInv'
    BY <1>11, <1>d DEF Unlink, At
  <1>12. ASSUME NEW p \in Procs, CreateTemp(p) PROVE AloneInv'
    <2>0. PICK f \in Names :
            /\ dumps' = dumps \cup {f}
            /\ Becomes(p, [job[p] EXCEPT !.pc = After(p), !.tmp = f])
      BY <1>12 DEF CreateTemp
    <2>1. /\ Fields(p, After(p), job[p].id, f, job[p].toc, job[p].todo, job[p].made)
          /\ Hist(p, job[p].cause, job[p].alone)
      BY <2>0, TempFields
    <2>2. f \in dumps' /\ job[p].pc # "idle" /\ After(p) # "revoke"
      BY <1>12, <2>0 DEF CreateTemp, At, After
    <2> QED
      BY <2>1, <2>2, AloneMoves DEF AloneInv
  <1>13. ASSUME NEW p \in Procs, Fetch(p) PROVE AloneInv'
    <2>1. /\ Fields(p, IF Verifying(p) THEN "list" ELSE "into",
                    job[p].id, job[p].tmp, job[p].toc, job[p].todo, job[p].made)
          /\ Hist(p, job[p].cause, job[p].alone)
      BY <1>13, GoesFields DEF Fetch
    <2> QED
      BY <1>13, <1>a, <1>q, <2>1 DEF Fetch, HasDump, shared, disk, At, Shape, VerifySteps
  <1>14. ASSUME NEW p \in Procs, FetchFails(p) PROVE AloneInv'
    <2>1. CASE Return(p)
      BY <1>14, <1>d, <2>1 DEF FetchFails, At
    <2>2. CASE ~Return(p)
      <3>1. PICK c \in {"fault", "disk"} :
               Becomes(p, [job[p] EXCEPT !.pc = "revoke", !.tmp = None, !.cause = c])
        BY <1>14, <2>2 DEF FetchFails, Return
      <3>2. /\ Fields(p, "revoke", job[p].id, None, job[p].toc, job[p].todo, job[p].made)
            /\ Hist(p, c, job[p].alone)
        BY <3>1, RevokeFields
      <3> QED
        BY <1>14, <1>q, <3>2 DEF FetchFails, HasDump, At
    <2> QED
      BY <2>1, <2>2
  <1>15. ASSUME NEW p \in Procs, ToolFails(p) PROVE AloneInv'
    <2>1. /\ Fields(p, "revoke", job[p].id, job[p].tmp, None, job[p].todo, job[p].made)
          /\ Hist(p, "fault", job[p].alone)
      BY <1>15, FailsFields DEF ToolFails, Fails
    <2> QED
      BY <1>15, <1>a, <1>q, <2>1
         DEF ToolFails, HasDump, shared, disk, At, Shape, VerifySteps, Fails
  <1>16. ASSUME NEW p \in Procs, DumpGone(p) PROVE AloneInv'
    <2>1. /\ Fields(p, "revoke", job[p].id, job[p].tmp, None, job[p].todo, job[p].made)
          /\ Hist(p, "gone", job[p].alone)
      BY <1>16, FailsFields DEF DumpGone
    <2>2. ~job[p].alone
      BY <1>16 DEF DumpGone, Fails, Usable, AloneInv, HasDump
    <2>3. job[p].pc # "idle"
      BY <1>16 DEF DumpGone, Fails
    <2> QED
      BY <2>1, <2>2, <2>3, <1>q DEF HasDump
  <1>17. ASSUME NEW p \in Procs, ListArchive(p) PROVE AloneInv'
    <2>1. /\ Fields(p, "create", job[p].id, job[p].tmp, job[p].toc, job[p].todo, job[p].made)
          /\ Hist(p, job[p].cause, job[p].alone)
      BY <1>17, GoesFields DEF ListArchive
    <2> QED
      BY <1>17, <1>a, <1>q, <2>1 DEF ListArchive, HasDump, shared, disk, At, Shape, VerifySteps
  <1>18. ASSUME NEW p \in Procs, CreateScratch(p) PROVE AloneInv'
    <2>1. /\ Fields(p, "toc", job[p].id, job[p].tmp, job[p].toc, job[p].todo, TRUE)
          /\ Hist(p, job[p].cause, job[p].alone)
      BY <1>18, ScratchFields DEF CreateScratch
    <2> QED
      BY <1>18, <1>a, <1>q, <2>1
         DEF CreateScratch, HasDump, shared, disk, At, Shape, VerifySteps
  <1>19. ASSUME NEW p \in Procs, ScratchExists(p) PROVE AloneInv'
    <2>1. /\ Fields(p, "revoke", job[p].id, job[p].tmp, job[p].toc, job[p].todo, job[p].made)
          /\ Hist(p, "exists", job[p].alone)
      BY <1>19, CauseFields DEF ScratchExists, Only
    <2>2. ASSUME job[p].alone PROVE job[p].id \in litter
      <3>1. \A q \in Procs : ~job[q].made
        BY <1>19, <1>a, <2>2 DEF ScratchExists, At, AloneInv, Shape
      <3>2. job[p].id \in Ids
        BY <1>19, <1>a DEF ScratchExists, At, Shape, VerifySteps
      <3> QED
        BY <1>19, <3>1, <3>2 DEF ScratchExists, NamesInv, NothingIsLeft
    <2>3. litter' = litter /\ job[p].pc # "idle"
      BY <1>19 DEF ScratchExists, Only, shared, disk, At
    <2> QED
      BY <2>1, <2>2, <2>3, <1>q DEF HasDump
  <1>20. ASSUME NEW p \in Procs, SandboxTOC(p) PROVE AloneInv'
    <2>0. PICK f \in Names : Becomes(p, [job[p] EXCEPT !.pc = "scratch", !.toc = f])
      BY <1>20 DEF SandboxTOC
    <2>1. /\ Fields(p, "scratch", job[p].id, job[p].tmp, f, job[p].todo, job[p].made)
          /\ Hist(p, job[p].cause, job[p].alone)
      BY <2>0, ListFields
    <2> QED
      BY <1>20, <1>q, <2>1 DEF SandboxTOC, HasDump, At
  <1>21. ASSUME NEW p \in Procs, RestoreScratch(p) PROVE AloneInv'
    <2>1. /\ Fields(p, "count", job[p].id, job[p].tmp, None, job[p].todo, job[p].made)
          /\ Hist(p, job[p].cause, job[p].alone)
      BY <1>21, ListFields DEF RestoreScratch
    <2> QED
      BY <1>21, <1>a, <1>q, <2>1
         DEF RestoreScratch, HasDump, shared, disk, At, Shape, VerifySteps
  <1>22. ASSUME NEW p \in Procs, RestoreScratchFails(p) PROVE AloneInv'
    <2>1. /\ Fields(p, "revoke", job[p].id, job[p].tmp, None, job[p].todo, job[p].made)
          /\ Hist(p, "fault", job[p].alone)
      BY <1>22, FailsFields DEF RestoreScratchFails
    <2> QED
      BY <1>22, <1>q, <2>1 DEF RestoreScratchFails, HasDump, At
  <1>23. ASSUME NEW p \in Procs, Count(p) PROVE AloneInv'
    <2>1. /\ Fields(p, "prove", job[p].id, job[p].tmp, job[p].toc, job[p].todo, job[p].made)
          /\ Hist(p, job[p].cause, job[p].alone)
      BY <1>23, GoesFields DEF Count
    <2> QED
      BY <1>23, <1>a, <1>q, <2>1 DEF Count, HasDump, shared, disk, At, Shape, VerifySteps
  <1>24. ASSUME NEW p \in Procs, Prove(p) PROVE AloneInv'
    <2>1. /\ Fields(p, "drop", job[p].id, job[p].tmp, job[p].toc, job[p].todo, job[p].made)
          /\ Hist(p, job[p].cause, job[p].alone)
      BY <1>24, GoesFields DEF Prove
    <2> QED
      BY <1>24, <1>a, <1>q, <2>1 DEF Prove, HasDump, shared, disk, At, Shape, VerifySteps
  <1>25. ASSUME NEW p \in Procs, Revoke(p) PROVE AloneInv'
    <2>1. CASE job[p].made
      <3>1. /\ Fields(p, "drop", job[p].id, job[p].tmp, job[p].toc, job[p].todo, job[p].made)
            /\ Hist(p, "none", job[p].alone)
        BY <1>25, <2>1, CauseFields DEF Revoke
      <3> QED
        BY <1>25, <1>q, <3>1 DEF Revoke, HasDump, At
    <2>2. CASE ~job[p].made
      BY <1>25, <1>d, <2>2 DEF Revoke, At
    <2> QED
      BY <2>1, <2>2
  <1>26. ASSUME NEW p \in Procs, Drop(p) PROVE AloneInv'
    BY <1>26, <1>d DEF Drop, At
  <1>27. ASSUME NEW p \in Procs, Inspect(p) PROVE AloneInv'
    <2>1. /\ Fields(p, "temp", job[p].id, job[p].tmp, job[p].toc, job[p].todo, job[p].made)
          /\ Hist(p, job[p].cause, job[p].alone)
      BY <1>27, CleanFields DEF Inspect, Only
    <2> QED
      BY <1>27, <1>a, <1>q, <2>1
         DEF Inspect, HasDump, shared, disk, At, Shape, VerifySteps, Only
  <1>28. ASSUME NEW p \in Procs, RestoreInto(p) PROVE AloneInv'
    BY <1>28, <1>d DEF RestoreInto, At
  <1>29. ASSUME NEW p \in Procs, RestoreIntoFails(p) PROVE AloneInv'
    BY <1>29, <1>d DEF RestoreIntoFails, At
  <1>30. ASSUME NEW p \in Procs, Dump(p) PROVE AloneInv'
    <2>1. /\ Fields(p, "hash", job[p].id, job[p].tmp, job[p].toc, job[p].todo, job[p].made)
          /\ Hist(p, job[p].cause, job[p].alone)
      BY <1>30, GoesFields DEF Dump
    <2> QED
      BY <1>30, <1>a, <1>q, <2>1 DEF Dump, HasDump, shared, disk, At, Shape, VerifySteps
  <1>31. ASSUME NEW p \in Procs, Hash(p) PROVE AloneInv'
    <2>1. /\ Fields(p, "read", job[p].id, job[p].tmp, job[p].toc, job[p].todo, job[p].made)
          /\ Hist(p, job[p].cause, job[p].alone)
      BY <1>31, GoesFields DEF Hash
    <2> QED
      BY <1>31, <1>a, <1>q, <2>1 DEF Hash, HasDump, shared, disk, At, Shape, VerifySteps
  <1>32. ASSUME NEW p \in Procs, Read(p) PROVE AloneInv'
    BY <1>32, <1>d DEF Read, At
  <1>33. ASSUME NEW p \in Procs, Kill(p) PROVE AloneInv'
    BY <1>33, <1>d DEF Kill, Running, At, Return
  <1>34. ASSUME NEW p \in Procs, OpenFile(p) PROVE AloneInv'
    <2>1. /\ Fields(p, "write", job[p].id, job[p].tmp, job[p].toc, job[p].todo, job[p].made)
          /\ Hist(p, job[p].cause, job[p].alone)
      BY <1>34, OpenFields
    <2>2. job[p].pc # "idle"
      BY <1>34 DEF OpenFile, At
    <2> QED
      BY <1>q, <2>1, <2>2 DEF HasDump
  <1>35. ASSUME NEW p \in Procs, NEW cmd \in Commands[p], Start(p, cmd) PROVE AloneInv'
    <2>1. PICK anew \in BOOLEAN : Begins(p, cmd, anew)
      BY <1>35, BeginsIs
    <2> DEFINE others == {r \in Procs \ {p} : Running(r)}
    <2>2. /\ Fields(p, "clean", None, None, None, IF anew THEN dumps ELSE {}, FALSE)
          /\ Hist(p, "none", cmd = "verify" /\ others = {})
          /\ \A q \in Procs \ {p} : ~job'[q].alone
      BY <2>1, StartFields
    <2>3. others = {} => \A q \in Procs \ {p} : job[q].pc = "idle"
      BY DEF Running, At
    <2> HIDE DEF others
    <2> QED
      BY <2>2, <2>3, AloneMoves DEF HasDump
  <1>36. CASE (\E d \in {Target, Source} : Filled(d)) \/ UNCHANGED vars
    BY <1>36 DEF Filled, vars, disk, AloneInv
  <1>37. ASSUME NEW p \in Procs, CreateScratchUnseen(p) PROVE AloneInv'
    <2>1. /\ Fields(p, "revoke", job[p].id, job[p].tmp, job[p].toc, job[p].todo, job[p].made)
          /\ Hist(p, "fault", job[p].alone)
      BY <1>37, CauseFields DEF CreateScratchUnseen
    <2> QED
      BY <1>37, <1>q, <2>1 DEF CreateScratchUnseen, HasDump, At
  <1> QED
    BY <1>1, <1>2, <1>3, <1>4, <1>5, <1>6, <1>7, <1>8, <1>9, <1>10, <1>11, <1>12, <1>13,
       <1>14, <1>15, <1>16, <1>17, <1>18, <1>19, <1>20, <1>21, <1>22, <1>23, <1>24, <1>25,
       <1>26, <1>27, <1>28, <1>29, <1>30, <1>31, <1>32, <1>33, <1>34, <1>35, <1>36, <1>37
       DEF Next, Common, VerifyStep, RestoreStep, BackupStep

-----------------------------------------------------------------------------
(* What restore writes to.                                                 *)

\* A file being written is nobody's yet, and its writers know of each other.
OutInv ==
    /\ \A p \in Procs : job[p].pc = "write" => out # Old /\ given = None
    /\ \A p, q \in Procs : p # q /\ job[p].pc = "write" /\ job[q].pc = "write" => job[p].mixed
    /\ DeliveredFileStays

\* A step that does not open the file.
LEMMA OutMoves ==
    ASSUME OutInv, NEW p \in Procs,
           NEW pc, NEW id, NEW tmp, NEW toc, NEW todo, NEW made,
           Fields(p, pc, id, tmp, toc, todo, made), Alike(p), pc # "write", UNCHANGED outputs
    PROVE  OutInv'
  <1>1. ASSUME NEW q \in Procs, job'[q].pc = "write"
        PROVE  q # p /\ job[q].pc = "write" /\ job'[q].mixed = job[q].mixed
    BY <1>1 DEF Fields, Kept, Alike
  <1> QED
    BY <1>1 DEF OutInv, outputs, DeliveredFileStays

\* No step takes a file from under its writers, or takes what was delivered.
LEMMA OutStep == TypeOK /\ ShapeInv /\ OutInv /\ [Next]_vars => OutInv'
  <1> SUFFICES ASSUME TypeOK, ShapeInv, OutInv, [Next]_vars PROVE OutInv'
    OBVIOUS
  <1>a. ASSUME NEW p \in Procs PROVE Shape(job[p]) /\ job[p].id \in Ids \cup {None}
    BY DEF ShapeInv, Job
  <1>d. ASSUME NEW p \in Procs, Return(p) \/ Ends(p), UNCHANGED outputs PROVE OutInv'
    <2>1. CASE Return(p)
      BY <1>d, <2>1, ReturnFields, OutMoves
    <2>2. CASE Ends(p)
      BY <1>d, <2>2, EndsFields, OutMoves
    <2> QED
      BY <1>d, <2>1, <2>2
  <1>1. ASSUME NEW p \in Procs, CleanOne(p) PROVE OutInv'
    <2>0. PICK f \in job[p].todo : Becomes(p, [job[p] EXCEPT !.todo = job[p].todo \ {f}])
      BY <1>1 DEF CleanOne
    <2>1. /\ Fields(p, job[p].pc, job[p].id, job[p].tmp, job[p].toc, job[p].todo \ {f}, job[p].made)
          /\ Alike(p)
      BY <1>1, <2>0, TodoFields DEF CleanOne
    <2> QED
      BY <1>1, <1>a, OutMoves, <2>1 DEF CleanOne, shared, At, Shape
  <1>2. ASSUME NEW p \in Procs, CleanDone(p) PROVE OutInv'
    <2>1. /\ Fields(p, IF job[p].cmd = "backup" THEN "temp" ELSE "load",
                    job[p].id, job[p].tmp, job[p].toc, job[p].todo, job[p].made)
          /\ Alike(p)
      BY <1>2, GoesFields DEF CleanDone
    <2> QED
      BY <1>2, <1>a, OutMoves, <2>1 DEF CleanDone, shared, At, Shape
  <1>3. ASSUME NEW p \in Procs, LoadForVerify(p) PROVE OutInv'
    <2>0. PICK i \in Ids : Becomes(p, [job[p] EXCEPT !.pc = "temp", !.id = i])
      BY <1>3 DEF LoadForVerify, Only
    <2>1. /\ Fields(p, "temp", i, job[p].tmp, job[p].toc, job[p].todo, job[p].made)
          /\ Alike(p)
      BY <1>3, <2>0, IdFields DEF LoadForVerify, Only, Verifying
    <2> QED
      BY <1>3, <1>a, OutMoves, <2>1 DEF LoadForVerify, shared, At, Shape, Only, Verifying
  <1>4. ASSUME NEW p \in Procs, LoadForRestore(p) PROVE OutInv'
    <2>0. PICK i \in Ids, force \in BOOLEAN,
               t \in IF job[p].cmd = "tofile" THEN {None} ELSE {Target, Source} :
             Becomes(p, [job[p] EXCEPT !.pc = IF t = None THEN "open" ELSE "inspect",
                                       !.id = i, !.target = t, !.force = force])
      BY <1>4 DEF LoadForRestore, Only
    <2>1. /\ Fields(p, IF t = None THEN "open" ELSE "inspect",
                    i, job[p].tmp, job[p].toc, job[p].todo, job[p].made)
          /\ Alike(p)
      BY <2>0, LoadFields
    <2>2. UNCHANGED outputs
      BY <1>4 DEF LoadForRestore, Only, shared
    <2>3. (IF t = None THEN "open" ELSE "inspect") \notin {"write"}
      OBVIOUS
    <2> QED
      BY <2>1, <2>2, <2>3, OutMoves
  <1>5. ASSUME NEW p \in Procs, Refuse(p) PROVE OutInv'
    BY <1>5, <1>d DEF Refuse, shared, outputs
  <1>6. ASSUME NEW p \in Procs, InspectRefuses(p) PROVE OutInv'
    BY <1>6, <1>d DEF InspectRefuses, shared, outputs
  <1>7. ASSUME NEW p \in Procs, OpenFileFails(p) PROVE OutInv'
    BY <1>7, <1>d DEF OpenFileFails, shared, outputs
  <1>8. ASSUME NEW p \in Procs, WriteFails(p) PROVE OutInv'
    BY <1>8, <1>d DEF WriteFails, shared, outputs
  <1>9. ASSUME NEW p \in Procs, Unlink(p) PROVE OutInv'
    BY <1>9, <1>d DEF Unlink, shared, outputs
  <1>10. ASSUME NEW p \in Procs, CreateTemp(p) PROVE OutInv'
    <2>0. PICK f \in Names : Becomes(p, [job[p] EXCEPT !.pc = After(p), !.tmp = f])
      BY <1>10 DEF CreateTemp
    <2>1. /\ Fields(p, After(p), job[p].id, f, job[p].toc, job[p].todo, job[p].made)
          /\ Alike(p)
      BY <1>10, <2>0, TempFields DEF CreateTemp, After
    <2> QED
      BY <1>10, <1>a, OutMoves, <2>1 DEF CreateTemp, shared, At, Shape, After
  <1>11. ASSUME NEW p \in Procs, Fetch(p) PROVE OutInv'
    <2>1. /\ Fields(p, IF Verifying(p) THEN "list" ELSE "into",
                    job[p].id, job[p].tmp, job[p].toc, job[p].todo, job[p].made)
          /\ Alike(p)
      BY <1>11, GoesFields DEF Fetch
    <2> QED
      BY <1>11, <1>a, OutMoves, <2>1 DEF Fetch, shared, At, Shape
  <1>12. ASSUME NEW p \in Procs, FetchFails(p) PROVE OutInv'
    <2>1. CASE Return(p)
      BY <1>12, <1>d, <2>1 DEF FetchFails
    <2>2. CASE ~Return(p)
      <3>1. PICK c \in {"fault", "disk"} :
               Becomes(p, [job[p] EXCEPT !.pc = "revoke", !.tmp = None, !.cause = c])
        BY <1>12, <2>2 DEF FetchFails, Return
      <3>2. /\ Fields(p, "revoke", job[p].id, None, job[p].toc, job[p].todo, job[p].made)
            /\ Alike(p)
        BY <3>1, RevokeFields
      <3> QED
        BY <1>12, OutMoves, <3>2 DEF FetchFails
    <2> QED
      BY <2>1, <2>2
  <1>13. ASSUME NEW p \in Procs, ToolFails(p) PROVE OutInv'
    <2>1. /\ Fields(p, "revoke", job[p].id, job[p].tmp, None, job[p].todo, job[p].made)
          /\ Alike(p)
      BY <1>13, FailsFields DEF ToolFails, Fails
    <2> QED
      BY <1>13, <1>a, OutMoves, <2>1 DEF ToolFails, shared, At, Shape, Fails
  <1>14. ASSUME NEW p \in Procs, DumpGone(p) PROVE OutInv'
    <2>1. /\ Fields(p, "revoke", job[p].id, job[p].tmp, None, job[p].todo, job[p].made)
          /\ Alike(p)
      BY <1>14, FailsFields DEF DumpGone, Fails
    <2> QED
      BY <1>14, <1>a, OutMoves, <2>1 DEF DumpGone, shared, At, Shape, Fails
  <1>15. ASSUME NEW p \in Procs, ListArchive(p) PROVE OutInv'
    <2>1. /\ Fields(p, "create", job[p].id, job[p].tmp, job[p].toc, job[p].todo, job[p].made)
          /\ Alike(p)
      BY <1>15, GoesFields DEF ListArchive
    <2> QED
      BY <1>15, <1>a, OutMoves, <2>1 DEF ListArchive, shared, At, Shape
  <1>16. ASSUME NEW p \in Procs, CreateScratch(p) PROVE OutInv'
    <2>1. /\ Fields(p, "toc", job[p].id, job[p].tmp, job[p].toc, job[p].todo, TRUE)
          /\ Alike(p)
      BY <1>16, ScratchFields DEF CreateScratch
    <2> QED
      BY <1>16, OutMoves, <2>1 DEF CreateScratch
  <1>17. ASSUME NEW p \in Procs, ScratchExists(p) PROVE OutInv'
    <2>1. /\ Fields(p, "revoke", job[p].id, job[p].tmp, job[p].toc, job[p].todo, job[p].made)
          /\ Alike(p)
      BY <1>17, CauseFields DEF ScratchExists, Only
    <2> QED
      BY <1>17, <1>a, OutMoves, <2>1 DEF ScratchExists, shared, At, Shape, Only
  <1>18. ASSUME NEW p \in Procs, SandboxTOC(p) PROVE OutInv'
    <2>0. PICK f \in Names : Becomes(p, [job[p] EXCEPT !.pc = "scratch", !.toc = f])
      BY <1>18 DEF SandboxTOC
    <2>1. /\ Fields(p, "scratch", job[p].id, job[p].tmp, f, job[p].todo, job[p].made)
          /\ Alike(p)
      BY <1>18, <2>0, ListFields DEF SandboxTOC
    <2> QED
      BY <1>18, <1>a, OutMoves, <2>1 DEF SandboxTOC, shared, At, Shape
  <1>19. ASSUME NEW p \in Procs, RestoreScratch(p) PROVE OutInv'
    <2>1. /\ Fields(p, "count", job[p].id, job[p].tmp, None, job[p].todo, job[p].made)
          /\ Alike(p)
      BY <1>19, ListFields DEF RestoreScratch
    <2> QED
      BY <1>19, OutMoves, <2>1 DEF RestoreScratch
  <1>20. ASSUME NEW p \in Procs, RestoreScratchFails(p) PROVE OutInv'
    <2>1. /\ Fields(p, "revoke", job[p].id, job[p].tmp, None, job[p].todo, job[p].made)
          /\ Alike(p)
      BY <1>20, FailsFields DEF RestoreScratchFails
    <2> QED
      BY <1>20, OutMoves, <2>1 DEF RestoreScratchFails, Fails
  <1>21. ASSUME NEW p \in Procs, Count(p) PROVE OutInv'
    <2>1. /\ Fields(p, "prove", job[p].id, job[p].tmp, job[p].toc, job[p].todo, job[p].made)
          /\ Alike(p)
      BY <1>21, GoesFields DEF Count
    <2> QED
      BY <1>21, <1>a, OutMoves, <2>1 DEF Count, shared, At, Shape
  <1>22. ASSUME NEW p \in Procs, Prove(p) PROVE OutInv'
    <2>1. /\ Fields(p, "drop", job[p].id, job[p].tmp, job[p].toc, job[p].todo, job[p].made)
          /\ Alike(p)
      BY <1>22, GoesFields DEF Prove
    <2> QED
      BY <1>22, <1>a, OutMoves, <2>1 DEF Prove, shared, At, Shape
  <1>23. ASSUME NEW p \in Procs, Revoke(p) PROVE OutInv'
    <2>1. CASE job[p].made
      <3>1. /\ Fields(p, "drop", job[p].id, job[p].tmp, job[p].toc, job[p].todo, job[p].made)
            /\ Alike(p)
        BY <1>23, <2>1, CauseFields DEF Revoke
      <3> QED
        BY <1>23, OutMoves, <3>1 DEF Revoke
    <2>2. CASE ~job[p].made
      BY <1>23, <1>d, <2>2 DEF Revoke
    <2> QED
      BY <2>1, <2>2
  <1>24. ASSUME NEW p \in Procs, Drop(p) PROVE OutInv'
    BY <1>24, <1>d DEF Drop
  <1>25. ASSUME NEW p \in Procs, Inspect(p) PROVE OutInv'
    <2>0. PICK c \in BOOLEAN : Becomes(p, [job[p] EXCEPT !.pc = "temp", !.clean = c])
      BY <1>25 DEF Inspect, Only
    <2>1. /\ Fields(p, "temp", job[p].id, job[p].tmp, job[p].toc, job[p].todo, job[p].made)
          /\ Alike(p)
      BY <2>0, CleanFields
    <2> QED
      BY <1>25, <2>1, OutMoves DEF Inspect, Only, shared
  <1>26. ASSUME NEW p \in Procs, RestoreInto(p) PROVE OutInv'
    BY <1>26, <1>d DEF RestoreInto
  <1>27. ASSUME NEW p \in Procs, RestoreIntoFails(p) PROVE OutInv'
    BY <1>27, <1>d DEF RestoreIntoFails
  <1>28. ASSUME NEW p \in Procs, Dump(p) PROVE OutInv'
    <2>1. /\ Fields(p, "hash", job[p].id, job[p].tmp, job[p].toc, job[p].todo, job[p].made)
          /\ Alike(p)
      BY <1>28, GoesFields DEF Dump
    <2> QED
      BY <1>28, <1>a, OutMoves, <2>1 DEF Dump, shared, At, Shape
  <1>29. ASSUME NEW p \in Procs, Hash(p) PROVE OutInv'
    <2>1. /\ Fields(p, "read", job[p].id, job[p].tmp, job[p].toc, job[p].todo, job[p].made)
          /\ Alike(p)
      BY <1>29, GoesFields DEF Hash
    <2> QED
      BY <1>29, <1>a, OutMoves, <2>1 DEF Hash, shared, At, Shape
  <1>30. ASSUME NEW p \in Procs, Read(p) PROVE OutInv'
    BY <1>30, <1>d DEF Read, shared, outputs
  <1>31. ASSUME NEW p \in Procs, Kill(p) PROVE OutInv'
    BY <1>31, <1>d DEF Kill, shared, outputs, Return
  <1>32. ASSUME NEW p \in Procs, OpenFile(p) PROVE OutInv'
    <2>1. /\ Fields(p, "write", job[p].id, job[p].tmp, job[p].toc, job[p].todo, job[p].made)
          /\ Args(p, job[p].cmd, job[p].target, job[p].force, job[p].clean, Writers(p) # {})
          /\ \A q \in Procs \ {p} : job'[q].mixed = (job[q].mixed \/ q \in Writers(p))
      BY <1>32, OpenFields
    <2>2. out' = Part /\ given' = None
      BY <1>32 DEF OpenFile
    <2>3. Part # Old
      BY PartIsNoContent DEF Contents
    <2>4. ASSUME NEW q \in Procs, NEW r \in Procs, q # r, job'[q].pc = "write",
                 job'[r].pc = "write"
          PROVE  job'[q].mixed
      <3>1. CASE q = p
        <4>1. r \in Writers(p)
          BY <2>1, <2>4, <3>1 DEF Fields, Kept, Writers, At
        <4> QED
          BY <2>1, <3>1, <4>1 DEF Args
      <3>2. CASE q # p
        BY <2>1, <2>4, <3>2 DEF Fields, Kept, Writers, At
      <3> QED
        BY <3>1, <3>2
    <2> QED
      BY <2>2, <2>3, <2>4 DEF OutInv, DeliveredFileStays
  <1>33. ASSUME NEW p \in Procs, WriteFile(p) PROVE OutInv'
    <2>1. /\ Fields(p, "idle", None, None, None, {}, FALSE)
          /\ Alike(p)
      BY <1>33, ReturnFields DEF WriteFile
    <2>2. out # Old /\ job[p].id # Old /\ Part # Old
      BY <1>33, <1>a, OldIsNoBackup, NoneIsNothing, PartIsNoContent
         DEF WriteFile, At, OutInv, Contents
    <2>3. out' # Old /\ (given' # None => out' = given' /\ ~job[p].mixed)
      BY <1>33, <2>2 DEF WriteFile
    <2>4. ASSUME NEW q \in Procs, job'[q].pc = "write"
          PROVE  q # p /\ job[q].pc = "write" /\ job'[q].mixed = job[q].mixed
      BY <2>1, <2>4 DEF Fields, Kept, Alike
    <2>5. ASSUME NEW q \in Procs, job'[q].pc = "write" PROVE given' = None
      BY <1>33, <2>3, <2>4, <2>5 DEF WriteFile, At, OutInv
    <2> QED
      BY <2>3, <2>4, <2>5 DEF OutInv, DeliveredFileStays
  <1>34. ASSUME NEW p \in Procs, WriteFileFails(p) PROVE OutInv'
    <2>1. /\ Fields(p, "idle", None, None, None, {}, FALSE)
          /\ Alike(p)
      BY <1>34, ReturnFields DEF WriteFileFails
    <2>2. out' = None /\ given' = None
      BY <1>34 DEF WriteFileFails, At, OutInv
    <2>3. None # Old
      BY NoneIsNothing
    <2>4. ASSUME NEW q \in Procs, job'[q].pc = "write"
          PROVE  q # p /\ job[q].pc = "write" /\ job'[q].mixed = job[q].mixed
      BY <2>1, <2>4 DEF Fields, Kept, Alike
    <2> QED
      BY <2>2, <2>3, <2>4 DEF OutInv, DeliveredFileStays
  <1>35. ASSUME NEW p \in Procs, NEW cmd \in Commands[p], Start(p, cmd) PROVE OutInv'
    <2>1. PICK anew \in BOOLEAN : Begins(p, cmd, anew)
      BY <1>35, BeginsIs
    <2>2. /\ Fields(p, "clean", None, None, None, IF anew THEN dumps ELSE {}, FALSE)
          /\ Alike(p)
      BY <2>1, StartFields
    <2>3. UNCHANGED outputs
      BY <1>35 DEF Start, shared
    <2> QED
      BY <2>2, <2>3, OutMoves
  <1>36. CASE \E d \in {Target, Source} : Filled(d)
    BY <1>36 DEF Filled, OutInv, DeliveredFileStays
  <1>37. CASE UNCHANGED vars
    BY <1>37 DEF vars, OutInv, DeliveredFileStays
  <1>38. ASSUME NEW p \in Procs, CreateScratchUnseen(p) PROVE OutInv'
    <2>1. /\ Fields(p, "revoke", job[p].id, job[p].tmp, job[p].toc, job[p].todo, job[p].made)
          /\ Alike(p)
      BY <1>38, CauseFields DEF CreateScratchUnseen
    <2> QED
      BY <1>38, <2>1, OutMoves DEF CreateScratchUnseen
  <1> QED
    BY <1>1, <1>2, <1>3, <1>4, <1>5, <1>6, <1>7, <1>8, <1>9, <1>10, <1>11, <1>12, <1>13,
       <1>14, <1>15, <1>16, <1>17, <1>18, <1>19, <1>20, <1>21, <1>22, <1>23, <1>24, <1>25,
       <1>26, <1>27, <1>28, <1>29, <1>30, <1>31, <1>32, <1>33, <1>34, <1>35, <1>36, <1>37,
       <1>38
       DEF Next, Common, VerifyStep, RestoreStep, BackupStep

-----------------------------------------------------------------------------
(* Types.                                                                  *)

\* No step leaves the types.
LEMMA TypeStep == TypeOK /\ ShapeInv /\ ScratchInv /\ [Next]_vars /\ ShapeInv' => TypeOK'
  <1> SUFFICES ASSUME TypeOK, ShapeInv, ScratchInv, [Next]_vars, ShapeInv' PROVE TypeOK'
    OBVIOUS
  <1> DEFINE Rest == /\ verified' \subseteq Ids
                     /\ dumps' \subseteq Names /\ lists' \subseteq Names
                     /\ db' \in [Databases -> {None} \cup SUBSET Contents]
                     /\ out' \in Contents \cup {Part, None}
                     /\ litter' \subseteq Names \cup Ids
                     /\ given' \in Ids \cup {None}
  <1> SUFFICES Rest
    BY DEF TypeOK, ShapeInv
  <1>a. ASSUME NEW p \in Procs
        PROVE  /\ Shape(job[p])
               /\ job[p].id \in Ids \cup {None} /\ job[p].target \in {Target, Source, None}
               /\ job[p].tmp \in Names \cup {None} /\ job[p].toc \in Names \cup {None}
    BY DEF ShapeInv, Job
  <1>1. ASSUME NEW p \in Procs, CleanOne(p) PROVE Rest
    BY <1>1, <1>a DEF CleanOne, disk, shared, outputs, TypeOK
  <1>2. ASSUME NEW p \in Procs, CleanDone(p) PROVE Rest
    BY <1>2, <1>a DEF CleanDone, disk, shared, outputs, TypeOK
  <1>3. ASSUME NEW p \in Procs, LoadForVerify(p) PROVE Rest
    BY <1>3, <1>a DEF LoadForVerify, Only, disk, shared, outputs, TypeOK
  <1>4. ASSUME NEW p \in Procs, LoadForRestore(p) PROVE Rest
    BY <1>4, <1>a DEF LoadForRestore, Only, disk, shared, outputs, TypeOK
  <1>5. ASSUME NEW p \in Procs, Refuse(p) PROVE Rest
    BY <1>5, <1>a DEF Refuse, disk, shared, outputs, TypeOK
  <1>6. ASSUME NEW p \in Procs, CreateTemp(p) PROVE Rest
    BY <1>6, <1>a DEF CreateTemp, disk, shared, outputs, TypeOK
  <1>7. ASSUME NEW p \in Procs, WriteFails(p) PROVE Rest
    BY <1>7, <1>a DEF WriteFails, disk, shared, outputs, TypeOK
  <1>8. ASSUME NEW p \in Procs, Fetch(p) PROVE Rest
    BY <1>8, <1>a DEF Fetch, disk, shared, outputs, TypeOK
  <1>9. ASSUME NEW p \in Procs, FetchFails(p) PROVE Rest
    BY <1>9, <1>a DEF FetchFails, disk, shared, outputs, TypeOK
  <1>10. ASSUME NEW p \in Procs, Unlink(p) PROVE Rest
    BY <1>10, <1>a DEF Unlink, disk, shared, outputs, TypeOK
  <1>11. ASSUME NEW p \in Procs, ToolFails(p) PROVE Rest
    BY <1>11, <1>a DEF ToolFails, Fails, disk, shared, outputs, TypeOK
  <1>12. ASSUME NEW p \in Procs, DumpGone(p) PROVE Rest
    BY <1>12, <1>a DEF DumpGone, Fails, disk, shared, outputs, TypeOK
  <1>13. ASSUME NEW p \in Procs, ListArchive(p) PROVE Rest
    BY <1>13, <1>a DEF ListArchive, disk, shared, outputs, TypeOK
  <1>14. ASSUME NEW p \in Procs, CreateScratch(p) PROVE Rest
    <2>1. job[p].id \in Ids
      BY <1>14, <1>a DEF CreateScratch, At, Shape, VerifySteps
    <2> QED
      BY <1>14, <1>a, <2>1
         DEF CreateScratch, disk, shared, outputs, TypeOK, ScratchInv, Databases, Contents,
             At
  <1>15. ASSUME NEW p \in Procs, ScratchExists(p) PROVE Rest
    BY <1>15, <1>a DEF ScratchExists, Only, disk, shared, outputs, TypeOK
  <1>16. ASSUME NEW p \in Procs, SandboxTOC(p) PROVE Rest
    BY <1>16, <1>a DEF SandboxTOC, disk, shared, outputs, TypeOK
  <1>17. ASSUME NEW p \in Procs, RestoreScratch(p) PROVE Rest
    <2>1. job[p].id \in Ids
      BY <1>17, <1>a DEF RestoreScratch, At, Shape, VerifySteps
    <2> QED
      BY <1>17, <1>a, <2>1
         DEF RestoreScratch, disk, shared, outputs, TypeOK, ScratchInv, Databases, Contents,
             At
  <1>18. ASSUME NEW p \in Procs, RestoreScratchFails(p) PROVE Rest
    <2>1. job[p].id \in Ids
      BY <1>18, <1>a DEF RestoreScratchFails, At, Shape, VerifySteps, Fails
    <2> QED
      BY <1>18, <1>a, <2>1
         DEF RestoreScratchFails, disk, shared, outputs, TypeOK, ScratchInv, Databases,
             Contents, At, Fails
  <1>19. ASSUME NEW p \in Procs, Count(p) PROVE Rest
    BY <1>19, <1>a DEF Count, disk, shared, outputs, TypeOK
  <1>20. ASSUME NEW p \in Procs, Prove(p) PROVE Rest
    <2>1. job[p].id \in Ids
      BY <1>20, <1>a DEF Prove, At, Shape, VerifySteps
    <2> QED
      BY <1>20, <1>a, <2>1
         DEF Prove, disk, shared, outputs, TypeOK, ScratchInv, Databases, Contents, At
  <1>21. ASSUME NEW p \in Procs, Revoke(p) PROVE Rest
    BY <1>21, <1>a DEF Revoke, disk, shared, outputs, TypeOK
  <1>22. ASSUME NEW p \in Procs, Drop(p) PROVE Rest
    <2>1. job[p].id \in Ids
      BY <1>22, <1>a DEF Drop, At, Shape, VerifySteps
    <2> QED
      BY <1>22, <1>a, <2>1
         DEF Drop, disk, shared, outputs, TypeOK, ScratchInv, Databases, Contents, At
  <1>23. ASSUME NEW p \in Procs, Inspect(p) PROVE Rest
    BY <1>23, <1>a DEF Inspect, Only, disk, shared, outputs, TypeOK
  <1>24. ASSUME NEW p \in Procs, InspectRefuses(p) PROVE Rest
    BY <1>24, <1>a DEF InspectRefuses, disk, shared, outputs, TypeOK
  <1>25. ASSUME NEW p \in Procs, RestoreInto(p) PROVE Rest
    <2>1. job[p].target \in {Target, Source} /\ job[p].id \in Ids
      BY <1>25, <1>a DEF RestoreInto, At, Shape, VerifySteps
    <2>2. db[job[p].target] \in SUBSET Contents
      BY <2>1 DEF ScratchInv, TypeOK, Databases
    <2>3. PICK held \in SUBSET Contents : db' = [db EXCEPT ![job[p].target] = held]
      BY <1>25, <2>1, <2>2 DEF RestoreInto, Restored, Contents
    <2> QED
      BY <1>25, <2>3 DEF RestoreInto, disk, outputs, TypeOK
  <1>26. ASSUME NEW p \in Procs, RestoreIntoFails(p) PROVE Rest
    <2>1. job[p].target \in {Target, Source} /\ job[p].id \in Ids
      BY <1>26, <1>a DEF RestoreIntoFails, At, Shape, VerifySteps
    <2>2. db[job[p].target] \in SUBSET Contents
      BY <2>1 DEF ScratchInv, TypeOK, Databases
    <2>3. PICK held \in SUBSET Contents : db' = [db EXCEPT ![job[p].target] = held]
      BY <1>26, <2>1, <2>2 DEF RestoreIntoFails, Restored, Contents
    <2> QED
      BY <1>26, <2>3 DEF RestoreIntoFails, disk, outputs, TypeOK
  <1>27. ASSUME NEW p \in Procs, OpenFile(p) PROVE Rest
    BY <1>27, <1>a DEF OpenFile, disk, shared, outputs, TypeOK
  <1>28. ASSUME NEW p \in Procs, OpenFileFails(p) PROVE Rest
    BY <1>28, <1>a DEF OpenFileFails, disk, shared, outputs, TypeOK
  <1>29. ASSUME NEW p \in Procs, WriteFile(p) PROVE Rest
    <2>1. job[p].id \in Ids
      BY <1>29, <1>a DEF WriteFile, At, Shape, VerifySteps
    <2> QED
      BY <1>29, <1>a, <2>1
         DEF WriteFile, disk, shared, outputs, TypeOK, ScratchInv, Databases, Contents, At
  <1>30. ASSUME NEW p \in Procs, WriteFileFails(p) PROVE Rest
    BY <1>30, <1>a DEF WriteFileFails, disk, shared, outputs, TypeOK
  <1>31. ASSUME NEW p \in Procs, Dump(p) PROVE Rest
    BY <1>31, <1>a, NoneIsNothing DEF Dump, disk, shared, outputs, TypeOK, Shape, At
  <1>32. ASSUME NEW p \in Procs, Hash(p) PROVE Rest
    BY <1>32, <1>a DEF Hash, disk, shared, outputs, TypeOK
  <1>33. ASSUME NEW p \in Procs, Read(p) PROVE Rest
    BY <1>33, <1>a DEF Read, disk, shared, outputs, TypeOK
  <1>34. ASSUME NEW p \in Procs, Kill(p) PROVE Rest
    <2>1. job[p].id \in Ids \cup {None} /\ (job[p].made => job[p].id \in Ids)
      BY <1>34, <1>a DEF Kill, At, Shape, VerifySteps
    <2> QED
      BY <1>34, <1>a, <2>1
         DEF Kill, disk, shared, outputs, TypeOK, ScratchInv, Databases, Contents, At
  <1>35. ASSUME NEW p \in Procs, NEW cmd \in Commands[p], Start(p, cmd) PROVE Rest
    BY <1>35 DEF Start, shared, disk, outputs, TypeOK
  <1>36. ASSUME NEW d \in {Target, Source}, Filled(d) PROVE Rest
    <2>1. db[d] \in SUBSET Contents
      BY DEF ScratchInv, TypeOK, Databases
    <2> QED
      BY <1>36, <2>1 DEF Filled, disk, TypeOK, Databases, Contents
  <1>37. CASE UNCHANGED vars
    BY <1>37 DEF vars, TypeOK
  <1>38. ASSUME NEW p \in Procs, CreateScratchUnseen(p) PROVE Rest
    <2>1. job[p].id \in Ids
      BY <1>38, <1>a DEF CreateScratchUnseen, At, Shape, VerifySteps
    <2> QED
      BY <1>38, <2>1 DEF CreateScratchUnseen, outputs, TypeOK, Databases
  <1> QED
    BY <1>1, <1>2, <1>3, <1>4, <1>5, <1>6, <1>7, <1>8, <1>9, <1>10, <1>11, <1>12, <1>13,
       <1>14, <1>15, <1>16, <1>17, <1>18, <1>19, <1>20, <1>21, <1>22, <1>23, <1>24, <1>25,
       <1>26, <1>27, <1>28, <1>29, <1>30, <1>31, <1>32, <1>33, <1>34, <1>35, <1>36, <1>37,
       <1>38
       DEF Next, Common, VerifyStep, RestoreStep, BackupStep

-----------------------------------------------------------------------------
(* What only -force may do.                                                *)

\* The ways something of a user's can be destroyed.
Spared ==
    /\ \A d \in {Target, Source} :
          db[d] \subseteq db'[d]
          \/ \E p \in Procs : At(p, "into") /\ job[p].force /\ job[p].target = d
    /\ out = Old => out' = Old \/ \E p \in Procs : At(p, "open") /\ job[p].force

\* No step destroys anything without -force.
LEMMA ForceStep == TypeOK /\ ShapeInv /\ ScratchInv /\ OutInv /\ [Next]_vars => Spared
  <1> SUFFICES ASSUME TypeOK, ShapeInv, ScratchInv, OutInv, [Next]_vars PROVE Spared
    OBVIOUS
  <1>a. ASSUME NEW p \in Procs
        PROVE  /\ Shape(job[p])
               /\ job[p].id \in Ids \cup {None} /\ job[p].target \in {Target, Source, None}
    BY DEF ShapeInv, Job
  <1>q. ASSUME UNCHANGED <<db, out>> PROVE Spared
    BY <1>q DEF Spared
  \* A scratch database is neither the target nor the source.
  <1>s. ASSUME NEW i \in Ids, \A d \in Databases : d # i => db'[d] = db[d], UNCHANGED out
        PROVE  Spared
    BY <1>s, TargetsAreNoScratch DEF Spared, Databases
  <1>1. ASSUME NEW p \in Procs, CleanOne(p) PROVE Spared
    BY <1>1, <1>q DEF CleanOne, shared, outputs
  <1>2. ASSUME NEW p \in Procs, CleanDone(p) PROVE Spared
    BY <1>2, <1>q DEF CleanDone, shared, outputs
  <1>3. ASSUME NEW p \in Procs, LoadForVerify(p) PROVE Spared
    BY <1>3, <1>q DEF LoadForVerify, Only, shared, outputs
  <1>4. ASSUME NEW p \in Procs, LoadForRestore(p) PROVE Spared
    BY <1>4, <1>q DEF LoadForRestore, Only, shared, outputs
  <1>5. ASSUME NEW p \in Procs, Refuse(p) PROVE Spared
    BY <1>5, <1>q DEF Refuse, shared, outputs
  <1>6. ASSUME NEW p \in Procs, CreateTemp(p) PROVE Spared
    BY <1>6, <1>q DEF CreateTemp, shared, outputs
  <1>7. ASSUME NEW p \in Procs, WriteFails(p) PROVE Spared
    BY <1>7, <1>q DEF WriteFails, shared, outputs
  <1>8. ASSUME NEW p \in Procs, Fetch(p) PROVE Spared
    BY <1>8, <1>q DEF Fetch, shared, outputs
  <1>9. ASSUME NEW p \in Procs, FetchFails(p) PROVE Spared
    BY <1>9, <1>q DEF FetchFails, shared, outputs
  <1>10. ASSUME NEW p \in Procs, Unlink(p) PROVE Spared
    BY <1>10, <1>q DEF Unlink, shared, outputs
  <1>11. ASSUME NEW p \in Procs, ToolFails(p) PROVE Spared
    BY <1>11, <1>q DEF ToolFails, Fails, shared, outputs
  <1>12. ASSUME NEW p \in Procs, DumpGone(p) PROVE Spared
    BY <1>12, <1>q DEF DumpGone, Fails, shared, outputs
  <1>13. ASSUME NEW p \in Procs, ListArchive(p) PROVE Spared
    BY <1>13, <1>q DEF ListArchive, shared, outputs
  <1>14. ASSUME NEW p \in Procs, CreateScratch(p) PROVE Spared
    <2>1. job[p].id \in Ids
      BY <1>14, <1>a DEF CreateScratch, At, Shape, VerifySteps
    <2>2. (\A d \in Databases : d # job[p].id => db'[d] = db[d]) /\ UNCHANGED out
      BY <1>14 DEF CreateScratch, outputs, TypeOK
    <2> QED
      BY <1>s, <2>1, <2>2
  <1>15. ASSUME NEW p \in Procs, ScratchExists(p) PROVE Spared
    BY <1>15, <1>q DEF ScratchExists, Only, shared, outputs
  <1>16. ASSUME NEW p \in Procs, SandboxTOC(p) PROVE Spared
    BY <1>16, <1>q DEF SandboxTOC, shared, outputs
  <1>17. ASSUME NEW p \in Procs, RestoreScratch(p) PROVE Spared
    <2>1. job[p].id \in Ids
      BY <1>17, <1>a DEF RestoreScratch, At, Shape, VerifySteps
    <2>2. (\A d \in Databases : d # job[p].id => db'[d] = db[d]) /\ UNCHANGED out
      BY <1>17 DEF RestoreScratch, outputs, TypeOK
    <2> QED
      BY <1>s, <2>1, <2>2
  <1>18. ASSUME NEW p \in Procs, RestoreScratchFails(p) PROVE Spared
    <2>1. job[p].id \in Ids
      BY <1>18, <1>a DEF RestoreScratchFails, At, Shape, VerifySteps, Fails
    <2>2. (\A d \in Databases : d # job[p].id => db'[d] = db[d]) /\ UNCHANGED out
      BY <1>18 DEF RestoreScratchFails, outputs, TypeOK, Fails
    <2> QED
      BY <1>s, <2>1, <2>2
  <1>19. ASSUME NEW p \in Procs, Count(p) PROVE Spared
    BY <1>19, <1>q DEF Count, shared, outputs
  <1>20. ASSUME NEW p \in Procs, Prove(p) PROVE Spared
    BY <1>20, <1>q DEF Prove, shared, outputs
  <1>21. ASSUME NEW p \in Procs, Revoke(p) PROVE Spared
    BY <1>21, <1>q DEF Revoke, shared, outputs
  <1>22. ASSUME NEW p \in Procs, Drop(p) PROVE Spared
    <2>1. job[p].id \in Ids
      BY <1>22, <1>a DEF Drop, At, Shape, VerifySteps
    <2>2. (\A d \in Databases : d # job[p].id => db'[d] = db[d]) /\ UNCHANGED out
      BY <1>22 DEF Drop, outputs, TypeOK
    <2> QED
      BY <1>s, <2>1, <2>2
  <1>23. ASSUME NEW p \in Procs, Inspect(p) PROVE Spared
    BY <1>23, <1>q DEF Inspect, Only, shared, outputs
  <1>24. ASSUME NEW p \in Procs, InspectRefuses(p) PROVE Spared
    BY <1>24, <1>q DEF InspectRefuses, shared, outputs
  <1>25. ASSUME NEW p \in Procs, RestoreInto(p) PROVE Spared
    <2>1. /\ job[p].target \in {Target, Source}
          /\ job[p].clean => job[p].force
          /\ At(p, "into")
      BY <1>25, <1>a DEF RestoreInto, At, Shape
    <2>2. CASE job[p].force
      <3>1. \A d \in {Target, Source} : d # job[p].target => db'[d] = db[d]
        BY <1>25, <2>1 DEF RestoreInto, TypeOK, Databases
      <3> QED
        BY <1>25, <2>1, <2>2, <3>1 DEF RestoreInto, Spared, outputs
    <2>3. CASE ~job[p].force
      <3>1. ~job[p].clean
        BY <2>1, <2>3
      <3>2. PICK held : db[job[p].target] \subseteq held /\ db' = [db EXCEPT ![job[p].target] = held]
        BY <1>25, <3>1 DEF RestoreInto, Restored
      <3>3. \A d \in {Target, Source} : db[d] \subseteq db'[d]
        BY <2>1, <3>2 DEF TypeOK, Databases
      <3> QED
        BY <1>25, <3>3 DEF RestoreInto, Spared, outputs
    <2> QED
      BY <2>2, <2>3
  <1>26. ASSUME NEW p \in Procs, RestoreIntoFails(p) PROVE Spared
    <2>1. /\ job[p].target \in {Target, Source}
          /\ job[p].clean => job[p].force
          /\ At(p, "into")
      BY <1>26, <1>a DEF RestoreIntoFails, At, Shape
    <2>2. CASE job[p].force
      <3>1. \A d \in {Target, Source} : d # job[p].target => db'[d] = db[d]
        BY <1>26, <2>1 DEF RestoreIntoFails, TypeOK, Databases
      <3> QED
        BY <1>26, <2>1, <2>2, <3>1 DEF RestoreIntoFails, Spared, outputs
    <2>3. CASE ~job[p].force
      <3>1. ~job[p].clean
        BY <2>1, <2>3
      <3>2. PICK held : db[job[p].target] \subseteq held /\ db' = [db EXCEPT ![job[p].target] = held]
        BY <1>26, <3>1 DEF RestoreIntoFails, Restored
      <3>3. \A d \in {Target, Source} : db[d] \subseteq db'[d]
        BY <2>1, <3>2 DEF TypeOK, Databases
      <3> QED
        BY <1>26, <3>3 DEF RestoreIntoFails, Spared, outputs
    <2> QED
      BY <2>2, <2>3
  <1>27. ASSUME NEW p \in Procs, OpenFile(p) PROVE Spared
    <2>1. out = Old => job[p].force
      BY <1>27, NoneIsNothing DEF OpenFile
    <2> QED
      BY <1>27, <2>1 DEF OpenFile, Spared
  <1>28. ASSUME NEW p \in Procs, OpenFileFails(p) PROVE Spared
    BY <1>28, <1>q DEF OpenFileFails, shared, outputs
  <1>29. ASSUME NEW p \in Procs, WriteFile(p) PROVE Spared
    <2>1. out # Old /\ UNCHANGED db
      BY <1>29 DEF WriteFile, At, OutInv
    <2> QED
      BY <2>1 DEF Spared
  <1>30. ASSUME NEW p \in Procs, WriteFileFails(p) PROVE Spared
    <2>1. out # Old /\ UNCHANGED db
      BY <1>30 DEF WriteFileFails, At, OutInv
    <2> QED
      BY <2>1 DEF Spared
  <1>31. ASSUME NEW p \in Procs, Dump(p) PROVE Spared
    BY <1>31, <1>q DEF Dump, shared, outputs
  <1>32. ASSUME NEW p \in Procs, Hash(p) PROVE Spared
    BY <1>32, <1>q DEF Hash, shared, outputs
  <1>33. ASSUME NEW p \in Procs, Read(p) PROVE Spared
    BY <1>33, <1>q DEF Read, shared, outputs
  <1>34. ASSUME NEW p \in Procs, Kill(p) PROVE Spared
    BY <1>34, <1>q DEF Kill, shared, outputs
  <1>35. ASSUME NEW p \in Procs, NEW cmd \in Commands[p], Start(p, cmd) PROVE Spared
    BY <1>35, <1>q DEF Start, shared, outputs
  <1>36. ASSUME NEW d \in {Target, Source}, Filled(d) PROVE Spared
    BY <1>36 DEF Filled, Spared, TypeOK, Databases
  <1>37. CASE UNCHANGED vars
    BY <1>37, <1>q DEF vars
  <1>38. ASSUME NEW p \in Procs, CreateScratchUnseen(p) PROVE Spared
    <2>1. job[p].id \in Ids
      BY <1>38, <1>a DEF CreateScratchUnseen, At, Shape, VerifySteps
    <2>2. (\A d \in Databases : d # job[p].id => db'[d] = db[d]) /\ UNCHANGED out
      BY <1>38 DEF CreateScratchUnseen, outputs, TypeOK
    <2> QED
      BY <1>s, <2>1, <2>2
  <1> QED
    BY <1>1, <1>2, <1>3, <1>4, <1>5, <1>6, <1>7, <1>8, <1>9, <1>10, <1>11, <1>12, <1>13,
       <1>14, <1>15, <1>16, <1>17, <1>18, <1>19, <1>20, <1>21, <1>22, <1>23, <1>24, <1>25,
       <1>26, <1>27, <1>28, <1>29, <1>30, <1>31, <1>32, <1>33, <1>34, <1>35, <1>36, <1>37,
       <1>38
       DEF Next, Common, VerifyStep, RestoreStep, BackupStep

-----------------------------------------------------------------------------
(* The invariant as a whole.                                               *)

IInv == TypeOK /\ ShapeInv /\ NamesInv /\ ScratchInv /\ AloneInv /\ OutInv

\* It holds of a host on which nothing has run.
LEMMA InitOK == Init => IInv
  <1> SUFFICES ASSUME Init PROVE IInv
    OBVIOUS
  <1>1. Idle \in Job /\ Shape(Idle)
    BY IdleIsAJob
  <1>2. \A p \in Procs : job[p] = Idle
    BY DEF Init
  <1>3. /\ Idle.pc = "idle" /\ Idle.tmp = None /\ Idle.todo = {} /\ Idle.made = FALSE /\ Idle.alone = FALSE
    BY DEF Idle
  <1>4. TypeOK
    <2>1. db \in [Databases -> {None} \cup SUBSET Contents]
      BY DEF Init, Databases, Contents
    <2> QED
      BY <1>1, <2>1 DEF Init, TypeOK, Contents
  <1>5. ShapeInv
    BY <1>1, <1>2 DEF Init, ShapeInv
  <1>6. NamesInv
    BY <1>2, <1>3, TargetsAreNoScratch DEF Init, NamesInv, NothingIsLeft, Databases
  <1>7. ScratchInv
    BY <1>2, <1>3, NoneIsNothing, TargetsAreNoScratch DEF Init, ScratchInv, Databases, Contents
  <1>8. AloneInv
    BY <1>2, <1>3 DEF AloneInv
  <1>9. OutInv
    BY <1>2, <1>3 DEF Init, OutInv, DeliveredFileStays
  <1> QED
    BY <1>4, <1>5, <1>6, <1>7, <1>8, <1>9 DEF IInv

\* Every step keeps it.
LEMMA StepOK == IInv /\ [Next]_vars => IInv'
  BY ShapeStep, NamesStep, ScratchStep, AloneStep, OutStep, TypeStep DEF IInv

\* So it holds throughout.
LEMMA Invariance == Spec => []IInv
  BY InitOK, StepOK, PTL DEF Spec

\* Every variable of the host keeps its type: databases hold backups or what
\* was there, and a command's locals are names and ids it was given.
THEOREM TypeCorrect == Spec => []TypeOK
  <1>1. IInv => TypeOK
    BY DEF IInv
  <1> QED
    BY <1>1, Invariance, PTL

\* A backup is proven on a scratch database of its own, whatever other verifies
\* of the host do, and whichever were killed (verify.go:58).
THEOREM ProvedOnOwnScratch == Spec => []ProofIsClean
  <1>1. IInv => ProofIsClean
    <2> SUFFICES ASSUME IInv, NEW p \in Procs, job[p].pc = "prove"
                 PROVE  /\ job[p].id \notin Damaged
                        /\ db[job[p].id] = {job[p].id}
                        /\ \A q \in Procs \ {p} : job[q].made => job[q].id # job[p].id
      BY DEF ProofIsClean, At
    <2>1. job[p].made /\ job[p].id \notin Damaged
      BY DEF IInv, ShapeInv, Shape, VerifySteps
    <2> QED
      BY <2>1 DEF IInv, ScratchInv
  <1> QED
    BY <1>1, Invariance, PTL

\* What a command made is gone when it is over, or is litter of one that was
\* killed, that could not drop its database, or that was never told it had made
\* one (artifact.go:79, verify.go:59).
THEOREM CommandsCleanUp == Spec => []NothingIsLeft
  <1>1. IInv => NothingIsLeft
    BY DEF IInv, NamesInv
  <1> QED
    BY <1>1, Invariance, PTL

\* A verify that is alone revokes for damaged bytes or a failure of the host,
\* never for what a command before it left or one beside it removed.
THEOREM RevokedForCause == Spec => []RevocationIsEarned
  <1>1. IInv => RevocationIsEarned
    BY DEF IInv, AloneInv, RevocationIsEarned, At
  <1> QED
    BY <1>1, Invariance, PTL

\* What restore -to-file reported written is there until somebody opens the path
\* with -force (restore.go:124).
THEOREM FilesStay == Spec => []DeliveredFileStays
  <1>1. IInv => DeliveredFileStays
    BY DEF IInv, OutInv
  <1> QED
    BY <1>1, Invariance, PTL

\* Contents leave the target or the source, and a file that was there is emptied
\* or removed, only by a restore that was given -force, however many run at once
\* and whoever fills a database after it was inspected (restore.go:79).
THEOREM ForceAloneDestroys == Spec => OnlyForceDestroys
  <1>1. IInv /\ [Next]_vars => [Spared]_vars
    BY ForceStep DEF IInv
  <1>2. Spared <=>
          /\ \A d \in {Target, Source} :
                db[d] \subseteq db'[d]
                \/ \E p \in Procs : At(p, "into") /\ job[p].force /\ job[p].target = d
          /\ out = Old => out' = Old \/ \E p \in Procs : At(p, "open") /\ job[p].force
    BY DEF Spared
  <1> QED
    BY <1>1, <1>2, Invariance, PTL DEF Spec, OnlyForceDestroys
=============================================================================
