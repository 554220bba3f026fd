----------------------------- MODULE Workspace_proofs -----------------------------
(***************************************************************************)
(* Theorems on Workspace: its types for any workers and projects, and,     *)
(* while no two workers are busy with the same project, that terraform     *)
(* runs on the whole module and on the variables of its own execution, and *)
(* that the shared module is not written.                                  *)
(***************************************************************************)
EXTENDS Workspace, TLAPS

Labels == {"idle", "lstat", "readlink", "remove", "symlink", "create", "copy", "tfvars",
           "write", "terraform"}
Opened == {"none", "link", "stale", "copy", "gone"}
Kinds  == {"nothing", "link", "stale", "copy"}

LEMMA BusyProject ==
    ASSUME TypeOK, NEW w \in Workers, pc[w] # "idle"
    PROVE  Project(w) \in Projects /\ Project(w) # NoProject
BY WorkspaceAssumption DEF TypeOK, Project, At

(* What a step of w does to where the workers are. *)
LEMMA GotoStep ==
    ASSUME TypeOK, NEW w \in Workers, NEW l \in Labels \ {"idle"}, Goto(w, l), pc[w] # "idle"
    PROVE  /\ pc' \in [Workers -> Labels] /\ pc'[w] = l
           /\ project' \in [Workers -> Projects \cup {NoProject}] /\ UNCHANGED project
           /\ \A v \in Workers : v # w => pc'[v] = pc[v]
           /\ \A v \in Workers : project'[v] = NoProject <=> pc'[v] = "idle"
BY DEF TypeOK, Goto, Labels, At

LEMMA LeaveStep ==
    ASSUME TypeOK, NEW w \in Workers, Leave(w)
    PROVE  /\ pc' \in [Workers -> Labels] /\ pc'[w] = "idle"
           /\ project' \in [Workers -> Projects \cup {NoProject}] /\ project'[w] = NoProject
           /\ \A v \in Workers : v # w => pc'[v] = pc[v] /\ project'[v] = project[v]
           /\ \A v \in Workers : project'[v] = NoProject <=> pc'[v] = "idle"
BY DEF TypeOK, Leave, Labels, At

LEMMA TakeStep ==
    ASSUME TypeOK, NEW w \in Workers, NEW p \in Projects, Take(w, p)
    PROVE  /\ pc' \in [Workers -> Labels] /\ pc'[w] = "lstat" /\ pc[w] = "idle"
           /\ project' \in [Workers -> Projects \cup {NoProject}] /\ project'[w] = p
           /\ \A v \in Workers : v # w => pc'[v] = pc[v] /\ project'[v] = project[v]
           /\ \A v \in Workers : project'[v] = NoProject <=> pc'[v] = "idle"
BY WorkspaceAssumption DEF TypeOK, Take, Labels, At

LEMMA WriteStep ==
    ASSUME TypeOK, NEW w \in Workers, NEW d \in Opened, NEW c \in Contents, Write(w, d, c),
           Project(w) \in Projects
    PROVE  /\ module' \in Contents /\ old' \in Contents /\ copy' \in [Projects -> Contents]
           /\ d # "link" => module' = module
           /\ d = "copy" => copy'[Project(w)] = c
           /\ d # "copy" => copy' = copy
           /\ \A p \in Projects : p # Project(w) => copy'[p] = copy[p]
BY DEF Write, TypeOK

LEMMA FaultyStep ==
    ASSUME TypeOK, Faulty
    PROVE  faults' \in 0..MaxFaults /\ faults' # 0
BY WorkspaceAssumption DEF Faulty, TypeOK

--------------------------------------------------------------------------------
(* Types. *)

(* The part of TypeOK that says where the workers are. *)
Placing ==
    /\ pc \in [Workers -> Labels]
    /\ project \in [Workers -> Projects \cup {NoProject}]
    /\ \A w \in Workers : project[w] = NoProject <=> pc[w] = "idle"

LEMMA PlacingNext ==
    ASSUME TypeOK, NEW w \in Workers,
           \/ \E p \in Projects : Take(w, p)
           \/ pc[w] # "idle" /\ \E l \in Labels \ {"idle"} : Goto(w, l)
           \/ Leave(w)
    PROVE  Placing' /\ \A v \in Workers : v # w => pc'[v] = pc[v]
BY GotoStep, LeaveStep, TakeStep DEF Placing

LEMMA TypeOKNext == TypeOK /\ [Next]_vars => TypeOK'
<1> SUFFICES ASSUME TypeOK, [Next]_vars PROVE TypeOK'
  OBVIOUS
<1> USE DEF files, place, past
<1>0. "none" \in Contents /\ "torn" \in Contents /\ "full" \in Contents
  BY DEF Contents
(* Steps that open and close nothing. *)
<1>1. ASSUME NEW w \in Workers, Placing', \A v \in Workers : v # w => pc'[v] = pc[v],
             pc[w] # "copy", pc'[w] # "copy",
             symlinks' \in BOOLEAN, module' \in Contents, old' \in Contents,
             entry' \in [Projects -> Kinds], copy' \in [Projects -> Contents],
             fd' \in [Workers -> Opened], \A v \in Workers : fd'[v] # "none" <=> fd[v] # "none",
             tfvars' \in [Projects -> Workers \cup {"none", "torn", "earlier"}],
             misread' \in BOOLEAN, unlinked' \subseteq Projects,
             faults' \in 0..MaxFaults, crashes' \in 0..MaxCrashes
      PROVE  TypeOK'
  BY <1>1 DEF TypeOK, Placing, At, Labels, Kinds, Opened
<1>2. ASSUME NEW w \in Workers, NEW p \in Projects, Take(w, p) PROVE TypeOK'
  <2>1. /\ Placing' /\ pc'[w] = "lstat" /\ pc[w] = "idle"
        /\ \A v \in Workers : v # w => pc'[v] = pc[v]
    BY <1>2, PlacingNext, TakeStep
  <2>2. tfvars' \in [Projects -> Workers \cup {"none", "torn", "earlier"}]
    BY <1>2 DEF Take, TypeOK
  <2> QED
    BY <1>1, <1>2, <2>1, <2>2 DEF Take, TypeOK, Kinds, Opened
<1>3. ASSUME NEW w \in Workers, Lstat(w) \/ Readlink(w) PROVE TypeOK'
  <2>1. PICK l \in {"symlink", "tfvars", "readlink", "remove"} : Goto(w, l)
    BY <1>3 DEF Lstat, Readlink
  <2>2. l \in Labels \ {"idle"} /\ l # "copy" /\ pc[w] \notin {"idle", "copy"}
    BY <1>3 DEF Labels, Lstat, Readlink, At
  <2>3. Placing' /\ pc'[w] = l /\ \A v \in Workers : v # w => pc'[v] = pc[v]
    BY <2>1, <2>2, PlacingNext, GotoStep
  <2>4. faults' \in 0..MaxFaults /\ misread' \in BOOLEAN
    BY <1>3, FaultyStep DEF Lstat, Readlink, TypeOK
  <2>5. UNCHANGED <<files, tfvars, unlinked, crashes>>
    BY <1>3 DEF Lstat, Readlink
  <2> QED
    BY <1>1, <2>2, <2>3, <2>4, <2>5 DEF TypeOK, Kinds, Opened
<1>4. ASSUME NEW w \in Workers, Remove(w) PROVE TypeOK'
  <2>1. Goto(w, "symlink") /\ pc[w] = "remove" /\ "symlink" \in Labels \ {"idle"}
    BY <1>4 DEF Remove, At, Labels
  <2>2. Placing' /\ pc'[w] = "symlink" /\ \A v \in Workers : v # w => pc'[v] = pc[v]
    BY <2>1, PlacingNext, GotoStep
  <2>3. fd' \in [Workers -> Opened] /\ \A v \in Workers : fd'[v] # "none" <=> fd[v] # "none"
    BY <1>4 DEF Remove, TypeOK, Opened
  <2>4. entry' \in [Projects -> Kinds] /\ copy' \in [Projects -> Contents]
    BY <1>0, <1>4 DEF Remove, SetEntry, TypeOK, Kinds
  <2>5. faults' \in 0..MaxFaults /\ unlinked' \subseteq Projects
    BY <1>4, <2>1, FaultyStep, BusyProject DEF Remove, TypeOK
  <2> QED
    BY <1>1, <1>4, <2>1, <2>2, <2>3, <2>4, <2>5 DEF Remove, TypeOK
<1>5. ASSUME NEW w \in Workers, Symlink(w) PROVE TypeOK'
  <2>1. PICK l \in {"tfvars", "create"} : Goto(w, l)
    BY <1>5 DEF Symlink
  <2>2. l \in Labels \ {"idle"} /\ l # "copy" /\ pc[w] = "symlink"
    BY <1>5 DEF Labels, Symlink, At
  <2>3. Placing' /\ pc'[w] = l /\ \A v \in Workers : v # w => pc'[v] = pc[v]
    BY <2>1, <2>2, PlacingNext, GotoStep
  <2>4. entry' \in [Projects -> Kinds]
    BY <1>5 DEF Symlink, SetEntry, TypeOK, Kinds
  <2>5. faults' \in 0..MaxFaults /\ unlinked' \subseteq Projects
    BY <1>5, <2>2, FaultyStep, BusyProject DEF Symlink, TypeOK
  <2> QED
    BY <1>1, <1>5, <2>2, <2>3, <2>4, <2>5 DEF Symlink, TypeOK, Opened
<1>6. ASSUME NEW w \in Workers, Create(w) PROVE TypeOK'
  <2>0. pc[w] = "create" /\ Project(w) \in Projects
    BY <1>6, BusyProject DEF Create, At
  <2>1. CASE /\ IF Entry(w) = "nothing" THEN SetEntry(w, "copy") ELSE UNCHANGED entry
             /\ fd' = [fd EXCEPT ![w] = entry'[Project(w)]]
             /\ Write(w, fd'[w], "torn")
             /\ Goto(w, "copy")
             /\ UNCHANGED faults
    <3>1. Placing' /\ pc'[w] = "copy" /\ \A v \in Workers : v # w => pc'[v] = pc[v]
      BY <2>0, <2>1, PlacingNext, GotoStep DEF Labels
    <3>2. entry' \in [Projects -> Kinds] /\ entry'[Project(w)] \in Kinds \ {"nothing"}
      BY <2>0, <2>1 DEF SetEntry, Entry, TypeOK, Kinds
    <3>3. /\ fd' \in [Workers -> Opened] /\ fd'[w] \in Opened /\ fd'[w] # "none"
          /\ \A v \in Workers : v # w => fd'[v] = fd[v]
      BY <2>1, <3>2 DEF TypeOK, Opened, Kinds
    <3>4. module' \in Contents /\ old' \in Contents /\ copy' \in [Projects -> Contents]
      BY <1>0, <2>0, <2>1, <3>3, WriteStep
    <3> QED
      BY <1>6, <2>1, <3>1, <3>2, <3>3, <3>4 DEF Create, TypeOK, Placing, At, Labels, Opened, Kinds
  <2>2. CASE Faulty /\ Leave(w) /\ UNCHANGED <<entry, copy, module, old, fd>>
    <3>1. Placing' /\ pc'[w] = "idle" /\ \A v \in Workers : v # w => pc'[v] = pc[v]
      BY <2>2, PlacingNext, LeaveStep
    <3>2. faults' \in 0..MaxFaults
      BY <2>2, FaultyStep
    <3> QED
      BY <1>1, <1>6, <2>0, <2>2, <3>1, <3>2 DEF Create, TypeOK, Kinds, Opened
  <2> QED
    BY <1>6, <2>1, <2>2 DEF Create
<1>7. ASSUME NEW w \in Workers, Copy(w) PROVE TypeOK'
  <2>0. pc[w] = "copy" /\ Project(w) \in Projects
    BY <1>7, BusyProject DEF Copy, At
  <2>1. Placing' /\ pc'[w] # "copy" /\ \A v \in Workers : v # w => pc'[v] = pc[v]
    <3>1. CASE Goto(w, "tfvars")
      BY <2>0, <3>1, PlacingNext, GotoStep DEF Labels
    <3>2. CASE Leave(w)
      BY <3>2, PlacingNext, LeaveStep
    <3> QED
      BY <1>7, <3>1, <3>2 DEF Copy
  <2>2. fd' \in [Workers -> Opened] /\ fd'[w] = "none" /\ \A v \in Workers : v # w => fd'[v] = fd[v]
    BY <1>7 DEF Copy, TypeOK, Opened
  <2>3. module' \in Contents /\ old' \in Contents /\ copy' \in [Projects -> Contents]
    <3>1. fd[w] \in Opened /\ module \in Contents
      BY DEF TypeOK, Opened
    <3> QED
      BY <1>7, <2>0, <3>1, WriteStep DEF Copy, TypeOK
  <2>4. faults' \in 0..MaxFaults
    BY <1>7, FaultyStep DEF Copy, TypeOK
  <2> QED
    BY <1>7, <2>1, <2>2, <2>3, <2>4 DEF Copy, TypeOK, Placing, At, Labels, Opened
<1>8. ASSUME NEW w \in Workers, OpenTfvars(w) \/ WriteTfvars(w) \/ Finish(w) PROVE TypeOK'
  <2>1. pc[w] \in {"tfvars", "write", "terraform"} /\ UNCHANGED <<files, past, crashes>>
    BY <1>8 DEF OpenTfvars, WriteTfvars, Finish, At
  <2>2. Placing' /\ pc'[w] # "copy" /\ \A v \in Workers : v # w => pc'[v] = pc[v]
    <3>1. CASE Goto(w, "write") \/ Goto(w, "terraform")
      BY <2>1, <3>1, PlacingNext, GotoStep DEF Labels
    <3>2. CASE Leave(w)
      BY <3>2, PlacingNext, LeaveStep
    <3> QED
      BY <1>8, <3>1, <3>2 DEF OpenTfvars, WriteTfvars, Finish
  <2>3. /\ tfvars' \in [Projects -> Workers \cup {"none", "torn", "earlier"}]
        /\ faults' \in 0..MaxFaults
    BY <1>8, FaultyStep DEF OpenTfvars, WriteTfvars, Finish, TypeOK
  <2> QED
    BY <1>1, <2>1, <2>2, <2>3 DEF TypeOK, Kinds, Opened
<1>9. ASSUME NEW w \in Workers, Crash(w) PROVE TypeOK'
  <2>1. Placing' /\ pc'[w] = "idle" /\ \A v \in Workers : v # w => pc'[v] = pc[v]
    BY <1>9, PlacingNext, LeaveStep DEF Crash
  <2>2. fd' \in [Workers -> Opened] /\ fd'[w] = "none" /\ \A v \in Workers : v # w => fd'[v] = fd[v]
    BY <1>9 DEF Crash, TypeOK, Opened
  <2>3. crashes' \in 0..MaxCrashes
    BY <1>9, WorkspaceAssumption DEF Crash, TypeOK
  <2> QED
    BY <1>9, <2>1, <2>2, <2>3 DEF Crash, TypeOK, Placing, At, Labels, Opened
<1>10. CASE UNCHANGED vars
  BY <1>10 DEF vars, TypeOK, At
<1> QED
  BY <1>2, <1>3, <1>4, <1>5, <1>6, <1>7, <1>8, <1>9, <1>10 DEF Next

LEMMA InitTypeOK == Init => TypeOK
<1> SUFFICES ASSUME Init PROVE TypeOK
  OBVIOUS
<1>1. entry \in [Projects -> Kinds]
  BY DEF Init, Kinds
<1>2. /\ pc \in [Workers -> Labels] /\ project \in [Workers -> Projects \cup {NoProject}]
      /\ \A w \in Workers : project[w] = NoProject /\ pc[w] = "idle" /\ fd[w] = "none"
  BY DEF Init, Labels
<1>3. /\ copy \in [Projects -> Contents] /\ module \in Contents /\ old \in Contents
      /\ fd \in [Workers -> Opened]
      /\ tfvars \in [Projects -> Workers \cup {"none", "torn", "earlier"}]
  BY DEF Init, Contents, Opened
<1>4. symlinks \in BOOLEAN /\ misread \in BOOLEAN
  BY WorkspaceAssumption, Zenon DEF Init
<1>5. unlinked \subseteq Projects /\ faults \in 0..MaxFaults /\ crashes \in 0..MaxCrashes
  BY WorkspaceAssumption DEF Init
<1> QED
  BY <1>1, <1>2, <1>3, <1>4, <1>5 DEF TypeOK, Kinds, Labels, Opened, At

(* The variables keep their types, a worker has a project exactly while it *)
(* is busy and a file open exactly while it copies: for any workers on any *)
(* projects.                                                               *)
THEOREM WorkspaceTypes == Spec => []TypeOK
BY InitTypeOK, TypeOKNext, PTL DEF Spec

--------------------------------------------------------------------------------
(* Workers on projects of their own. *)

(* Only where there are no symlinks, or none could be made, is there a     *)
(* copy; it is whole when nothing was cut short, unless it is being made.  *)
Placed(p) ==
    /\ entry[p] = "copy" => ~ symlinks \/ p \in unlinked
    /\ faults = 0 /\ crashes = 0 /\ entry[p] = "copy"
         => copy[p] = "full" \/ \E w \in Workers : pc[w] = "copy" /\ Project(w) = p

(* What the entry of a worker's workspace is where the worker is: nothing  *)
(* is written through the link to the module.                              *)
Prepared(w) ==
    /\ pc[w] = "readlink" => Entry(w) \in {"link", "stale"}
    /\ pc[w] = "remove" => Entry(w) = "stale"
    /\ pc[w] \in {"symlink", "create"} => Entry(w) \in {"nothing", "stale"}
    /\ pc[w] = "symlink" /\ Entry(w) = "stale" => Project(w) \in unlinked
    /\ pc[w] \in {"create", "copy"} => ~ symlinks \/ Project(w) \in unlinked
    /\ pc[w] = "create" /\ Entry(w) = "stale" => Project(w) \in unlinked
    /\ pc[w] = "copy" => fd[w] \in {"copy", "stale"} /\ Entry(w) = fd[w]
    /\ pc[w] = "copy" /\ Entry(w) = "stale" => Project(w) \in unlinked
    /\ pc[w] \in {"tfvars", "write", "terraform"} =>
         Entry(w) # "nothing" /\ (Entry(w) = "stale" => Project(w) \in unlinked)

InPlace == (\A p \in Projects : Placed(p)) /\ \A w \in Workers : Prepared(w)

OwnInv ==
    /\ TypeOK
    /\ Own
    /\ faults = 0 => ~ misread /\ unlinked = {}
    /\ ~ misread => module = "full" /\ InPlace
    /\ OwnTfvars

LEMMA InitOwn == Init => OwnInv
<1> SUFFICES ASSUME Init PROVE OwnInv
  OBVIOUS
<1>1. \A p \in Projects : Placed(p)
  BY DEF Init, Placed
<1>2. \A w \in Workers : Prepared(w)
  BY DEF Init, Prepared
<1>3. Own /\ OwnTfvars
  BY DEF Init, Own, OwnTfvars, At, Project
<1> QED
  BY <1>1, <1>2, <1>3, InitTypeOK DEF OwnInv, InPlace, Init

(* A worker does not touch the workspaces of the others. *)
LEMMA OthersInPlace ==
    ASSUME OwnInv, NEW w \in Workers, ~ misread, UNCHANGED symlinks,
           faults' = 0 => faults = 0, crashes' = 0 => crashes = 0,
           \A v \in Workers : v # w =>
               pc'[v] = pc[v] /\ project'[v] = project[v] /\ fd'[v] = fd[v],
           \A p \in Projects : p # project[w] =>
               entry'[p] = entry[p] /\ copy'[p] = copy[p] /\ (p \in unlinked' <=> p \in unlinked),
           pc[w] = "idle" => ~ (pc'[w] \in Labels \ {"idle", "lstat"}),
           pc[w] # "idle" => Prepared(w)' /\ \A p \in {project[w]} : Placed(p)'
    PROVE  InPlace'
<1>0. TypeOK /\ Own /\ InPlace
  BY DEF OwnInv
<1>1. ASSUME NEW v \in Workers, v # w, pc[v] # "idle" PROVE Prepared(v)'
  <2>1. Project(v) \in Projects /\ Project(v) # project[w]
    BY <1>0, <1>1, BusyProject DEF Own, Project
  <2>2. /\ Entry(v)' = Entry(v) /\ pc'[v] = pc[v] /\ fd'[v] = fd[v]
        /\ Project(v)' = Project(v) /\ (Project(v) \in unlinked' <=> Project(v) \in unlinked)
    BY <1>1, <2>1 DEF Entry, Project
  <2>3. Prepared(v)
    BY <1>0 DEF InPlace
  <2> QED
    BY <2>2, <2>3 DEF Prepared
<1>2. ASSUME NEW v \in Workers, v # w, pc[v] = "idle" PROVE Prepared(v)'
  BY <1>2 DEF Prepared
<1>3. pc[w] = "idle" => Prepared(w)'
  BY DEF Prepared, Labels
<1>4. ASSUME NEW p \in Projects, p # project[w] PROVE Placed(p)'
  <2>1. Placed(p)
    BY <1>0 DEF InPlace
  <2>2. ASSUME NEW v \in Workers, pc[v] = "copy", Project(v) = p
        PROVE  pc'[v] = "copy" /\ Project(v)' = p
    BY <1>4, <2>2 DEF Project
  <2> QED
    BY <1>4, <2>1, <2>2 DEF Placed
<1>5. ASSUME NEW p \in Projects, p = project[w] PROVE Placed(p)'
  <2>1. pc[w] # "idle"
    BY <1>0, <1>5, WorkspaceAssumption DEF TypeOK, At
  <2> QED
    BY <1>5, <2>1
<1> QED
  BY <1>1, <1>2, <1>3, <1>4, <1>5 DEF InPlace

(* A worker that is not copying leaves its workspace as it was. *)
LEMMA StillPlaced ==
    ASSUME OwnInv, NEW w \in Workers, ~ misread, pc[w] \notin {"idle", "copy"},
           UNCHANGED <<symlinks, entry, copy, unlinked>>,
           faults' = 0 => faults = 0, crashes' = 0 => crashes = 0,
           \A v \in Workers : v # w => pc'[v] = pc[v] /\ project'[v] = project[v]
    PROVE  \A p \in {project[w]} : Placed(p)'
<1>1. Placed(project[w]) /\ project[w] \in Projects
  BY BusyProject DEF OwnInv, InPlace, Project
<1>2. ASSUME NEW v \in Workers, pc[v] = "copy", Project(v) = project[w]
      PROVE  pc'[v] = "copy" /\ Project(v)' = project[w]
  BY <1>2 DEF Project
<1> QED
  BY <1>1, <1>2 DEF Placed

LEMMA InPlaceNext == OwnInv /\ [Next]_vars /\ ~ misread' => module' = "full" /\ InPlace'
<1> SUFFICES ASSUME OwnInv, [Next]_vars, ~ misread' PROVE module' = "full" /\ InPlace'
  OBVIOUS
<1> DEFINE Goal == module' = "full" /\ InPlace'
<1> USE DEF files, place, past
<1>0. /\ ~ misread /\ TypeOK /\ Own
      /\ faults \in Nat /\ crashes \in Nat /\ entry \in [Projects -> Kinds]
      /\ DOMAIN pc = Workers /\ DOMAIN fd = Workers /\ DOMAIN copy = Projects /\ DOMAIN project = Workers
  <2>1. ~ misread
    BY DEF Next, Take, Lstat, Readlink, Remove, Symlink, Create, Copy, OpenTfvars, WriteTfvars,
           Finish, Crash, vars
  <2> QED
    BY <2>1, WorkspaceAssumption DEF OwnInv, TypeOK, Kinds
<1>00. module = "full" /\ \A w \in Workers : Prepared(w)
  BY <1>0 DEF OwnInv, InPlace
(* Steps that only move the worker, or end its execution. *)
<1>1. ASSUME NEW w \in Workers, pc[w] \notin {"idle", "copy"}, UNCHANGED <<files, unlinked>>,
             faults' = 0 => faults = 0, crashes' = 0 => crashes = 0,
             \A v \in Workers : v # w => pc'[v] = pc[v] /\ project'[v] = project[v], Prepared(w)'
      PROVE  Goal
  BY <1>0, <1>00, <1>1, StillPlaced, OthersInPlace
<1>2. ASSUME NEW w \in Workers, NEW p \in Projects, Take(w, p) PROVE Goal
  <2>1. /\ pc[w] = "idle" /\ pc'[w] = "lstat"
        /\ \A v \in Workers : v # w => pc'[v] = pc[v] /\ project'[v] = project[v]
    BY <1>0, <1>2, TakeStep
  <2> QED
    BY <1>0, <1>00, <1>2, <2>1, OthersInPlace DEF Take
<1>3. ASSUME NEW w \in Workers, Lstat(w) PROVE Goal
  <2>1. /\ pc[w] = "lstat" /\ UNCHANGED <<files, tfvars, past, faults, crashes, project>>
        /\ \/ Entry(w) = "nothing" /\ Goto(w, "symlink")
           \/ Entry(w) = "copy" /\ Goto(w, "tfvars")
           \/ Entry(w) \notin {"nothing", "copy"} /\ Goto(w, "readlink")
    BY <1>3 DEF Lstat, At, Goto
  <2>2. Entry(w)' = Entry(w) /\ Entry(w) \in Kinds
    BY <1>0, <2>1, BusyProject DEF Entry, Project
  <2>3. Prepared(w)' /\ \A v \in Workers : v # w => pc'[v] = pc[v]
    BY <1>0, <2>1, <2>2 DEF Goto, Prepared, Kinds
  <2> QED
    BY <1>1, <2>1, <2>3
<1>4. ASSUME NEW w \in Workers, Readlink(w) PROVE Goal
  <2>1. /\ pc[w] = "readlink" /\ UNCHANGED <<files, tfvars, past, faults, crashes, project>>
        /\ \/ Entry(w) = "link" /\ Goto(w, "tfvars")
           \/ Entry(w) # "link" /\ Goto(w, "remove")
    BY <1>4 DEF Readlink, At, Goto
  <2>2. Entry(w)' = Entry(w) /\ Entry(w) \in {"link", "stale"}
    BY <1>00, <2>1 DEF Entry, Project, Prepared
  <2>3. Prepared(w)' /\ \A v \in Workers : v # w => pc'[v] = pc[v]
    BY <1>0, <2>1, <2>2 DEF Goto, Prepared
  <2> QED
    BY <1>1, <2>1, <2>3
<1>5. ASSUME NEW w \in Workers, Remove(w) PROVE Goal
  <2>1. /\ pc[w] = "remove" /\ Goto(w, "symlink") /\ UNCHANGED <<place, tfvars, misread, crashes>>
        /\ Project(w) \in Projects /\ Project(w) # NoProject /\ Entry(w) = "stale"
    BY <1>0, <1>00, <1>5, BusyProject DEF Remove, At, Prepared
  <2>2. /\ pc'[w] = "symlink" /\ UNCHANGED project
        /\ \A v \in Workers : v # w => pc'[v] = pc[v]
    BY <1>0, <2>1 DEF Goto
  <2>3. CASE /\ SetEntry(w, "nothing")
             /\ copy' = [copy EXCEPT ![Project(w)] = "none"]
             /\ fd' = [v \in Workers |->
                         IF Project(v) = Project(w) /\ fd[v] = "copy" THEN "gone" ELSE fd[v]]
             /\ UNCHANGED <<unlinked, faults>>
    <3>1. entry'[Project(w)] = "nothing"
      BY <1>0, <2>1, <2>3 DEF SetEntry
    <3>2. \A v \in Workers : v # w => fd'[v] = fd[v]
      BY <1>0, <2>1, <2>3 DEF Own
    <3>3. \A p \in Projects : p # Project(w) => entry'[p] = entry[p] /\ copy'[p] = copy[p]
      BY <1>0, <2>3 DEF SetEntry
    <3>4. Prepared(w)' /\ \A p \in {project[w]} : Placed(p)'
      BY <2>2, <3>1 DEF Prepared, Placed, Entry, Project
    <3> QED
      BY <1>0, <1>00, <2>1, <2>2, <2>3, <3>2, <3>3, <3>4, OthersInPlace DEF Project
  <2>4. CASE /\ Faulty /\ unlinked' = unlinked \cup {Project(w)} /\ UNCHANGED <<entry, copy, fd>>
    <3>1. faults' # 0
      BY <1>0, <2>4, FaultyStep
    <3>2. Prepared(w)' /\ \A p \in {project[w]} : Placed(p)'
      BY <2>1, <2>2, <2>4, <3>1 DEF Prepared, Placed, Entry, Project
    <3> QED
      BY <1>0, <1>00, <2>1, <2>2, <2>4, <3>1, <3>2, OthersInPlace DEF Project
  <2> QED
    BY <1>5, <2>3, <2>4 DEF Remove
<1>6. ASSUME NEW w \in Workers, Symlink(w) PROVE Goal
  <2>1. /\ pc[w] = "symlink" /\ UNCHANGED <<place, copy, fd, tfvars, misread, crashes>>
        /\ Project(w) \in Projects /\ Prepared(w)
    BY <1>0, <1>00, <1>6, BusyProject DEF Symlink, At
  <2>2. CASE symlinks /\ Entry(w) = "nothing" /\ SetEntry(w, "link") /\ Goto(w, "tfvars") /\ UNCHANGED <<unlinked, faults>>
    <3>1. /\ entry'[Project(w)] = "link" /\ pc'[w] = "tfvars" /\ UNCHANGED project
          /\ \A v \in Workers : v # w => pc'[v] = pc[v]
          /\ \A p \in Projects : p # Project(w) => entry'[p] = entry[p]
      BY <1>0, <2>1, <2>2 DEF SetEntry, Goto
    <3>2. Prepared(w)' /\ \A p \in {project[w]} : Placed(p)'
      BY <3>1 DEF Prepared, Placed, Entry, Project
    <3> QED
      BY <1>0, <1>00, <2>1, <2>2, <3>1, <3>2, OthersInPlace DEF Project
  <2>3. CASE Faulty /\ unlinked' = unlinked \cup {Project(w)} /\ UNCHANGED entry /\ Goto(w, "create")
    <3>1. faults' # 0
      BY <1>0, <2>3, FaultyStep
    <3>2. /\ pc'[w] = "create" /\ UNCHANGED project
          /\ \A v \in Workers : v # w => pc'[v] = pc[v]
      BY <1>0, <2>3 DEF Goto
    <3>3. Prepared(w)' /\ \A p \in {project[w]} : Placed(p)'
      BY <2>1, <2>3, <3>1, <3>2 DEF Prepared, Placed, Entry, Project
    <3> QED
      BY <1>0, <1>00, <2>1, <2>3, <3>1, <3>2, <3>3, OthersInPlace DEF Project
  <2>4. CASE ~ (symlinks /\ Entry(w) = "nothing") /\ UNCHANGED <<entry, unlinked, faults>> /\ Goto(w, "create")
    <3>1. /\ pc'[w] = "create" /\ UNCHANGED project
          /\ \A v \in Workers : v # w => pc'[v] = pc[v]
      BY <1>0, <2>4 DEF Goto
    <3>2. Entry(w)' = Entry(w) /\ Project(w)' = Project(w)
      BY <2>4, <3>1 DEF Entry, Project
    <3>3. Prepared(w)'
      BY <2>1, <2>4, <3>1, <3>2 DEF Prepared
    <3> QED
      BY <1>1, <2>1, <2>4, <3>1, <3>3
  <2> QED
    BY <1>6, <2>2, <2>3, <2>4 DEF Symlink
<1>7. ASSUME NEW w \in Workers, Create(w) PROVE Goal
  <2>1. /\ pc[w] = "create" /\ UNCHANGED <<symlinks, tfvars, past, crashes>>
        /\ Project(w) \in Projects /\ Prepared(w)
    BY <1>0, <1>00, <1>7, BusyProject DEF Create, At
  <2>2. CASE /\ IF Entry(w) = "nothing" THEN SetEntry(w, "copy") ELSE UNCHANGED entry
             /\ fd' = [fd EXCEPT ![w] = entry'[Project(w)]]
             /\ Write(w, fd'[w], "torn")
             /\ Goto(w, "copy")
             /\ UNCHANGED faults
    <3>1. /\ entry'[Project(w)] = IF Entry(w) = "nothing" THEN "copy" ELSE "stale"
          /\ pc'[w] = "copy" /\ UNCHANGED project
          /\ \A v \in Workers : v # w => pc'[v] = pc[v]
          /\ \A p \in Projects : p # Project(w) => entry'[p] = entry[p]
      BY <1>0, <2>1, <2>2 DEF SetEntry, Entry, Goto, Prepared
    <3>2. fd'[w] = entry'[Project(w)] /\ \A v \in Workers : v # w => fd'[v] = fd[v]
      BY <1>0, <2>2
    <3>3. module' = module /\ \A p \in Projects : p # Project(w) => copy'[p] = copy[p]
      BY <1>0, <2>1, <2>2, <3>1, <3>2, WriteStep DEF Opened, Contents
    <3>4. Prepared(w)'
      BY <2>1, <3>1, <3>2 DEF Prepared, Entry, Project
    <3>5. \A p \in {project[w]} : Placed(p)'
      BY <2>1, <3>1 DEF Placed, Prepared, Project
    <3> QED
      BY <1>0, <1>00, <2>1, <2>2, <3>1, <3>2, <3>3, <3>4, <3>5, OthersInPlace DEF Project
  <2>3. CASE Faulty /\ Leave(w) /\ UNCHANGED <<entry, copy, module, old, fd>>
    <3>1. pc'[w] = "idle" /\ \A v \in Workers : v # w => pc'[v] = pc[v] /\ project'[v] = project[v]
      BY <1>0, <2>3, LeaveStep
    <3>2. faults' # 0 /\ Prepared(w)'
      BY <1>0, <2>3, <3>1, FaultyStep DEF Prepared
    <3> QED
      BY <1>1, <2>1, <2>3, <3>1, <3>2
  <2> QED
    BY <1>7, <2>2, <2>3 DEF Create
<1>8. ASSUME NEW w \in Workers, Copy(w) PROVE Goal
  <2>1. /\ pc[w] = "copy" /\ UNCHANGED <<symlinks, entry, tfvars, past, crashes>>
        /\ fd[w] \in {"copy", "stale"} /\ Entry(w) = fd[w] /\ Project(w) \in Projects /\ Prepared(w)
    BY <1>0, <1>00, <1>8, BusyProject DEF Copy, At, Prepared
  <2>2. \A v \in Workers : v # w => fd'[v] = fd[v]
    BY <1>0, <1>8 DEF Copy
  <2>3. Placed(Project(w))
    BY <1>0, <2>1 DEF OwnInv, InPlace
  <2>4. CASE Write(w, fd[w], module) /\ Goto(w, "tfvars") /\ UNCHANGED faults
    <3>1. /\ module' = module /\ (fd[w] = "copy" => copy'[Project(w)] = "full")
          /\ \A p \in Projects : p # Project(w) => copy'[p] = copy[p]
      BY <1>0, <1>00, <2>1, <2>4, WriteStep DEF Opened, Contents
    <3>2. pc'[w] = "tfvars" /\ UNCHANGED project /\ \A v \in Workers : v # w => pc'[v] = pc[v]
      BY <1>0, <2>4 DEF Goto
    <3>3. Entry(w)' = Entry(w) /\ Project(w)' = Project(w)
      BY <2>1, <3>2 DEF Entry, Project
    <3>4. Prepared(w)'
      BY <2>1, <3>2, <3>3 DEF Prepared
    <3>5. \A p \in {project[w]} : Placed(p)'
      BY <2>1, <2>3, <3>1 DEF Placed, Entry, Project
    <3> QED
      BY <1>0, <1>00, <2>1, <2>2, <2>4, <3>1, <3>2, <3>4, <3>5, OthersInPlace DEF Project
  <2>5. CASE Faulty /\ Leave(w) /\ UNCHANGED <<copy, module, old>>
    <3>1. pc'[w] = "idle" /\ \A v \in Workers : v # w => pc'[v] = pc[v] /\ project'[v] = project[v]
      BY <1>0, <2>5, LeaveStep
    <3>2. faults' # 0 /\ Prepared(w)'
      BY <1>0, <2>5, <3>1, FaultyStep DEF Prepared
    <3>3. \A p \in {project[w]} : Placed(p)'
      BY <2>1, <2>3, <3>2 DEF Placed, Project
    <3> QED
      BY <1>0, <1>00, <2>1, <2>2, <2>5, <3>1, <3>2, <3>3, OthersInPlace
  <2> QED
    BY <1>8, <2>4, <2>5 DEF Copy
<1>9. ASSUME NEW w \in Workers, OpenTfvars(w) \/ WriteTfvars(w) \/ Finish(w) PROVE Goal
  <2>1. /\ pc[w] \in {"tfvars", "write", "terraform"} /\ UNCHANGED <<files, past, crashes>>
        /\ Prepared(w)
    BY <1>00, <1>9 DEF OpenTfvars, WriteTfvars, Finish, At
  <2>2. faults' = 0 => faults = 0
    BY <1>0, <1>9, FaultyStep DEF OpenTfvars, WriteTfvars, Finish
  <2>3. CASE Goto(w, "write") \/ Goto(w, "terraform")
    <3>1. /\ pc'[w] \in {"write", "terraform"} /\ UNCHANGED project
          /\ \A v \in Workers : v # w => pc'[v] = pc[v]
      BY <1>0, <2>3 DEF Goto
    <3>2. Entry(w)' = Entry(w) /\ Project(w)' = Project(w)
      BY <2>1, <3>1 DEF Entry, Project
    <3>3. Prepared(w)'
      BY <2>1, <3>1, <3>2 DEF Prepared
    <3> QED
      BY <1>1, <2>1, <2>2, <3>1, <3>3
  <2>4. CASE Leave(w)
    <3>1. pc'[w] = "idle" /\ \A v \in Workers : v # w => pc'[v] = pc[v] /\ project'[v] = project[v]
      BY <1>0, <2>4, LeaveStep
    <3> QED
      BY <1>1, <2>1, <2>2, <3>1 DEF Prepared
  <2> QED
    BY <1>9, <2>3, <2>4 DEF OpenTfvars, WriteTfvars, Finish
<1>10. ASSUME NEW w \in Workers, Crash(w) PROVE Goal
  <2>1. /\ crashes' # 0 /\ pc[w] # "idle"
        /\ UNCHANGED <<place, entry, copy, past, faults>>
    BY <1>0, <1>10 DEF Crash, At
  <2>2. /\ pc'[w] = "idle" /\ Prepared(w)'
        /\ \A v \in Workers : v # w => pc'[v] = pc[v] /\ project'[v] = project[v] /\ fd'[v] = fd[v]
    BY <1>0, <1>10, LeaveStep DEF Crash, Prepared
  <2>3. \A p \in {project[w]} : Placed(p)'
    <3>1. Placed(project[w])
      BY <1>0, <2>1, BusyProject DEF OwnInv, InPlace, Project
    <3> QED
      BY <2>1, <3>1 DEF Placed
  <2> QED
    BY <1>0, <1>00, <2>1, <2>2, <2>3, OthersInPlace
<1>11. CASE UNCHANGED vars
  <2>1. UNCHANGED <<pc, project, symlinks, entry, copy, module, fd, unlinked, faults, crashes>>
    BY <1>11 DEF vars
  <2>2. ASSUME NEW w \in Workers PROVE Prepared(w)'
    BY <1>00, <2>1 DEF Prepared, Entry, Project
  <2>3. ASSUME NEW p \in Projects PROVE Placed(p)'
    <3>1. Placed(p)
      BY <1>0 DEF OwnInv, InPlace
    <3> QED
      BY <2>1, <3>1 DEF Placed, Project
  <2> QED
    BY <1>00, <2>1, <2>2, <2>3 DEF InPlace
<1> QED
  BY <1>2, <1>3, <1>4, <1>5, <1>6, <1>7, <1>8, <1>9, <1>10, <1>11 DEF Next

(* The variables a terraform runs on stay those of its execution. *)
LEMMA OwnTfvarsNext == OwnInv /\ [Next]_vars => OwnTfvars'
<1> SUFFICES ASSUME OwnInv, [Next]_vars, NEW v \in Workers, pc'[v] = "terraform"
             PROVE  tfvars'[Project(v)'] = v
  BY DEF OwnTfvars, At
<1> USE DEF files, place, past
<1>0. TypeOK /\ Own /\ OwnTfvars /\ DOMAIN pc = Workers /\ DOMAIN tfvars = Projects /\ DOMAIN project = Workers
  BY DEF OwnInv, TypeOK
<1>1. ASSUME pc[v] = "terraform", UNCHANGED <<tfvars, project>>
      PROVE  tfvars'[Project(v)'] = v
  BY <1>0, <1>1 DEF OwnTfvars, At, Project
<1>2. ASSUME NEW w \in Workers, NEW p \in Projects, Take(w, p) PROVE tfvars'[Project(v)'] = v
  <2>1. /\ v # w /\ pc[v] = "terraform" /\ Project(v)' = Project(v)
    BY <1>0, <1>2, TakeStep DEF Project
  <2>2. Project(v) \in Projects /\ tfvars[Project(v)] = v
    BY <1>0, <2>1, BusyProject DEF OwnTfvars, At
  <2> QED
    BY <1>2, <2>1, <2>2 DEF Take
<1>3. ASSUME NEW w \in Workers,
             Lstat(w) \/ Readlink(w) \/ Remove(w) \/ Symlink(w) \/ Create(w) \/ Copy(w) \/ Finish(w) \/ Crash(w)
      PROVE  tfvars'[Project(v)'] = v
  <2>1. UNCHANGED tfvars
    BY <1>3 DEF Lstat, Readlink, Remove, Symlink, Create, Copy, Finish, Crash
  <2>2. \/ \E l \in Labels \ {"terraform"} : Goto(w, l)
        \/ Leave(w)
    BY <1>3 DEF Lstat, Readlink, Remove, Symlink, Create, Copy, Finish, Crash, Labels
  <2>3. pc[v] = "terraform" /\ project'[v] = project[v]
    BY <1>0, <2>2 DEF Goto, Leave, Labels
  <2> QED
    BY <1>0, <2>1, <2>3 DEF OwnTfvars, At, Project
<1>4. ASSUME NEW w \in Workers, OpenTfvars(w) \/ WriteTfvars(w) PROVE tfvars'[Project(v)'] = v
  <2>0. pc[w] \in {"tfvars", "write"} /\ Project(w) \in Projects /\ Project(w) # NoProject
    BY <1>0, <1>4, BusyProject DEF OpenTfvars, WriteTfvars, At
  <2>1. CASE v = w
    <3>1. WriteTfvars(w) /\ Goto(w, "terraform") /\ tfvars' = [tfvars EXCEPT ![Project(w)] = w]
      BY <1>0, <1>4, <2>1 DEF OpenTfvars, WriteTfvars, Goto, Leave
    <3> QED
      BY <1>0, <2>0, <2>1, <3>1 DEF Goto, Project
  <2>2. CASE v # w
    <3>1. pc[v] = "terraform" /\ project'[v] = project[v]
      BY <1>0, <1>4, <2>2 DEF OpenTfvars, WriteTfvars, Goto, Leave
    <3>2. Project(v) \in Projects /\ Project(v) # Project(w) /\ tfvars[Project(v)] = v
      BY <1>0, <2>0, <2>2, <3>1, BusyProject DEF Own, OwnTfvars, At
    <3>3. tfvars'[Project(v)] = tfvars[Project(v)]
      BY <1>0, <1>4, <3>2 DEF OpenTfvars, WriteTfvars
    <3> QED
      BY <3>1, <3>2, <3>3 DEF Project
  <2> QED
    BY <2>1, <2>2
<1>5. CASE UNCHANGED vars
  BY <1>1, <1>5 DEF vars
<1> QED
  BY <1>2, <1>3, <1>4, <1>5 DEF Next

LEMMA FaultsNext ==
    OwnInv /\ [Next]_vars => (faults' = 0 => ~ misread' /\ unlinked' = {})
<1> SUFFICES ASSUME OwnInv, [Next]_vars, faults' = 0 PROVE ~ misread' /\ unlinked' = {}
  OBVIOUS
<1>1. ~ Faulty
  BY FaultyStep DEF OwnInv
<1>2. UNCHANGED <<faults, misread, unlinked>>
  BY <1>1 DEF Next, Take, Lstat, Readlink, Remove, Symlink, Create, Copy, OpenTfvars,
              WriteTfvars, Finish, Crash, vars, past
<1> QED
  BY <1>2 DEF OwnInv

(* The invariant holds while no two workers share a project. *)
LEMMA OwnInvHolds == OwnSpec => []OwnInv
<1>1. OwnInv /\ [Next /\ Own']_vars => OwnInv'
  <2> SUFFICES ASSUME OwnInv, [Next /\ Own']_vars PROVE OwnInv'
    OBVIOUS
  <2>1. [Next]_vars /\ TypeOK'
    BY TypeOKNext DEF OwnInv
  <2>2. Own'
    BY DEF OwnInv, Own, Project, vars
  <2> QED
    BY <2>1, <2>2, InPlaceNext, OwnTfvarsNext, FaultsNext DEF OwnInv
<1> QED
  BY <1>1, InitOwn, PTL DEF OwnSpec

(* Workers on projects of their own do not write the shared module, as     *)
(* long as Lstat and Readlink tell what is there.                          *)
THEOREM OwnProjectsSpareTheModule == OwnSpec => []ModuleIntact
<1>1. OwnInv => ModuleIntact
  BY DEF OwnInv, ModuleIntact
<1> QED
  BY <1>1, OwnInvHolds, PTL

(* Where symlinks work terraform runs on the whole module, whatever cut    *)
(* earlier preparations short...                                           *)
THEOREM OwnLinksAreUsable == OwnSpec => []LinkedIsUsable
<1>1. OwnInv => LinkedIsUsable
  <2> SUFFICES ASSUME OwnInv, NEW w \in Workers, pc[w] = "terraform", symlinks, ~ misread,
                      Project(w) \notin unlinked
               PROVE  Seen(w) = "full"
    BY DEF LinkedIsUsable, At
  <2>1. Project(w) \in Projects
    BY BusyProject DEF OwnInv
  <2>2. module = "full" /\ Prepared(w) /\ Placed(Project(w)) /\ entry[Project(w)] \in Kinds
    BY <2>1 DEF OwnInv, InPlace, TypeOK, Kinds
  <2>3. Entry(w) = "link"
    BY <2>2 DEF Prepared, Placed, Entry, Kinds
  <2> QED
    BY <2>2, <2>3 DEF Seen
<1> QED
  BY <1>1, OwnInvHolds, PTL

(* ... and where they do not, as long as nothing was cut short.            *)
THEOREM OwnCopiesAreUsable == OwnSpec => []UndisturbedIsUsable
<1>1. OwnInv => UndisturbedIsUsable
  <2> SUFFICES ASSUME OwnInv, faults = 0, crashes = 0, NEW w \in Workers, pc[w] = "terraform"
               PROVE  Seen(w) = "full"
    BY DEF UndisturbedIsUsable, PreparedIsUsable, At
  <2>1. Project(w) \in Projects /\ Project(w) # NoProject /\ ~ misread /\ unlinked = {}
    BY BusyProject DEF OwnInv
  <2>2. module = "full" /\ Prepared(w) /\ Placed(Project(w)) /\ entry[Project(w)] \in Kinds
    BY <2>1 DEF OwnInv, InPlace, TypeOK, Kinds
  <2>3. Entry(w) \in {"link", "copy"}
    BY <2>1, <2>2 DEF Prepared, Entry, Kinds
  <2>4. Entry(w) = "copy" => copy[Project(w)] = "full"
    BY <2>1, <2>2 DEF Placed, Entry, OwnInv, Own
  <2> QED
    BY <2>2, <2>3, <2>4 DEF Seen
<1> QED
  BY <1>1, OwnInvHolds, PTL

(* terraform runs on the variables that the same execution wrote, not on   *)
(* those of an earlier one, of the same worker or another.                 *)
THEOREM OwnVariables == OwnSpec => []OwnTfvars
<1>1. OwnInv => OwnTfvars
  BY DEF OwnInv
<1> QED
  BY <1>1, OwnInvHolds, PTL
================================================================================
