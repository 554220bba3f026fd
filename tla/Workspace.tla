-------------------------------- MODULE Workspace --------------------------------
(***************************************************************************)
(* setupExecutionEnvironment's files (internal/terraform/executor.go):     *)
(* prepareWorkspace makes sure that the workspace of the project has the   *)
(* module's files, as symlinks into the shared module directory or, where  *)
(* that fails, as copies; generateTfvars then writes the variables.  One   *)
(* step is one system call.  The five module files are treated alike and   *)
(* one after the other, so one of them stands for all.                     *)
(***************************************************************************)
EXTENDS Integers

CONSTANTS
    Workers,     \* worker goroutines, each preparing workspaces again and again
    Projects,
    NoProject,   \* the project of an idle worker
    SymlinksOk,  \* whether the file system of the workspaces has symlinks: the
                 \* possible answers
    MaxFaults,   \* bound on failing system calls
    MaxCrashes   \* bound on crashes of workers

ASSUME WorkspaceAssumption ==
    /\ NoProject \notin Projects
    /\ Workers \cap {"none", "torn", "earlier"} = {}
    /\ SymlinksOk \subseteq BOOLEAN
    /\ MaxFaults \in Nat /\ MaxCrashes \in Nat

VARIABLES
    symlinks,  \* whether the file system of the workspaces has symlinks
    pc,        \* where a worker is
    project,   \* the project of the execution a worker is busy with
    entry,     \* the directory entry of the file in the workspace of a project:
               \* nothing, a link to the module's file ("link"), a link into a
               \* directory that used to be the module's ("stale"), or a copy
    copy,      \* what a copy holds
    module,    \* what the module's file holds
    old,       \* what the target of the stale links holds
    fd,        \* what copyFile of a worker has open for writing: the target of a
               \* link, a copy, a copy that was removed since ("gone"), or nothing
    tfvars,    \* what the tfvars file of a project holds: the variables of the
               \* execution a worker is busy with now (or was last), of an
               \* execution before that ("earlier"), a torn text, or no file
    misread,   \* history: an Lstat or a Readlink has failed
    unlinked,  \* history: projects of which a Remove failed, or a Symlink that
               \* the file system would have allowed
    faults,
    crashes

place == <<symlinks, module, old>>
files == <<place, entry, copy, fd>>
past  == <<misread, unlinked>>
vars  == <<pc, project, files, tfvars, past, faults, crashes>>

Contents == {"none", "torn", "full"}   \* no file, cut short, the whole text

Init ==
    /\ symlinks \in SymlinksOk
    /\ pc = [w \in Workers |-> "idle"]
    /\ project = [w \in Workers |-> NoProject]
    /\ entry \in [Projects -> IF symlinks THEN {"nothing", "link", "stale"} ELSE {"nothing"}]
    /\ copy = [p \in Projects |-> "none"]
    /\ module = "full"
    /\ old \in {"none", "full"}
    /\ fd = [w \in Workers |-> "none"]
    /\ tfvars = [p \in Projects |-> "none"]
    /\ misread = FALSE
    /\ unlinked = {}
    /\ faults = 0
    /\ crashes = 0

--------------------------------------------------------------------------------
Project(w) == project[w]
Entry(w)   == entry[Project(w)]

At(w, l)       == pc[w] = l
Goto(w, l)     == pc' = [pc EXCEPT ![w] = l] /\ UNCHANGED project
Leave(w)       == /\ pc' = [pc EXCEPT ![w] = "idle"]
                  /\ project' = [project EXCEPT ![w] = NoProject]
SetEntry(w, k) == entry' = [entry EXCEPT ![Project(w)] = k]
Faulty         == faults < MaxFaults /\ faults' = faults + 1

(* What terraform reads through the entry. *)
Seen(w) ==
    CASE Entry(w) = "link"  -> module
      [] Entry(w) = "stale" -> old
      [] OTHER -> copy[Project(w)]

--------------------------------------------------------------------------------
(* Wrong variants of actions below, which no part of Next uses.            *)

(* Any link is taken for a valid one. *)
ReadlinkAnyTarget(w) ==
    /\ At(w, "readlink")
    /\ Goto(w, IF Entry(w) \in {"link", "stale"} THEN "tfvars" ELSE "remove")
    /\ UNCHANGED <<files, tfvars, past, faults, crashes>>

(* No link is taken for a valid one, and it is not removed either. *)
ReadlinkNoRemove(w) ==
    /\ At(w, "readlink")
    /\ Goto(w, "symlink")
    /\ UNCHANGED <<files, tfvars, past, faults, crashes>>

(* A copy that fails leaves its file open. *)
CopyLeaves(w) ==
    /\ At(w, "copy")
    /\ Faulty
    /\ Leave(w)
    /\ UNCHANGED <<files, tfvars, past, crashes>>

(* The error of Symlink is ignored. *)
SymlinkOnly(w) ==
    /\ At(w, "symlink")
    /\ IF symlinks /\ Entry(w) = "nothing" THEN SetEntry(w, "link") ELSE UNCHANGED entry
    /\ Goto(w, "tfvars")
    /\ UNCHANGED <<place, copy, fd, tfvars, past, faults, crashes>>

(* An existing tfvars file is reused, as the module's files are. *)
ReuseTfvars(w) ==
    /\ At(w, "tfvars")
    /\ IF tfvars[Project(w)] = "none"
         THEN Goto(w, "write") /\ tfvars' = [tfvars EXCEPT ![Project(w)] = "torn"]
         ELSE Goto(w, "terraform") /\ UNCHANGED tfvars
    /\ UNCHANGED <<files, past, faults, crashes>>

--------------------------------------------------------------------------------
(* Execute is called: what this worker wrote before is an earlier          *)
(* execution's from now on.                                                *)
Take(w, p) ==
    /\ At(w, "idle")
    /\ pc' = [pc EXCEPT ![w] = "lstat"]
    /\ project' = [project EXCEPT ![w] = p]
    /\ tfvars' = [q \in Projects |-> IF tfvars[q] = w THEN "earlier" ELSE tfvars[q]]
    /\ UNCHANGED <<files, past, faults, crashes>>

(* ensureFileOrSymlink: Lstat tells a link, a regular file, or nothing; an *)
(* error of Lstat is taken for nothing.                                    *)
Lstat(w) ==
    /\ At(w, "lstat")
    /\ \/ /\ Goto(w, CASE Entry(w) = "nothing" -> "symlink"
                       [] Entry(w) = "copy" -> "tfvars"
                       [] OTHER -> "readlink")
          /\ UNCHANGED <<misread, faults>>
       \/ Faulty /\ misread' = TRUE /\ Goto(w, "symlink")
    /\ UNCHANGED <<files, tfvars, unlinked, crashes>>

(* Readlink: only the link to the module's file is reused. *)
Readlink(w) ==
    /\ At(w, "readlink")
    /\ \/ /\ Goto(w, IF Entry(w) = "link" THEN "tfvars" ELSE "remove")
          /\ UNCHANGED <<misread, faults>>
       \/ Faulty /\ misread' = TRUE /\ Goto(w, "remove")
    /\ UNCHANGED <<files, tfvars, unlinked, crashes>>

(* Remove, whatever the entry is by now; its error is ignored. *)
Remove(w) ==
    /\ At(w, "remove")
    /\ \/ /\ SetEntry(w, "nothing")
          /\ copy' = [copy EXCEPT ![Project(w)] = "none"]
          /\ fd' = [v \in Workers |->
                      IF Project(v) = Project(w) /\ fd[v] = "copy" THEN "gone" ELSE fd[v]]
          /\ UNCHANGED <<unlinked, faults>>
       \/ /\ Faulty
          /\ unlinked' = unlinked \cup {Project(w)}
          /\ UNCHANGED <<entry, copy, fd>>
    /\ Goto(w, "symlink")
    /\ UNCHANGED <<place, tfvars, misread, crashes>>

(* Symlink fails when there is an entry: then, as for any of its errors,   *)
(* the file is copied.                                                     *)
Symlink(w) ==
    /\ At(w, "symlink")
    /\ IF symlinks /\ Entry(w) = "nothing"
         THEN \/ SetEntry(w, "link") /\ Goto(w, "tfvars") /\ UNCHANGED <<unlinked, faults>>
              \/ /\ Faulty
                 /\ unlinked' = unlinked \cup {Project(w)}
                 /\ UNCHANGED entry
                 /\ Goto(w, "create")
         ELSE UNCHANGED <<entry, unlinked, faults>> /\ Goto(w, "create")
    /\ UNCHANGED <<place, copy, fd, tfvars, misread, crashes>>

(* c becomes the content of what is open as d. *)
Write(w, d, c) ==
    /\ module' = IF d = "link" THEN c ELSE module
    /\ old' = IF d = "stale" THEN c ELSE old
    /\ copy' = IF d = "copy" THEN [copy EXCEPT ![Project(w)] = c] ELSE copy

(* copyFile: os.Open and os.Create may fail; os.Create follows a link and  *)
(* empties what it finds, or makes an empty file...                        *)
Create(w) ==
    /\ At(w, "create")
    /\ \/ /\ IF Entry(w) = "nothing" THEN SetEntry(w, "copy") ELSE UNCHANGED entry
          /\ fd' = [fd EXCEPT ![w] = entry'[Project(w)]]
          /\ Write(w, fd'[w], "torn")
          /\ Goto(w, "copy")
          /\ UNCHANGED faults
       \/ Faulty /\ Leave(w) /\ UNCHANGED <<entry, copy, module, old, fd>>
    /\ UNCHANGED <<symlinks, tfvars, past, crashes>>

(* ... and io.Copy fills it from the module's file, or stops half-way. *)
Copy(w) ==
    /\ At(w, "copy")
    /\ \/ Write(w, fd[w], module) /\ Goto(w, "tfvars") /\ UNCHANGED faults
       \/ Faulty /\ Leave(w) /\ UNCHANGED <<copy, module, old>>
    /\ fd' = [fd EXCEPT ![w] = "none"]
    /\ UNCHANGED <<symlinks, entry, tfvars, past, crashes>>

(* generateTfvars: os.WriteFile empties the file and writes it. *)
OpenTfvars(w) ==
    /\ At(w, "tfvars")
    /\ \/ /\ tfvars' = [tfvars EXCEPT ![Project(w)] = "torn"]
          /\ Goto(w, "write")
          /\ UNCHANGED faults
       \/ Faulty /\ Leave(w) /\ UNCHANGED tfvars
    /\ UNCHANGED <<files, past, crashes>>

WriteTfvars(w) ==
    /\ At(w, "write")
    /\ \/ /\ tfvars' = [tfvars EXCEPT ![Project(w)] = w]
          /\ Goto(w, "terraform")
          /\ UNCHANGED faults
       \/ Faulty /\ Leave(w) /\ UNCHANGED tfvars
    /\ UNCHANGED <<files, past, crashes>>

(* terraform runs on the workspace; then there is another job. *)
Finish(w) ==
    /\ At(w, "terraform")
    /\ Leave(w)
    /\ UNCHANGED <<files, tfvars, past, faults, crashes>>

Crash(w) ==
    /\ ~ At(w, "idle")
    /\ crashes < MaxCrashes
    /\ crashes' = crashes + 1
    /\ Leave(w)
    /\ fd' = [fd EXCEPT ![w] = "none"]
    /\ UNCHANGED <<place, entry, copy, tfvars, past, faults>>

Next ==
    \E w \in Workers :
        \/ \E p \in Projects : Take(w, p)
        \/ Lstat(w) \/ Readlink(w) \/ Remove(w) \/ Symlink(w)
        \/ Create(w) \/ Copy(w) \/ OpenTfvars(w) \/ WriteTfvars(w)
        \/ Finish(w) \/ Crash(w)

Spec == Init /\ [][Next]_vars

(* No two workers are busy with the same project.  The code does not see   *)
(* to it: the Backend may, by handing out one job of a project at a time.  *)
Own == \A v, w \in Workers : Project(v) = Project(w) /\ Project(v) # NoProject => v = w

OwnSpec == Init /\ [][Next /\ Own']_vars

--------------------------------------------------------------------------------
(* The variables keep their types; a worker has a project exactly while it *)
(* is busy, and a file open exactly while it copies.                       *)
TypeOK ==
    /\ symlinks \in BOOLEAN
    /\ pc \in [Workers -> {"idle", "lstat", "readlink", "remove", "symlink", "create",
                           "copy", "tfvars", "write", "terraform"}]
    /\ project \in [Workers -> Projects \cup {NoProject}]
    /\ \A w \in Workers : project[w] = NoProject <=> At(w, "idle")
    /\ entry \in [Projects -> {"nothing", "link", "stale", "copy"}]
    /\ copy \in [Projects -> Contents]
    /\ module \in Contents
    /\ old \in Contents
    /\ fd \in [Workers -> {"none", "link", "stale", "copy", "gone"}]
    /\ \A w \in Workers : fd[w] # "none" <=> At(w, "copy")
    /\ tfvars \in [Projects -> Workers \cup {"none", "torn", "earlier"}]
    /\ misread \in BOOLEAN
    /\ unlinked \subseteq Projects
    /\ faults \in 0..MaxFaults
    /\ crashes \in 0..MaxCrashes

(* Preparing a workspace never damages the module that all workspaces      *)
(* share, as long as Lstat and Readlink tell what is there: whatever       *)
(* Remove, Symlink and the copy come to.                                   *)
ModuleIntact == ~ misread => module = "full"

(* A prepared workspace has the whole file (ensureFileOrSymlink guarantees *)
(* that the file is there and valid, and recreates a broken one): when     *)
(* terraform runs, whatever cut earlier preparations short.                *)
PreparedIsUsable == \A w \in Workers : At(w, "terraform") => Seen(w) = "full"

(* ... at least where symlinks work, so that there is nothing to tear ...  *)
LinkedIsUsable ==
    \A w \in Workers :
        At(w, "terraform") /\ symlinks /\ ~ misread /\ Project(w) \notin unlinked
            => Seen(w) = "full"

(* ... and where files are copied, as long as nothing was cut short.       *)
UndisturbedIsUsable == faults = 0 /\ crashes = 0 => PreparedIsUsable

(* terraform runs on the variables that the same execution wrote: not on   *)
(* those of an earlier one, of the same worker or another, and not on what *)
(* an interrupted one left.                                                *)
OwnTfvars == \A w \in Workers : At(w, "terraform") => tfvars[Project(w)] = w
================================================================================
