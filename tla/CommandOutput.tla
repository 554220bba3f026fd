------------------------------ MODULE CommandOutput ------------------------------
(***************************************************************************)
(* runTerraformWithOutput (internal/terraform/executor.go): a terraform    *)
(* command writes lines to two pipes, two goroutines scan them into one    *)
(* string, and when both are done the command is waited for and its exit   *)
(* code and output become a report.  All that while the deadline may pass. *)
(*                                                                         *)
(* terraform, its pipes and os/exec are external: a script says what the   *)
(* command writes.  A line of "size" pieces is longer than the buffer of   *)
(* a scanner when it has more than TokenSize of them.                      *)
(***************************************************************************)
EXTENDS ErrorExtract, FiniteSets

CONSTANTS
    Scripts,     \* sequences of lines: [kind : Kinds, stream : Streams, size : Nat \ {0}]
    PipeSize,    \* the pieces a pipe holds
    TokenSize,   \* the pieces the buffer of a scanner holds
    None         \* there is no result, exit code or report yet

ASSUME SizesAssumption == PipeSize \in Nat \ {0} /\ TokenSize \in Nat \ {0}
ASSUME ScriptsAssumption ==
    Scripts \subseteq Seq([kind : Kinds, stream : Streams, size : Nat \ {0}])
ASSUME NoneAssumption ==
    None \notin Int /\ None \notin [code : Int, failed : BOOLEAN]

VARIABLES
    script,      \* the lines of this command
    pc,          \* where runTerraformWithOutput and its caller are
    written,     \* the pieces of lines the command has written
    exit,        \* None while the command runs, else its exit code (-1: a signal)
    expired,     \* whether the context is past its deadline
    killed,      \* whether os/exec has killed the command
    taken,       \* the pieces that were read
    scanner,     \* whether a scanner reads, is done, or gave up
    output,      \* outputBuilder: a sequence of lines
    result,      \* what waitForCompletion returned
    report       \* what is reported to the Backend

command == <<written, exit>>
capture == <<taken, scanner, output>>
vars    == <<script, pc, command, expired, killed, capture, result, report>>

Init ==
    /\ script \in Scripts
    /\ pc = "start"
    /\ written = {}
    /\ exit = None
    /\ expired \in BOOLEAN
    /\ killed = FALSE
    /\ taken = {}
    /\ scanner = [s \in Streams |-> "reads"]
    /\ output = <<>>
    /\ result = None
    /\ report = None

--------------------------------------------------------------------------------
(* The pieces of the script, in the order in which they are written.       *)
Pieces       == UNION {[line : {i}, part : 1..script[i].size] : i \in DOMAIN script}
Before(p, q) == p.line < q.line \/ (p.line = q.line /\ p.part < q.part)
First(p, S)  == p \in S /\ \A q \in S : ~ Before(q, p)
Ends(p)      == p.part = script[p.line].size
LastPiece(i)      == [line |-> i, part |-> script[i].size]

(* What is in the pipe of s, and what the scanner of s has read of a line  *)
(* it has not seen the end of. *)
On(p, s) == script[p.line].stream = s
Piped(s) == {p \in written \ taken : On(p, s)}
Held(s)  == {p \in taken : On(p, s) /\ LastPiece(p.line) \notin taken}

(* A line in the output; what is left of a line that was cut off begins as *)
(* the line does, and may end before what makes it special. *)
Line(i)     == [line |-> i, kind |-> script[i].kind, stream |-> script[i].stream, cut |-> FALSE]
Remnants(i) == {[Line(i) EXCEPT !.cut = TRUE, !.kind = k] : k \in {script[i].kind, "text"}}

--------------------------------------------------------------------------------
(* Wrong variants of definitions below, which nothing uses. *)

(* wg.Add(1) *)
FirstScannerDone ==
    /\ pc = "capture"
    /\ \E s \in Streams : scanner[s] = "done"
    /\ pc' = "wait"
    /\ UNCHANGED <<script, command, expired, killed, capture, result, report>>

(* exec.Command in the place of exec.CommandContext: nobody kills. *)
KillNothing ==
    /\ FALSE
    /\ UNCHANGED vars

(* The exit code is looked at before the deadline is. *)
ExitCodeFirst ==
    /\ pc = "wait" /\ exit # None
    /\ result' = [code |-> exit, failed |-> exit # 0]
    /\ pc' = "returned"
    /\ UNCHANGED <<script, command, expired, killed, capture, report>>

(* The two streams are read one after the other. *)
ScanInTurn(s) ==
    /\ pc = "capture" /\ scanner[s] = "reads"
    /\ s = "stderr" => scanner["stdout"] # "reads"
    /\ \E p \in Piped(s) :
        /\ First(p, Piped(s))
        /\ taken' = taken \cup {p}
        /\ output' = IF Ends(p) THEN Append(output, Line(p.line)) ELSE output
    /\ UNCHANGED <<script, pc, command, expired, killed, scanner, result, report>>

(* The context is cancelled before the command has ended. *)
KillEarly ==
    /\ pc \in {"capture", "wait"}
    /\ ~ killed
    /\ killed' = TRUE
    /\ exit' = IF exit = None THEN -1 ELSE exit
    /\ UNCHANGED <<script, pc, written, expired, capture, result, report>>

--------------------------------------------------------------------------------
(* The command starts, unless the deadline has passed or exec fails. *)
Start ==
    /\ pc = "start"
    /\ ~ expired
    /\ pc' = "capture"
    /\ UNCHANGED <<script, command, expired, killed, capture, result, report>>

StartFails ==
    /\ pc = "start"
    /\ result' = [code |-> -1, failed |-> TRUE]
    /\ pc' = "returned"
    /\ UNCHANGED <<script, command, expired, killed, capture, report>>

Running == pc # "start" /\ pc # "returned" /\ exit = None

(* The command writes its next piece, and blocks while the pipe is full. *)
Write ==
    /\ Running
    /\ \E p \in Pieces \ written :
        /\ First(p, Pieces \ written)
        /\ Cardinality(Piped(script[p.line].stream)) < PipeSize
        /\ written' = written \cup {p}
    /\ UNCHANGED <<script, pc, exit, expired, killed, capture, result, report>>

(* It has written everything... *)
Exit ==
    /\ Running
    /\ written = Pieces
    /\ exit' \in {0, 1}
    /\ UNCHANGED <<script, pc, written, expired, killed, capture, result, report>>

(* ... or crashes before, or is killed by somebody else. *)
Crash ==
    /\ Running
    /\ exit' = -1
    /\ UNCHANGED <<script, pc, written, expired, killed, capture, result, report>>

(* scanAndLog: Scan reads a piece.  A line that is complete goes to the    *)
(* output, under the mutex; a buffer that is full without a line ends it.  *)
Scan(s) ==
    /\ pc = "capture" /\ scanner[s] = "reads"
    /\ \E p \in Piped(s) :
        /\ First(p, Piped(s))
        /\ taken' = taken \cup {p}
        /\ output' = IF Ends(p) THEN Append(output, Line(p.line)) ELSE output
        /\ scanner' = IF ~ Ends(p) /\ p.part >= TokenSize
                        THEN [scanner EXCEPT ![s] = "gaveUp"] ELSE scanner
    /\ UNCHANGED <<script, pc, command, expired, killed, result, report>>

(* The end of the stream, which a line without its end precedes. *)
EndOfStream(s) ==
    /\ pc = "capture" /\ scanner[s] = "reads"
    /\ exit # None /\ Piped(s) = {}
    /\ scanner' = [scanner EXCEPT ![s] = "done"]
    /\ \/ Held(s) = {} /\ UNCHANGED output
       \/ \E p \in Held(s) : \E l \in Remnants(p.line) : output' = Append(output, l)
    /\ UNCHANGED <<script, pc, command, expired, killed, taken, result, report>>

(* wg.Wait in captureOutput *)
captureOutput ==
    /\ pc = "capture"
    /\ \A s \in Streams : scanner[s] # "reads"
    /\ pc' = "wait"
    /\ UNCHANGED <<script, command, expired, killed, capture, result, report>>

(* cmd.Wait; a command that was killed after it had ended, but before it   *)
(* was waited for, returns an error as well. *)
waitForCompletion ==
    /\ pc = "wait" /\ exit # None
    /\ result' = IF exit = 0 /\ ~ killed THEN [code |-> 0, failed |-> FALSE]
                 ELSE [code |-> IF expired THEN 124 ELSE exit, failed |-> TRUE]
    /\ pc' = "returned"
    /\ UNCHANGED <<script, command, expired, killed, capture, report>>

(* runMainCommand and its caller: the output of a command that succeeded,  *)
(* or the error (handleErrorWithOutput); the deadline is looked at again.  *)
Report ==
    /\ pc = "returned" /\ report = None
    /\ report' = IF ~ result.failed THEN [code |-> result.code, lines |-> output]
                 ELSE [code  |-> IF expired THEN 124 ELSE result.code,
                       lines |-> extractTerraformError(output)]
    /\ UNCHANGED <<script, pc, command, expired, killed, capture, result>>

(* The deadline of the context passes... *)
Expire ==
    /\ ~ expired /\ report = None
    /\ expired' = TRUE
    /\ UNCHANGED <<script, pc, command, killed, capture, result, report>>

(* ... and the goroutine of os/exec that watches it kills the command,     *)
(* which it can do until the command is waited for. *)
Kill ==
    /\ pc \in {"capture", "wait"}
    /\ expired /\ ~ killed
    /\ killed' = TRUE
    /\ exit' = IF exit = None THEN -1 ELSE exit
    /\ UNCHANGED <<script, pc, written, expired, capture, result, report>>

Scanner(s) == Scan(s) \/ EndOfStream(s)
Executor   == Start \/ StartFails \/ captureOutput \/ waitForCompletion \/ Report
Command    == Write \/ Exit

Next == Executor \/ (\E s \in Streams : Scanner(s)) \/ Command \/ Crash \/ Expire \/ Kill

Spec == Init /\ [][Next]_vars

(* Goroutines run; the command goes on as long as it can write, and ends.  *)
(* The deadline need not pass. *)
FairSpec ==
    /\ Spec
    /\ WF_vars(Executor) /\ WF_vars(Kill) /\ WF_vars(Command)
    /\ \A s \in Streams : WF_vars(Scanner(s))

--------------------------------------------------------------------------------
(* The variables keep their types, the command writes and the scanners     *)
(* read one line after the other, a pipe holds no more than it can, and    *)
(* only the deadline kills. *)
TypeOK ==
    /\ script \in Scripts
    /\ pc \in {"start", "capture", "wait", "returned"}
    /\ written \subseteq Pieces
    /\ \A p \in written, q \in Pieces : Before(q, p) => q \in written
    /\ exit \in {None, -1, 0, 1}
    /\ expired \in BOOLEAN
    /\ killed \in BOOLEAN
    /\ taken \subseteq written
    /\ \A p \in taken, q \in written :
          Before(q, p) /\ script[q.line].stream = script[p.line].stream => q \in taken
    /\ scanner \in [Streams -> {"reads", "done", "gaveUp"}]
    /\ \A k \in DOMAIN output :
          /\ output[k].line \in DOMAIN script
          /\ output[k] \in {Line(output[k].line)} \cup Remnants(output[k].line)
    /\ result = None <=> pc # "returned"
    /\ report # None => report.code \in {-1, 0, 1, 124}
    /\ \A s \in Streams : Cardinality(Piped(s)) <= PipeSize
    /\ killed => expired /\ exit # None

HasBegun(i) == [line |-> i, part |-> 1] \in written
Complete(i) == LastPiece(i) \in written
Overlong(i) == script[i].size > TokenSize

(* The lines of a stream that captureOutput has to hand on: those that the *)
(* command has begun; if the scanner gave up, those before the overlong one. *)
ToKeep(s) ==
    {i \in DOMAIN script :
        /\ script[i].stream = s /\ HasBegun(i)
        /\ scanner[s] = "gaveUp" => \A j \in 1..i : script[j].stream = s => ~ Overlong(j)}
Places(s) == {k \in DOMAIN output : output[k].stream = s}

(* captureOutput hands on what the command wrote: the lines of a stream in *)
(* their order, none missing and none twice, cut off only where the        *)
(* command did not finish the line; of a stream whose scanner gave up, the *)
(* lines before the overlong one.  Kills and crashes make no difference.   *)
NothingLost ==
    pc \in {"wait", "returned"} =>
        \A s \in Streams :
            /\ {output[k].line : k \in Places(s)} = ToKeep(s)
            /\ \A k, m \in Places(s) : k < m => output[k].line < output[m].line
            /\ \A k \in Places(s) : output[k].cut <=> ~ Complete(output[k].line)

(* The code that is reported: 0 only for a command that ended with 0, 124  *)
(* for every command that was killed, even when it had ended before, and   *)
(* otherwise the command's own. *)
ReportedCode ==
    report # None =>
        /\ report.code = 0 => exit = 0
        /\ killed => report.code = 124
        /\ report.code \notin {0, 124} => report.code = IF exit = None THEN -1 ELSE exit
        /\ report.code = 124 => expired

Failed == report # None /\ result.failed

(* The report of a failure is what the comments of extractTerraformError   *)
(* say of the output, in whatever order the scanners have merged it, when  *)
(* no line is both a location and indented.  Such a line is appended and   *)
(* counted twice; still the report has nothing that does not belong into   *)
(* it, and misses only details after the first half of what may be kept.   *)
ReportIsReference ==
    Failed =>
        /\ (\A k \in DOMAIN output : ~ IsBoth(output[k])) \/ ~ HasError(output)
             => report.lines = ReportOf(output)
        /\ ToSet(ReportWithin(output, FewestDetails)) \subseteq ToSet(report.lines)
        /\ ToSet(report.lines) \subseteq ToSet(ReportOf(output))

(* At most MaxDetails + 1 lines follow an error in its report (6, although *)
(* the comments say 5), whatever follows it in the output.                 *)
BlocksAreShort ==
    Failed /\ HasError(output) =>
        \A i \in DOMAIN report.lines :
            \E e \in 1..i : i - e <= MaxDetails + 1 /\ IsError(report.lines[e])

(* Every error the command wrote is in the report of its failure, whatever *)
(* the stream, unless the scanner of that stream gave up. *)
ErrorsReported ==
    Failed =>
        \A i \in DOMAIN script :
            script[i].kind = "error" /\ Complete(i) /\ scanner[script[i].stream] # "gaveUp"
                => Line(i) \in ToSet(report.lines)

(* The command ends and is reported, unless a line is too long; then it    *)
(* may block for ever on a pipe nobody reads. *)
OnlyLongLinesHang == <>(report # None \/ \E s \in Streams : scanner[s] = "gaveUp")

(* Then the deadline ends it: a command past its deadline is reported.     *)
EndsAtDeadline == expired ~> report # None
================================================================================
