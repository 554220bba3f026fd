------------------------------- MODULE ErrorExtract -------------------------------
(***************************************************************************)
(* extractTerraformError and filterOutPlan (internal/terraform/            *)
(* executor.go): what a FAILED report says of the output of terraform.     *)
(*                                                                         *)
(* A line is abstracted to the kind of text terraform wrote and to its     *)
(* stream: a line of stderr starts with "[STDERR] ", so that it is neither *)
(* blank nor indented, nor does it begin with "with" or "on".              *)
(***************************************************************************)
EXTENDS Integers, SequencesExt

CONSTANT MaxDetails   \* the details of an error that are kept (5)

Streams == {"stdout", "stderr"}
Kinds   == {"error",      \* Error: ...
            "blank",
            "location",   \* indented: with ..., on ...
            "resource",   \* indented: on main.tf line 1, in resource "...":
            "detail",     \* any other indented line
            "text",
            "planStart",  \* Terraform will perform ..., Terraform used the selected ...
            "planEnd"}    \* Plan: 1 to add, ...
Blank   == [kind |-> "blank", stream |-> "stdout"]

ASSUME MaxDetailsAssumption == MaxDetails \in Nat \ {0}

Plain(l)      == l.stream = "stdout"
IsError(l)    == l.kind = "error"
IsBlank(l)    == l.kind = "blank" /\ Plain(l)
IsLocation(l) == l.kind = "resource" \/ (l.kind = "location" /\ Plain(l))
IsIndented(l) == l.kind \in {"location", "resource", "detail"} /\ Plain(l)

(* A line that is both is appended twice, and counts twice. *)
Copies(l) == (IF IsLocation(l) THEN <<l>> ELSE <<>>) \o (IF IsIndented(l) THEN <<l>> ELSE <<>>)

--------------------------------------------------------------------------------
(* Wrong variants, which nothing uses: an error within the block of another*)
(* is taken for a detail; the limit is tested before the line is counted;  *)
(* the count goes on from one error to the next.                           *)
FirstErrorOnly(s, l) ==
    LET details == s.count + Len(Copies(l))
    IN  IF IsError(l) /\ ~ s.inError THEN [inError |-> TRUE, count |-> 0, lines |-> Append(s.lines, l)]
        ELSE IF ~ s.inError THEN s
        ELSE IF IsBlank(l) THEN [s EXCEPT !.inError = FALSE, !.lines = Append(@, Blank)]
        ELSE [inError |-> details < MaxDetails, count |-> details, lines |-> s.lines \o Copies(l)]
LimitTooLate(s, l) ==
    LET details == s.count + Len(Copies(l))
    IN  IF IsError(l) THEN [inError |-> TRUE, count |-> 0, lines |-> Append(s.lines, l)]
        ELSE IF ~ s.inError THEN s
        ELSE IF IsBlank(l) THEN [s EXCEPT !.inError = FALSE, !.lines = Append(@, Blank)]
        ELSE [inError |-> s.count < MaxDetails, count |-> details, lines |-> s.lines \o Copies(l)]
CountGoesOn(s, l) ==
    LET details == s.count + Len(Copies(l))
    IN  IF IsError(l) THEN [s EXCEPT !.inError = TRUE, !.lines = Append(@, l)]
        ELSE IF ~ s.inError THEN s
        ELSE IF IsBlank(l) THEN [s EXCEPT !.inError = FALSE, !.lines = Append(@, Blank)]
        ELSE [inError |-> details < MaxDetails, count |-> details, lines |-> s.lines \o Copies(l)]

--------------------------------------------------------------------------------
(* One round of the loop of extractTerraformError. *)
ErrorStep(s, l) ==
    LET details == s.count + Len(Copies(l))
    IN  IF IsError(l) THEN [inError |-> TRUE, count |-> 0, lines |-> Append(s.lines, l)]
        ELSE IF ~ s.inError THEN s
        ELSE IF IsBlank(l) THEN [s EXCEPT !.inError = FALSE, !.lines = Append(@, Blank)]
        ELSE [inError |-> details < MaxDetails, count |-> details, lines |-> s.lines \o Copies(l)]

(* One round of the loop of filterOutPlan. *)
PlanStep(s, l) ==
    IF l.kind = "planStart" THEN [s EXCEPT !.skip = TRUE]
    ELSE IF s.skip /\ l.kind = "planEnd" THEN [s EXCEPT !.skip = FALSE]
    ELSE IF s.skip THEN s ELSE [s EXCEPT !.lines = Append(@, l)]

(* strings.Split of an output whose lines all end in a newline. *)
Split(output) == Append(output, Blank)

(* The loops: the state after n lines. *)
NoErrors == [inError |-> FALSE, count |-> 0, lines |-> <<>>]
NoPlan   == [skip |-> FALSE, lines |-> <<>>]

ErrorLoop(ls) ==
    LET state[n \in 0..Len(ls)] == IF n = 0 THEN NoErrors ELSE ErrorStep(state[n - 1], ls[n])
    IN  state

PlanLoop(ls) ==
    LET state[n \in 0..Len(ls)] == IF n = 0 THEN NoPlan ELSE PlanStep(state[n - 1], ls[n])
    IN  state

filterOutPlan(output) == PlanLoop(Split(output))[Len(output) + 1].lines

extractTerraformError(output) ==
    LET lines == ErrorLoop(Split(output))[Len(output) + 1].lines
    IN  IF lines = <<>> THEN filterOutPlan(output) ELSE lines

--------------------------------------------------------------------------------
(* What the comments say: every error with the lines of its block, which   *)
(* reaches to the next error or blank line (the blank line included), but  *)
(* with no more than n details, each of them once; and, without an error,  *)
(* everything that is not part of a plan.                                  *)
IsDetail(l) == IsLocation(l) \/ IsIndented(l)
IsBoth(l)   == IsLocation(l) /\ IsIndented(l)

InBlock(ls, i, n) ==
    \E e \in 1..(i - 1) :
        /\ IsError(ls[e])
        /\ \A k \in (e + 1)..i : ~ IsError(ls[k])
        /\ \A k \in (e + 1)..(i - 1) : ~ IsBlank(ls[k])
        /\ Cardinality({k \in (e + 1)..(i - 1) : IsDetail(ls[k])}) < n

InPlan(ls, i) ==
    \E s \in 1..(i - 1) :
        /\ ls[s].kind = "planStart"
        /\ \A k \in (s + 1)..(i - 1) : ls[k].kind # "planEnd"

(* What of line i belongs to a report of errors, and to one without. *)
Kept(ls, i, n) == IF IsError(ls[i]) THEN <<ls[i]>>
                  ELSE IF ~ InBlock(ls, i, n) THEN <<>>
                  ELSE IF IsBlank(ls[i]) THEN <<Blank>>
                  ELSE IF IsDetail(ls[i]) THEN <<ls[i]>> ELSE <<>>
Rest(ls, i)    == IF ls[i].kind = "planStart" \/ InPlan(ls, i) THEN <<>> ELSE <<ls[i]>>

HasError(ls) == \E i \in DOMAIN ls : IsError(ls[i])

ReportWithin(output, n) ==
    LET ls == Split(output)
    IN  IF HasError(ls) THEN FlattenSeq([i \in DOMAIN ls |-> Kept(ls, i, n)])
                        ELSE FlattenSeq([i \in DOMAIN ls |-> Rest(ls, i)])

ReportOf(output) == ReportWithin(output, MaxDetails)

(* The fewest details that are kept of an error which has more: half of    *)
(* them, when each line counts twice.                                      *)
FewestDetails == (MaxDetails + 1) \div 2
================================================================================
