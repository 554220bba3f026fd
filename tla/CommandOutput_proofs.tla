--------------------------- MODULE CommandOutput_proofs ---------------------------
(***************************************************************************)
(* What is reported of a terraform command, for any scripts and any sizes  *)
(* of pipes and buffers:                                                   *)
(*  - what the loops of extractTerraformError and filterOutPlan compute of *)
(*    an output of any length (ExtractionIsReference, ExtractionIsShort);  *)
(*  - the exit code (ExitCodeReported);                                    *)
(*  - the output: no line is lost on its way through the pipes and the two *)
(*    scanners (NoLineIsLost);                                             *)
(*  - all of them together: the report (ReportsAreReference,               *)
(*    ReportsAreShort, ErrorsAreReported).                                 *)
(***************************************************************************)
EXTENDS CommandOutput, ListLemmas, FiniteSetTheorems

(* What the loop of extractTerraformError appends for line i, said without *)
(* the loop: it counts the details of a line as often as it appends them.  *)
Details(l) == Len(Copies(l))

DetailsTo(ls) ==
    LET total[n \in 0..Len(ls)] == IF n = 0 THEN 0 ELSE total[n - 1] + Details(ls[n])
    IN  total

InCodeBlock(ls, i) ==
    \E e \in 1..(i - 1) :
        /\ IsError(ls[e])
        /\ \A k \in (e + 1)..i : ~ IsError(ls[k])
        /\ \A k \in (e + 1)..(i - 1) : ~ IsBlank(ls[k])
        /\ DetailsTo(ls)[i - 1] - DetailsTo(ls)[e] < MaxDetails

Appended(ls, i) == IF IsError(ls[i]) THEN <<ls[i]>>
                   ELSE IF ~ InCodeBlock(ls, i) THEN <<>>
                   ELSE IF IsBlank(ls[i]) THEN <<Blank>> ELSE Copies(ls[i])

(* The states of the loops, for lines of L. *)
ErrorStates(L) == [inError : BOOLEAN, count : Nat, lines : Seq(L)]
PlanStates(L)  == [skip : BOOLEAN, lines : Seq(L)]

LEMMA CopiesType ==
    ASSUME NEW L, NEW l \in L
    PROVE  Copies(l) \in Seq(L) /\ Details(l) \in Nat
<1> DEFINE one == <<l>>
           none == <<>>
<1>1. one \in Seq(L) /\ none \in Seq(L)
  OBVIOUS
<1>2. \A a, b \in Seq(L) : a \o b \in Seq(L) /\ Len(a \o b) \in Nat
  OBVIOUS
<1> DEFINE a == IF IsLocation(l) THEN one ELSE none
           b == IF IsIndented(l) THEN one ELSE none
<1>3. a \in Seq(L) /\ b \in Seq(L)
  BY <1>1
<1>4. Copies(l) = a \o b
  BY DEF Copies
<1> HIDE DEF a, b
<1> QED
  BY <1>2, <1>3, <1>4 DEF Details

LEMMA ErrorStepType ==
    ASSUME NEW L, Blank \in L, NEW s \in ErrorStates(L), NEW l \in L
    PROVE  ErrorStep(s, l) \in ErrorStates(L)
<1> DEFINE copies == Copies(l)
<1>1. /\ Copies(l) = copies /\ copies \in Seq(L) /\ Len(copies) \in Nat
  BY CopiesType DEF Details
<1>2. s.lines \in Seq(L) /\ s.count \in Nat /\ MaxDetails \in Nat
  BY MaxDetailsAssumption DEF ErrorStates
<1> HIDE DEF copies
<1>3. /\ Append(s.lines, l) \in Seq(L) /\ Append(s.lines, Blank) \in Seq(L)
      /\ s.lines \o copies \in Seq(L)
  BY <1>1, <1>2
<1>4. CASE IsError(l)
  BY <1>3, <1>4 DEF ErrorStep, ErrorStates
<1>5. CASE ~ IsError(l) /\ s.inError /\ IsBlank(l)
  BY <1>3, <1>5 DEF ErrorStep, ErrorStates
<1>6. CASE ~ IsError(l) /\ s.inError /\ ~ IsBlank(l)
  <2> DEFINE details == s.count + Len(copies)
  <2>1. ErrorStep(s, l) = [inError |-> details < MaxDetails, count |-> details, lines |-> s.lines \o copies]
    BY <1>1, <1>6 DEF ErrorStep
  <2>2. details \in Nat /\ (details < MaxDetails) \in BOOLEAN
    BY <1>1, <1>2
  <2> QED
    BY <1>3, <2>1, <2>2 DEF ErrorStates
<1>7. CASE ~ IsError(l) /\ ~ s.inError
  BY <1>7 DEF ErrorStep
<1> QED
  BY <1>4, <1>5, <1>6, <1>7

LEMMA ErrorLoopIs ==
    ASSUME NEW L, Blank \in L, NEW ls \in Seq(L)
    PROVE  /\ \A k \in 0..Len(ls) : ErrorLoop(ls)[k] \in ErrorStates(L)
           /\ ErrorLoop(ls)[0] = NoErrors
           /\ \A k \in 1..Len(ls) : ErrorLoop(ls)[k] = ErrorStep(ErrorLoop(ls)[k - 1], ls[k])
<1> DEFINE n == Len(ls)
           S == ErrorStates(L)
           step == [k \in 1..n |-> [s \in S |-> ErrorStep(s, ls[k])]]
           Def(f) == [k \in 0..n |-> IF k = 0 THEN NoErrors ELSE ErrorStep(f[k - 1], ls[k])]
           h == CHOOSE f : f = Def(f)
<1>1. n \in Nat /\ (\A k \in 1..n : ls[k] \in L)
  OBVIOUS
<1>2. NoErrors \in S
  BY DEF NoErrors, ErrorStates
<1>3. step \in [1..n -> [S -> S]]
  BY <1>1, ErrorStepType
<1> HIDE DEF n, S
<1>4. \A k \in 1..n : \A s \in S : step[k][s] = ErrorStep(s, ls[k])
  OBVIOUS
<1> HIDE DEF step
<1>5. PICK g \in [0..n -> S] : Recursion(g, n, NoErrors, step)
  BY <1>1, <1>2, <1>3, RecursionExists
<1>6. g = Def(g)
  <2>1. ASSUME NEW k \in 0..n, k # 0 PROVE step[k][g[k - 1]] = ErrorStep(g[k - 1], ls[k])
    <3>1. k \in 1..n /\ k - 1 \in 0..n
      BY <1>1, <2>1
    <3> QED
      BY <1>4, <3>1
  <2> QED
    BY <1>5, <2>1 DEF Recursion
<1>7. h = Def(h)
  <2> HIDE DEF Def
  <2> QED
    BY <1>6
<1>8. ErrorLoop(ls) = h
  BY DEF ErrorLoop, n
<1> HIDE DEF h
<1>9. h[0] = NoErrors /\ \A k \in 1..n : h[k] = ErrorStep(h[k - 1], ls[k])
  <2>1. \A k \in 0..n : h[k] = IF k = 0 THEN NoErrors ELSE ErrorStep(h[k - 1], ls[k])
    BY <1>7
  <2> HIDE DEF Def
  <2>2. 0 \in 0..n /\ \A k \in 1..n : k \in 0..n /\ k # 0
    BY <1>1
  <2> QED
    BY <2>1, <2>2
<1>10. \A k \in 0..n : h[k] \in S
  <2>1. \A k \in 1..n : h[k - 1] \in S => h[k] = step[k][h[k - 1]]
    BY <1>4, <1>9
  <2> HIDE DEF Def
  <2> QED
    BY <1>1, <1>2, <1>3, <1>9, <2>1, RecursionStays
<1> QED
  BY <1>8, <1>9, <1>10 DEF n, S

LEMMA PlanStepType ==
    ASSUME NEW L, NEW s \in PlanStates(L), NEW l \in L
    PROVE  PlanStep(s, l) \in PlanStates(L)
<1>1. Append(s.lines, l) \in Seq(L)
  BY DEF PlanStates
<1> QED
  BY <1>1 DEF PlanStep, PlanStates

LEMMA PlanLoopIs ==
    ASSUME NEW L, NEW ls \in Seq(L)
    PROVE  /\ \A k \in 0..Len(ls) : PlanLoop(ls)[k] \in PlanStates(L)
           /\ PlanLoop(ls)[0] = NoPlan
           /\ \A k \in 1..Len(ls) : PlanLoop(ls)[k] = PlanStep(PlanLoop(ls)[k - 1], ls[k])
<1> DEFINE n == Len(ls)
           S == PlanStates(L)
           step == [k \in 1..n |-> [s \in S |-> PlanStep(s, ls[k])]]
           Def(f) == [k \in 0..n |-> IF k = 0 THEN NoPlan ELSE PlanStep(f[k - 1], ls[k])]
           h == CHOOSE f : f = Def(f)
<1>1. n \in Nat /\ (\A k \in 1..n : ls[k] \in L)
  OBVIOUS
<1>2. NoPlan \in S
  BY DEF NoPlan, PlanStates
<1>3. step \in [1..n -> [S -> S]]
  BY <1>1, PlanStepType
<1> HIDE DEF n, S
<1>4. \A k \in 1..n : \A s \in S : step[k][s] = PlanStep(s, ls[k])
  OBVIOUS
<1> HIDE DEF step
<1>5. PICK g \in [0..n -> S] : Recursion(g, n, NoPlan, step)
  BY <1>1, <1>2, <1>3, RecursionExists
<1>6. g = Def(g)
  <2>1. ASSUME NEW k \in 0..n, k # 0 PROVE step[k][g[k - 1]] = PlanStep(g[k - 1], ls[k])
    <3>1. k \in 1..n /\ k - 1 \in 0..n
      BY <1>1, <2>1
    <3> QED
      BY <1>4, <3>1
  <2> QED
    BY <1>5, <2>1 DEF Recursion
<1>7. h = Def(h)
  <2> HIDE DEF Def
  <2> QED
    BY <1>6
<1>8. PlanLoop(ls) = h
  BY DEF PlanLoop, n
<1> HIDE DEF h
<1>9. h[0] = NoPlan /\ \A k \in 1..n : h[k] = PlanStep(h[k - 1], ls[k])
  <2>1. \A k \in 0..n : h[k] = IF k = 0 THEN NoPlan ELSE PlanStep(h[k - 1], ls[k])
    BY <1>7
  <2> HIDE DEF Def
  <2>2. 0 \in 0..n /\ \A k \in 1..n : k \in 0..n /\ k # 0
    BY <1>1
  <2> QED
    BY <2>1, <2>2
<1>10. \A k \in 0..n : h[k] \in S
  <2>1. \A k \in 1..n : h[k - 1] \in S => h[k] = step[k][h[k - 1]]
    BY <1>4, <1>9
  <2> HIDE DEF Def
  <2> QED
    BY <1>1, <1>2, <1>3, <1>9, <2>1, RecursionStays
<1> QED
  BY <1>8, <1>9, <1>10 DEF n, S

(* The details of the first lines. *)
LEMMA DetailsToIs ==
    ASSUME NEW L, NEW ls \in Seq(L)
    PROVE  /\ \A k \in 0..Len(ls) : DetailsTo(ls)[k] \in Nat
           /\ DetailsTo(ls)[0] = 0
           /\ \A k \in 1..Len(ls) : DetailsTo(ls)[k] = DetailsTo(ls)[k - 1] + Details(ls[k])
<1> DEFINE n == Len(ls)
           S == Nat
           step == [k \in 1..n |-> [s \in S |-> s + Details(ls[k])]]
           Def(f) == [k \in 0..n |-> IF k = 0 THEN 0 ELSE f[k - 1] + Details(ls[k])]
           h == CHOOSE f : f = Def(f)
<1>1. n \in Nat /\ (\A k \in 1..n : ls[k] \in L)
  OBVIOUS
<1>2. 0 \in S
  OBVIOUS
<1>3. step \in [1..n -> [S -> S]]
  <2>1. \A k \in 1..n : Details(ls[k]) \in Nat
    BY <1>1, CopiesType
  <2> QED
    BY <2>1
<1> HIDE DEF n, S
<1>4. \A k \in 1..n : \A s \in S : step[k][s] = s + Details(ls[k])
  OBVIOUS
<1> HIDE DEF step
<1>5. PICK g \in [0..n -> S] : Recursion(g, n, 0, step)
  BY <1>1, <1>2, <1>3, RecursionExists
<1>6. g = Def(g)
  <2>1. ASSUME NEW k \in 0..n, k # 0 PROVE step[k][g[k - 1]] = g[k - 1] + Details(ls[k])
    <3>1. k \in 1..n /\ k - 1 \in 0..n
      BY <1>1, <2>1
    <3> QED
      BY <1>4, <3>1
  <2> QED
    BY <1>5, <2>1 DEF Recursion
<1>7. h = Def(h)
  <2> HIDE DEF Def
  <2> QED
    BY <1>6
<1>8. DetailsTo(ls) = h
  BY DEF DetailsTo, n
<1> HIDE DEF h
<1>9. h[0] = 0 /\ \A k \in 1..n : h[k] = h[k - 1] + Details(ls[k])
  <2>1. \A k \in 0..n : h[k] = IF k = 0 THEN 0 ELSE h[k - 1] + Details(ls[k])
    BY <1>7
  <2> HIDE DEF Def
  <2>2. 0 \in 0..n /\ \A k \in 1..n : k \in 0..n /\ k # 0
    BY <1>1
  <2> QED
    BY <2>1, <2>2
<1>10. \A k \in 0..n : h[k] \in S
  <2>1. \A k \in 1..n : h[k - 1] \in S => h[k] = step[k][h[k - 1]]
    BY <1>4, <1>9
  <2> HIDE DEF Def
  <2> QED
    BY <1>1, <1>2, <1>3, <1>9, <2>1, RecursionStays
<1> QED
  BY <1>8, <1>9, <1>10 DEF n, S

(* After n lines there is an error whose block is still open. *)
OpenAt(ls, n) ==
    \E e \in 1..n :
        /\ IsError(ls[e])
        /\ \A k \in (e + 1)..n : ~ IsError(ls[k]) /\ ~ IsBlank(ls[k])
        /\ DetailsTo(ls)[n] - DetailsTo(ls)[e] < MaxDetails

(* e is the last error of the first n lines. *)
LastError(ls, e, n) == IsError(ls[e]) /\ \A k \in (e + 1)..n : ~ IsError(ls[k])

(* What the loop of extractTerraformError knows after n lines. *)
LoopAgrees(ls, G, n) ==
    LET s == ErrorLoop(ls)[n]
    IN  /\ s.lines = G[n]
        /\ s.inError <=> OpenAt(ls, n)
        /\ s.inError => \A e \in 1..n : LastError(ls, e, n) =>
                                          s.count = DetailsTo(ls)[n] - DetailsTo(ls)[e]
        /\ (\A j \in 1..n : ~ IsError(ls[j])) => s.lines = <<>>
        /\ \A j \in 1..n : IsError(ls[j]) => ls[j] \in ToSet(s.lines)

LEMMA AppendedType ==
    ASSUME NEW L, Blank \in L, NEW ls \in Seq(L), NEW i \in 1..Len(ls)
    PROVE  Appended(ls, i) \in Seq(L) /\ Rest(ls, i) \in Seq(L)
<1>1. ls[i] \in L
  OBVIOUS
<1>2. Copies(ls[i]) \in Seq(L)
  BY <1>1, CopiesType
<1>3. <<ls[i]>> \in Seq(L) /\ <<Blank>> \in Seq(L) /\ <<>> \in Seq(L)
  BY <1>1
<1> QED
  BY <1>2, <1>3 DEF Appended, Rest

LEMMA AppendAdds ==
    ASSUME NEW L, NEW l \in L, NEW s \in Seq(L)
    PROVE  /\ Append(s, l) = s \o <<l>>
           /\ ToSet(Append(s, l)) = ToSet(s) \cup {l}
<1>1. Append(s, l) = s \o <<l>>
  BY AppendIsConcat
<1>2. /\ Len(Append(s, l)) = Len(s) + 1 /\ Append(s, l) \in Seq(L)
      /\ \A i \in 1..(Len(s) + 1) : Append(s, l)[i] = IF i <= Len(s) THEN s[i] ELSE l
  OBVIOUS
<1>3. DOMAIN s = 1..Len(s) /\ DOMAIN Append(s, l) = 1..(Len(s) + 1) /\ Len(s) \in Nat
  BY <1>2
<1> DEFINE t == Append(s, l)
<1>4. /\ \A i \in 1..(Len(s) + 1) : t[i] = IF i <= Len(s) THEN s[i] ELSE l
      /\ DOMAIN t = 1..(Len(s) + 1)
  BY <1>2, <1>3
<1> HIDE DEF t
<1>5. ASSUME NEW x PROVE x \in ToSet(t) <=> x \in ToSet(s) \cup {l}
  BY <1>3, <1>4 DEF ToSet
<1>6. ToSet(t) = ToSet(s) \cup {l}
  BY <1>5
<1> QED
  BY <1>1, <1>6 DEF t

LEMMA ConcatKeeps ==
    ASSUME NEW L, NEW s \in Seq(L), NEW t \in Seq(L)
    PROVE  ToSet(s) \subseteq ToSet(s \o t)
<1>1. /\ Len(s \o t) = Len(s) + Len(t) /\ s \o t \in Seq(L)
      /\ \A i \in 1..Len(s) : (s \o t)[i] = s[i]
  OBVIOUS
<1> DEFINE u == s \o t
<1>2. Len(u) = Len(s) + Len(t) /\ u \in Seq(L) /\ \A i \in 1..Len(s) : u[i] = s[i]
  BY <1>1
<1> HIDE DEF u
<1>3. \A i \in 1..Len(s) : i \in DOMAIN u
  BY <1>2
<1>4. ToSet(s) \subseteq ToSet(u)
  BY <1>2, <1>3 DEF ToSet
<1> QED
  BY <1>4 DEF u

LEMMA LoopAgreesFirst ==
    ASSUME NEW L, Blank \in L, NEW ls \in Seq(L), NEW G, G[0] = <<>>
    PROVE  LoopAgrees(ls, G, 0)
<1>1. ErrorLoop(ls)[0] = NoErrors
  BY ErrorLoopIs
<1> QED
  BY <1>1 DEF NoErrors, LoopAgrees, OpenAt

(* A line that is no error is in a block that was open before it; it       *)
(* closes the block when it is blank or its details are too many.          *)
LEMMA OpenNext ==
    ASSUME NEW L, NEW ls \in Seq(L), NEW n \in 1..Len(ls)
    PROVE  /\ IsError(ls[n]) => OpenAt(ls, n)
           /\ ~ IsError(ls[n]) => (InCodeBlock(ls, n) <=> OpenAt(ls, n - 1))
           /\ ~ IsError(ls[n]) /\ IsBlank(ls[n]) => ~ OpenAt(ls, n)
           /\ ~ IsError(ls[n]) /\ OpenAt(ls, n) => OpenAt(ls, n - 1)
           /\ ~ IsError(ls[n]) /\ ~ IsBlank(ls[n]) =>
                 \A e \in 1..(n - 1) :
                    /\ LastError(ls, e, n - 1)
                    /\ \A k \in (e + 1)..(n - 1) : ~ IsBlank(ls[k])
                    /\ DetailsTo(ls)[n] - DetailsTo(ls)[e] < MaxDetails
                    => OpenAt(ls, n)
<1> DEFINE tot == DetailsTo(ls)
<1>1. /\ \A k \in 0..Len(ls) : tot[k] \in Nat
      /\ tot[n] = tot[n - 1] + Details(ls[n])
  BY DetailsToIs
<1>2. Details(ls[n]) \in Nat /\ Len(ls) \in Nat
  <2>1. ls[n] \in L
    OBVIOUS
  <2>2. Details(ls[n]) \in Nat
    BY <2>1, CopiesType
  <2> QED
    BY <2>2
<1>3. tot[n] \in Nat /\ tot[n - 1] \in Nat /\ tot[n - 1] <= tot[n]
  BY <1>1, <1>2
<1>4. DetailsTo(ls) = tot
  OBVIOUS
<1> HIDE DEF tot
<1>5. IsError(ls[n]) => OpenAt(ls, n)
  <2>1. n \in 1..n /\ (n + 1)..n = {} /\ tot[n] - tot[n] < MaxDetails
    BY <1>2, <1>3, MaxDetailsAssumption
  <2> QED
    BY <1>4, <2>1 DEF OpenAt
<1>6. ASSUME ~ IsError(ls[n]) PROVE InCodeBlock(ls, n) <=> OpenAt(ls, n - 1)
  <2>1. ASSUME NEW e \in 1..(n - 1)
        PROVE  (\A k \in (e + 1)..n : ~ IsError(ls[k])) <=> (\A k \in (e + 1)..(n - 1) : ~ IsError(ls[k]))
    <3>1. \A k \in (e + 1)..n : k = n \/ k \in (e + 1)..(n - 1)
      OBVIOUS
    <3>2. \A k \in (e + 1)..(n - 1) : k \in (e + 1)..n
      OBVIOUS
    <3> QED
      BY <1>6, <3>1, <3>2
  <2> QED
    BY <2>1 DEF InCodeBlock, OpenAt
<1>7. ASSUME ~ IsError(ls[n]), OpenAt(ls, n) PROVE OpenAt(ls, n - 1) /\ ~ IsBlank(ls[n])
  <2>1. PICK e \in 1..n : /\ IsError(ls[e])
                          /\ \A k \in (e + 1)..n : ~ IsError(ls[k]) /\ ~ IsBlank(ls[k])
                          /\ tot[n] - tot[e] < MaxDetails
    BY <1>4, <1>7 DEF OpenAt
  <2>2. e # n /\ e \in 1..(n - 1) /\ n \in (e + 1)..n /\ e \in 0..Len(ls)
    BY <1>7, <2>1
  <2>3. tot[n - 1] - tot[e] < MaxDetails
    BY <1>1, <1>3, <2>1, <2>2, MaxDetailsAssumption
  <2>4. \A k \in (e + 1)..(n - 1) : k \in (e + 1)..n
    OBVIOUS
  <2> QED
    BY <1>4, <2>1, <2>2, <2>3, <2>4 DEF OpenAt
<1>8. ASSUME ~ IsError(ls[n]), ~ IsBlank(ls[n]), NEW e \in 1..(n - 1), LastError(ls, e, n - 1),
             \A k \in (e + 1)..(n - 1) : ~ IsBlank(ls[k]),
             tot[n] - tot[e] < MaxDetails
      PROVE  OpenAt(ls, n)
  <2>1. \A k \in (e + 1)..n : k = n \/ k \in (e + 1)..(n - 1)
    OBVIOUS
  <2>2. e \in 1..n
    OBVIOUS
  <2> QED
    BY <1>4, <1>8, <2>1, <2>2 DEF OpenAt, LastError
<1> QED
  BY <1>4, <1>5, <1>6, <1>7, <1>8

LEMMA LoopAgreesNext ==
    ASSUME NEW L, Blank \in L, NEW ls \in Seq(L), NEW n \in 1..Len(ls), NEW G,
           G[n] = G[n - 1] \o Appended(ls, n), LoopAgrees(ls, G, n - 1)
    PROVE  LoopAgrees(ls, G, n)
<1> DEFINE s == ErrorLoop(ls)[n - 1]
           t == ErrorLoop(ls)[n]
           l == ls[n]
           tot == DetailsTo(ls)
<1>1. s \in ErrorStates(L) /\ t \in ErrorStates(L) /\ t = ErrorStep(s, l)
  BY ErrorLoopIs
<1>2. /\ s.lines = G[n - 1]
      /\ s.inError <=> OpenAt(ls, n - 1)
      /\ s.inError => \A e \in 1..(n - 1) : LastError(ls, e, n - 1) => s.count = tot[n - 1] - tot[e]
      /\ (\A j \in 1..(n - 1) : ~ IsError(ls[j])) => s.lines = <<>>
      /\ \A j \in 1..(n - 1) : IsError(ls[j]) => ls[j] \in ToSet(s.lines)
  BY DEF LoopAgrees
<1>3. SUFFICES /\ t.lines = G[n]
               /\ t.inError <=> OpenAt(ls, n)
               /\ t.inError => \A e \in 1..n : LastError(ls, e, n) => t.count = tot[n] - tot[e]
               /\ (\A j \in 1..n : ~ IsError(ls[j])) => t.lines = <<>>
               /\ \A j \in 1..n : IsError(ls[j]) => ls[j] \in ToSet(t.lines)
  BY DEF LoopAgrees
<1>4. l \in L /\ s.lines \in Seq(L) /\ s.count \in Nat /\ s.inError \in BOOLEAN
  BY <1>1 DEF ErrorStates
<1>5. Copies(l) \in Seq(L) /\ Details(l) \in Nat /\ Details(l) = Len(Copies(l))
  BY <1>4, CopiesType DEF Details
<1>6. /\ IsError(l) => OpenAt(ls, n)
      /\ ~ IsError(l) => (InCodeBlock(ls, n) <=> OpenAt(ls, n - 1))
      /\ ~ IsError(l) /\ IsBlank(l) => ~ OpenAt(ls, n)
      /\ ~ IsError(l) /\ OpenAt(ls, n) => OpenAt(ls, n - 1)
      /\ ~ IsError(l) /\ ~ IsBlank(l) =>
            \A e \in 1..(n - 1) :
               /\ LastError(ls, e, n - 1)
               /\ \A k \in (e + 1)..(n - 1) : ~ IsBlank(ls[k])
               /\ tot[n] - tot[e] < MaxDetails
               => OpenAt(ls, n)
  BY OpenNext
<1>7. /\ \A k \in 0..Len(ls) : tot[k] \in Nat
      /\ tot[n] = tot[n - 1] + Details(l)
  BY DetailsToIs
<1>8. G[n] = s.lines \o Appended(ls, n)
  BY <1>2
<1>9. n \in Nat /\ n # 0 /\ Len(ls) \in Nat
  OBVIOUS
<1> DEFINE kept == Appended(ls, n)
<1>10. kept = IF IsError(l) THEN <<l>>
              ELSE IF ~ InCodeBlock(ls, n) THEN <<>>
              ELSE IF IsBlank(l) THEN <<Blank>> ELSE Copies(l)
  BY DEF Appended
<1>11. kept \in Seq(L)
  BY AppendedType
<1>12. \A j \in 1..n : j = n \/ j \in 1..(n - 1)
  BY <1>9
<1>13. n \in 1..n /\ \A j \in 1..(n - 1) : j \in 1..n
  BY <1>9
<1>14. ls[n] = l
  OBVIOUS
<1>15. (\A e \in 1..n : LastError(ls, e, n) /\ ~ IsError(l) => e \in 1..(n - 1) /\ LastError(ls, e, n - 1))
  <2> SUFFICES ASSUME NEW e \in 1..n, LastError(ls, e, n), ~ IsError(l)
               PROVE  e \in 1..(n - 1) /\ LastError(ls, e, n - 1)
    OBVIOUS
  <2>1. e # n
    BY DEF LastError
  <2>2. \A k \in (e + 1)..(n - 1) : k \in (e + 1)..n
    BY <1>9
  <2> QED
    BY <1>12, <2>1, <2>2 DEF LastError
<1> HIDE DEF s, t, l, tot, kept
<1>16. CASE IsError(l)
  <2>1. t = [inError |-> TRUE, count |-> 0, lines |-> Append(s.lines, l)]
    BY <1>1, <1>16 DEF ErrorStep
  <2>2. t.lines = s.lines \o <<l>> /\ ToSet(t.lines) = ToSet(s.lines) \cup {l}
    BY <1>4, <2>1, AppendAdds, Zenon
  <2>3. t.lines = G[n]
    BY <1>8, <1>10, <1>16, <2>2 DEF kept
  <2>4. ASSUME NEW e \in 1..n, LastError(ls, e, n) PROVE e = n
    <3>1. e # n => n \in (e + 1)..n
      BY <1>9
    <3> QED
      BY <1>14, <1>16, <2>4, <3>1 DEF LastError
  <2>5. tot[n] - tot[n] = 0
    BY <1>7, <1>9
  <2>6. \A e \in 1..n : LastError(ls, e, n) => t.count = tot[n] - tot[e]
    BY <2>1, <2>4, <2>5
  <2> QED
    BY <1>2, <1>6, <1>12, <1>13, <1>14, <1>16, <2>1, <2>2, <2>3, <2>6
<1>17. CASE ~ IsError(l) /\ ~ s.inError
  <2>1. t = s
    BY <1>1, <1>17 DEF ErrorStep
  <2>2. G[n] = s.lines \o <<>>
    BY <1>2, <1>6, <1>8, <1>10, <1>17 DEF kept
  <2>3. t.lines = G[n]
    BY <1>4, <2>1, <2>2, ConcatEmptySeq
  <2> QED
    BY <1>2, <1>6, <1>12, <1>13, <1>14, <1>17, <2>1, <2>3
<1>18. CASE ~ IsError(l) /\ s.inError /\ IsBlank(l)
  <2>1. t = [s EXCEPT !.inError = FALSE, !.lines = Append(s.lines, Blank)]
    BY <1>1, <1>18 DEF ErrorStep
  <2>2. t.lines = Append(s.lines, Blank) /\ ~ t.inError
    BY <1>1, <2>1 DEF ErrorStates
  <2>3. t.lines = s.lines \o <<Blank>> /\ ToSet(t.lines) = ToSet(s.lines) \cup {Blank}
    BY <1>4, <2>2, AppendAdds, Zenon
  <2>4. t.lines = G[n]
    BY <1>2, <1>6, <1>8, <1>10, <1>18, <2>3 DEF kept
  <2>5. \E j \in 1..(n - 1) : IsError(ls[j])
    BY <1>2, <1>18 DEF OpenAt
  <2> QED
    BY <1>2, <1>6, <1>12, <1>13, <1>14, <1>18, <2>2, <2>3, <2>4, <2>5
<1>19. CASE ~ IsError(l) /\ s.inError /\ ~ IsBlank(l)
  <2> DEFINE d == s.count + Details(l)
  <2>1. t = [inError |-> d < MaxDetails, count |-> d, lines |-> s.lines \o Copies(l)]
    BY <1>1, <1>5, <1>19 DEF ErrorStep
  <2>2. t.lines = s.lines \o Copies(l) /\ t.count = d /\ (t.inError <=> d < MaxDetails)
    BY <2>1
  <2>3. t.lines = G[n]
    BY <1>2, <1>6, <1>8, <1>10, <1>19, <2>2 DEF kept
  <2>4. ToSet(s.lines) \subseteq ToSet(t.lines)
    BY <1>4, <1>5, <2>2, ConcatKeeps
  <2>5. PICK e \in 1..(n - 1) :
            /\ IsError(ls[e])
            /\ \A k \in (e + 1)..(n - 1) : ~ IsError(ls[k]) /\ ~ IsBlank(ls[k])
    BY <1>2, <1>19 DEF OpenAt
  <2>6. ASSUME NEW f \in 1..(n - 1), LastError(ls, f, n - 1) PROVE d = tot[n] - tot[f]
    <3>1. s.count = tot[n - 1] - tot[f]
      BY <1>2, <1>19, <2>6
    <3>2. tot[n - 1] \in Nat /\ tot[f] \in Nat
      BY <1>7, <1>9
    <3> QED
      BY <1>5, <1>7, <3>1, <3>2
  <2>7. \A f \in 1..n : LastError(ls, f, n) => t.count = tot[n] - tot[f]
    BY <1>15, <1>19, <2>2, <2>6
  <2>8. t.inError => OpenAt(ls, n)
    BY <1>6, <1>19, <2>2, <2>5, <2>6 DEF LastError
  <2>9. ASSUME OpenAt(ls, n) PROVE t.inError
    <3>1. PICK f \in 1..n : /\ LastError(ls, f, n) /\ tot[n] - tot[f] < MaxDetails
      BY <2>9 DEF OpenAt, LastError, tot
    <3> QED
      BY <1>15, <1>19, <2>2, <2>6, <3>1
  <2> QED
    BY <1>2, <1>12, <1>13, <1>14, <1>19, <2>3, <2>4, <2>5, <2>7, <2>8, <2>9
<1> QED
  BY <1>4, <1>16, <1>17, <1>18, <1>19

(* After n lines a plan has begun and not ended. *)
PlanAt(ls, n) ==
    \E s \in 1..n : ls[s].kind = "planStart" /\ \A k \in (s + 1)..n : ls[k].kind # "planEnd"

(* What the loop of filterOutPlan knows after n lines. *)
PlanAgrees(ls, G, n) ==
    PlanLoop(ls)[n].lines = G[n] /\ (PlanLoop(ls)[n].skip <=> PlanAt(ls, n))

LEMMA PlanAgreesNext ==
    ASSUME NEW L, NEW ls \in Seq(L), NEW n \in 1..Len(ls), NEW G,
           G[n] = G[n - 1] \o Rest(ls, n), PlanAgrees(ls, G, n - 1)
    PROVE  PlanAgrees(ls, G, n)
<1> DEFINE s == PlanLoop(ls)[n - 1]
           t == PlanLoop(ls)[n]
           l == ls[n]
<1>1. s \in PlanStates(L) /\ t \in PlanStates(L) /\ t = PlanStep(s, l)
  BY PlanLoopIs
<1>2. s.lines = G[n - 1] /\ (s.skip <=> PlanAt(ls, n - 1))
  BY DEF PlanAgrees
<1>3. SUFFICES t.lines = G[n] /\ (t.skip <=> PlanAt(ls, n))
  BY DEF PlanAgrees
<1>4. l \in L /\ s.lines \in Seq(L) /\ s.skip \in BOOLEAN
  BY <1>1 DEF PlanStates
<1>5. PlanAt(ls, n - 1) <=> InPlan(ls, n)
  BY DEF PlanAt, InPlan
<1>6. /\ l.kind = "planStart" => PlanAt(ls, n)
      /\ l.kind # "planStart" => (PlanAt(ls, n) <=> PlanAt(ls, n - 1) /\ l.kind # "planEnd")
  <2>1. n \in 1..n /\ (n + 1)..n = {}
    OBVIOUS
  <2>2. ASSUME l.kind # "planStart", PlanAt(ls, n) PROVE PlanAt(ls, n - 1) /\ l.kind # "planEnd"
    <3>1. PICK e \in 1..n : ls[e].kind = "planStart" /\ \A k \in (e + 1)..n : ls[k].kind # "planEnd"
      BY <2>2 DEF PlanAt
    <3>2. e \in 1..(n - 1) /\ n \in (e + 1)..n /\ \A k \in (e + 1)..(n - 1) : k \in (e + 1)..n
      BY <2>2, <3>1
    <3> QED
      BY <3>1, <3>2 DEF PlanAt
  <2>3. ASSUME PlanAt(ls, n - 1), l.kind # "planEnd" PROVE PlanAt(ls, n)
    <3>1. PICK e \in 1..(n - 1) : ls[e].kind = "planStart" /\ \A k \in (e + 1)..(n - 1) : ls[k].kind # "planEnd"
      BY <2>3 DEF PlanAt
    <3>2. e \in 1..n /\ \A k \in (e + 1)..n : k = n \/ k \in (e + 1)..(n - 1)
      OBVIOUS
    <3> QED
      BY <2>3, <3>1, <3>2 DEF PlanAt
  <2> QED
    BY <2>1, <2>2, <2>3 DEF PlanAt
<1>7. G[n] = s.lines \o (IF l.kind = "planStart" \/ s.skip THEN <<>> ELSE <<l>>)
  BY <1>2, <1>5 DEF Rest
<1>8. s.lines \o <<>> = s.lines /\ Append(s.lines, l) = s.lines \o <<l>>
  BY <1>4, ConcatEmptySeq, AppendIsConcat
<1>9. t = IF l.kind = "planStart" THEN [s EXCEPT !.skip = TRUE]
          ELSE IF s.skip /\ l.kind = "planEnd" THEN [s EXCEPT !.skip = FALSE]
          ELSE IF s.skip THEN s ELSE [s EXCEPT !.lines = Append(s.lines, l)]
  BY <1>1 DEF PlanStep
<1> HIDE DEF s, t, l
<1>10. CASE l.kind = "planStart"
  <2>1. t.lines = s.lines /\ t.skip
    BY <1>1, <1>9, <1>10 DEF PlanStates
  <2> QED
    BY <1>6, <1>7, <1>8, <1>10, <2>1
<1>11. CASE l.kind # "planStart" /\ s.skip
  <2>1. t.lines = s.lines /\ (t.skip <=> l.kind # "planEnd")
    BY <1>1, <1>9, <1>11 DEF PlanStates
  <2> QED
    BY <1>2, <1>6, <1>7, <1>8, <1>11, <2>1
<1>12. CASE l.kind # "planStart" /\ ~ s.skip
  <2>1. t.lines = Append(s.lines, l) /\ ~ t.skip
    BY <1>1, <1>9, <1>12 DEF PlanStates
  <2> QED
    BY <1>2, <1>6, <1>7, <1>8, <1>12, <2>1
<1> QED
  BY <1>10, <1>11, <1>12

(* Split: the lines of the output, and a last one that is blank. *)
LEMMA SplitProperties ==
    ASSUME NEW L, Blank \in L, NEW text \in Seq(L)
    PROVE  /\ Split(text) \in Seq(L)
           /\ Len(Split(text)) = Len(text) + 1 /\ Len(text) \in Nat
           /\ \A i \in 1..Len(text) : Split(text)[i] = text[i]
           /\ Split(text)[Len(text) + 1] = Blank
BY AppendProperties DEF Split

(* An error is found, and the lines that follow it belong to its report    *)
(* as long as its block is open. *)
LEMMA ErrorLoopReports ==
    ASSUME NEW L, Blank \in L, NEW ls \in Seq(L), Len(ls) > 0
    PROVE  LET lines == ErrorLoop(ls)[Len(ls)].lines
           IN  /\ lines = FlattenSeq([i \in DOMAIN ls |-> Appended(ls, i)])
               /\ lines = <<>> <=> ~ \E i \in DOMAIN ls : IsError(ls[i])
               /\ \A i \in DOMAIN ls : IsError(ls[i]) => ls[i] \in ToSet(lines)
<1> DEFINE q == [i \in DOMAIN ls |-> Appended(ls, i)]
           n == Len(ls)
<1>1. n \in Nat /\ n > 0 /\ DOMAIN ls = 1..n
  OBVIOUS
<1>2. q \in Seq(Seq(L)) /\ Len(q) = n /\ \A i \in 1..n : q[i] = Appended(ls, i)
  <2>1. \A i \in 1..n : Appended(ls, i) \in Seq(L)
    BY AppendedType
  <2> HIDE DEF n
  <2> QED
    BY <1>1, <2>1
<1> HIDE DEF q
<1>3. PICK G \in [0..n -> Seq(L)] :
        /\ G[0] = <<>>
        /\ \A i \in 1..n : G[i] = G[i - 1] \o q[i]
        /\ FlattenSeq(q) = G[n]
  <2> HIDE DEF n
  <2>1. \E g \in [0..Len(q) -> Seq(L)] :
            /\ g[0] = <<>>
            /\ \A i \in 1..Len(q) : g[i] = g[i - 1] \o q[i]
            /\ FlattenSeq(q) = g[Len(q)]
    BY <1>1, <1>2, FlattenProperties
  <2> QED
    BY <1>2, <2>1
<1> DEFINE T == {k \in Nat : k <= n => LoopAgrees(ls, G, k)}
<1>4. 0 \in T
  BY <1>3, LoopAgreesFirst
<1>5. ASSUME NEW k \in T PROVE k + 1 \in T
  <2> SUFFICES ASSUME k + 1 <= n PROVE LoopAgrees(ls, G, k + 1)
    OBVIOUS
  <2>1. k \in Nat /\ k + 1 \in 1..n /\ (k + 1) - 1 = k /\ LoopAgrees(ls, G, k)
    BY <1>1
  <2>2. G[k + 1] = G[(k + 1) - 1] \o Appended(ls, k + 1)
    BY <1>2, <1>3, <2>1
  <2> QED
    BY <2>1, <2>2, LoopAgreesNext
<1>6. T \in SUBSET Nat
  OBVIOUS
<1> HIDE DEF T
<1>7. T = Nat
  BY <1>4, <1>5, <1>6, InductionOnSet
<1>8. LoopAgrees(ls, G, n)
  BY <1>1, <1>7 DEF T
<1> DEFINE lines == ErrorLoop(ls)[Len(ls)].lines
<1>9. /\ lines = G[n]
      /\ (\A j \in 1..n : ~ IsError(ls[j])) => lines = <<>>
      /\ \A j \in 1..n : IsError(ls[j]) => ls[j] \in ToSet(lines)
  BY <1>8 DEF LoopAgrees
<1>10. ASSUME NEW x, x \in ToSet(lines) PROVE lines # <<>>
  BY <1>10 DEF ToSet
<1> HIDE DEF lines, n
<1>11. lines = FlattenSeq(q)
  BY <1>3, <1>9
<1> QED
  BY <1>1, <1>9, <1>10, <1>11 DEF q, lines

LEMMA PlanLoopReports ==
    ASSUME NEW L, Blank \in L, NEW ls \in Seq(L), Len(ls) > 0
    PROVE  PlanLoop(ls)[Len(ls)].lines = FlattenSeq([i \in DOMAIN ls |-> Rest(ls, i)])
<1> DEFINE q == [i \in DOMAIN ls |-> Rest(ls, i)]
           n == Len(ls)
<1>1. n \in Nat /\ n > 0 /\ DOMAIN ls = 1..n
  OBVIOUS
<1>2. q \in Seq(Seq(L)) /\ Len(q) = n /\ \A i \in 1..n : q[i] = Rest(ls, i)
  <2>1. \A i \in 1..n : Rest(ls, i) \in Seq(L)
    BY AppendedType
  <2> HIDE DEF n
  <2> QED
    BY <1>1, <2>1
<1> HIDE DEF q
<1>3. PICK G \in [0..n -> Seq(L)] :
        /\ G[0] = <<>>
        /\ \A i \in 1..n : G[i] = G[i - 1] \o q[i]
        /\ FlattenSeq(q) = G[n]
  <2> HIDE DEF n
  <2>1. \E g \in [0..Len(q) -> Seq(L)] :
            /\ g[0] = <<>>
            /\ \A i \in 1..Len(q) : g[i] = g[i - 1] \o q[i]
            /\ FlattenSeq(q) = g[Len(q)]
    BY <1>1, <1>2, FlattenProperties
  <2> QED
    BY <1>2, <2>1
<1> DEFINE T == {k \in Nat : k <= n => PlanAgrees(ls, G, k)}
<1>4. 0 \in T
  <2>1. PlanLoop(ls)[0] = NoPlan
    BY PlanLoopIs
  <2>2. PlanAgrees(ls, G, 0)
    BY <1>3, <2>1 DEF PlanAgrees, NoPlan, PlanAt
  <2> QED
    BY <2>2
<1>5. ASSUME NEW k \in T PROVE k + 1 \in T
  <2> SUFFICES ASSUME k + 1 <= n PROVE PlanAgrees(ls, G, k + 1)
    OBVIOUS
  <2>1. k \in Nat /\ k + 1 \in 1..Len(ls) /\ (k + 1) - 1 = k /\ PlanAgrees(ls, G, (k + 1) - 1)
    BY <1>1
  <2>2. G[k + 1] = G[(k + 1) - 1] \o Rest(ls, k + 1)
    BY <1>2, <1>3, <2>1
  <2> QED
    BY <2>1, <2>2, PlanAgreesNext
<1>6. T \in SUBSET Nat
  OBVIOUS
<1> HIDE DEF T
<1>7. T = Nat
  BY <1>4, <1>5, <1>6, InductionOnSet
<1>8. PlanAgrees(ls, G, n)
  BY <1>1, <1>7 DEF T
<1> QED
  BY <1>3, <1>8 DEF q, PlanAgrees

(* For an output of any length, the loops of extractTerraformError and     *)
(* filterOutPlan append what was said above, line by line. *)
LEMMA ExtractionIsFlat ==
    ASSUME NEW L, Blank \in L, NEW text \in Seq(L)
    PROVE  LET ls == Split(text)
           IN  /\ extractTerraformError(text) =
                     IF HasError(ls) THEN FlattenSeq([i \in DOMAIN ls |-> Appended(ls, i)])
                                     ELSE FlattenSeq([i \in DOMAIN ls |-> Rest(ls, i)])
               /\ HasError(ls) => extractTerraformError(text) = ErrorLoop(ls)[Len(ls)].lines
               /\ \A i \in DOMAIN text :
                     IsError(text[i]) => text[i] \in ToSet(extractTerraformError(text))
<1> DEFINE ls == Split(text)
           lines == ErrorLoop(ls)[Len(text) + 1].lines
<1>1. /\ ls \in Seq(L) /\ Len(ls) = Len(text) + 1 /\ Len(text) \in Nat
      /\ \A i \in 1..Len(text) : ls[i] = text[i]
  BY SplitProperties
<1>2. ls \in Seq(L) /\ Len(ls) > 0
  BY <1>1
<1>3. extractTerraformError(text) = IF lines = <<>> THEN PlanLoop(ls)[Len(text) + 1].lines ELSE lines
  BY DEF extractTerraformError, filterOutPlan
<1>4. lines = ErrorLoop(ls)[Len(ls)].lines
  BY <1>1
<1> HIDE DEF ls, lines
<1>5. /\ lines = FlattenSeq([i \in DOMAIN ls |-> Appended(ls, i)])
      /\ lines = <<>> <=> ~ HasError(ls)
      /\ \A i \in DOMAIN ls : IsError(ls[i]) => ls[i] \in ToSet(lines)
  BY <1>2, <1>4, ErrorLoopReports, Zenon DEF HasError
<1>6. PlanLoop(ls)[Len(text) + 1].lines = FlattenSeq([i \in DOMAIN ls |-> Rest(ls, i)])
  <2>1. PlanLoop(ls)[Len(ls)].lines = FlattenSeq([i \in DOMAIN ls |-> Rest(ls, i)])
    BY <1>2, PlanLoopReports
  <2> QED
    BY <1>1, <2>1
<1>7. \A i \in DOMAIN text : i \in DOMAIN ls /\ ls[i] = text[i]
  BY <1>1
<1>8. extractTerraformError(text) =
         IF HasError(ls) THEN FlattenSeq([i \in DOMAIN ls |-> Appended(ls, i)])
                         ELSE FlattenSeq([i \in DOMAIN ls |-> Rest(ls, i)])
  BY <1>3, <1>5, <1>6, Zenon
<1>9. ASSUME NEW i \in DOMAIN text, IsError(text[i]) PROVE text[i] \in ToSet(extractTerraformError(text))
  <2>1. i \in DOMAIN ls /\ ls[i] = text[i]
    BY <1>7
  <2>2. lines # <<>> /\ text[i] \in ToSet(lines)
    BY <1>5, <1>9, <2>1 DEF HasError
  <2> QED
    BY <1>3, <2>2
<1>10. HasError(ls) => extractTerraformError(text) = lines
  BY <1>3, <1>5
<1> QED
  BY <1>4, <1>8, <1>9, <1>10 DEF ls

(* The elements of a sequence that is put together of others. *)
LEMMA ConcatAdds ==
    ASSUME NEW L, NEW s \in Seq(L), NEW t \in Seq(L)
    PROVE  ToSet(s \o t) = ToSet(s) \cup ToSet(t)
<1>1. /\ Len(s \o t) = Len(s) + Len(t) /\ s \o t \in Seq(L) /\ Len(s) \in Nat /\ Len(t) \in Nat
      /\ \A i \in 1..Len(s) : (s \o t)[i] = s[i]
      /\ \A i \in 1..Len(t) : (s \o t)[Len(s) + i] = t[i]
  OBVIOUS
<1> DEFINE u == s \o t
<1>2. /\ Len(u) = Len(s) + Len(t) /\ u \in Seq(L)
      /\ \A i \in 1..Len(s) : u[i] = s[i]
      /\ \A i \in 1..Len(t) : u[Len(s) + i] = t[i]
  BY <1>1
<1> HIDE DEF u
<1>3. DOMAIN u = 1..(Len(s) + Len(t)) /\ DOMAIN s = 1..Len(s) /\ DOMAIN t = 1..Len(t)
  BY <1>2
<1>4. \A x \in ToSet(s) : x \in ToSet(u)
  BY <1>1, <1>2, <1>3 DEF ToSet
<1>5. ASSUME NEW i \in 1..Len(t) PROVE t[i] \in ToSet(u)
  <2>1. Len(s) + i \in DOMAIN u /\ u[Len(s) + i] = t[i]
    BY <1>1, <1>2, <1>3
  <2> QED
    BY <2>1 DEF ToSet
<1>6. ASSUME NEW i \in DOMAIN u PROVE u[i] \in ToSet(s) \cup ToSet(t)
  <2>1. CASE i <= Len(s)
    BY <1>1, <1>2, <1>3, <2>1 DEF ToSet
  <2>2. CASE i > Len(s)
    <3>1. i - Len(s) \in 1..Len(t) /\ Len(s) + (i - Len(s)) = i
      BY <1>1, <1>3, <2>2
    <3>2. u[i] = t[i - Len(s)]
      BY <1>2, <3>1
    <3> QED
      BY <1>3, <3>1, <3>2 DEF ToSet
  <2> QED
    BY <1>1, <1>3, <2>1, <2>2
<1>7. \A x \in ToSet(t) : x \in ToSet(u)
  BY <1>3, <1>5 DEF ToSet
<1>8. \A x \in ToSet(u) : x \in ToSet(s) \cup ToSet(t)
  BY <1>6 DEF ToSet
<1> QED
  BY <1>4, <1>7, <1>8 DEF u

(* What the code counts of the details of the lines after e: each of them  *)
(* once or twice, and once if none is both a location and indented.        *)
LEMMA DetailsOfLine ==
    ASSUME NEW l
    PROVE  /\ Details(l) = IF IsBoth(l) THEN 2 ELSE IF IsDetail(l) THEN 1 ELSE 0
           /\ ToSet(Copies(l)) = ToSet(IF IsDetail(l) THEN <<l>> ELSE <<>>)
           /\ ~ IsBoth(l) => Copies(l) = IF IsDetail(l) THEN <<l>> ELSE <<>>
<1>1. <<l>> \in Seq({l}) /\ <<>> \in Seq({l}) /\ Len(<<l>>) = 1 /\ Len(<<>>) = 0
  OBVIOUS
<1>2. <<l>> \o <<>> = <<l>> /\ <<>> \o <<l>> = <<l>> /\ <<>> \o <<>> = <<>>
  BY <1>1, ConcatEmptySeq
<1>3. Len(<<l>> \o <<l>>) = 2 /\ ToSet(<<l>> \o <<l>>) = ToSet(<<l>>)
  <2>1. Len(<<l>> \o <<l>>) = 2
    OBVIOUS
  <2>2. ToSet(<<l>> \o <<l>>) = ToSet(<<l>>) \cup ToSet(<<l>>)
    BY <1>1, ConcatAdds
  <2> QED
    BY <2>1, <2>2
<1>4. CASE IsBoth(l)
  <2>1. Copies(l) = <<l>> \o <<l>> /\ IsDetail(l)
    BY <1>4 DEF Copies, IsBoth, IsDetail
  <2> QED
    BY <1>3, <1>4, <2>1 DEF Details
<1>5. CASE ~ IsBoth(l)
  <2>1. Copies(l) = IF IsDetail(l) THEN <<l>> ELSE <<>>
    BY <1>2, <1>5 DEF Copies, IsBoth, IsDetail
  <2> QED
    BY <1>1, <1>5, <2>1 DEF Details
<1> QED
  BY <1>4, <1>5

DetailsAfter(ls, e, n) == {k \in (e + 1)..n : IsDetail(ls[k])}

CountsAgree(ls, e, n) ==
    LET counted == DetailsTo(ls)[n] - DetailsTo(ls)[e]
        details == Cardinality(DetailsAfter(ls, e, n))
    IN  /\ IsFiniteSet(DetailsAfter(ls, e, n))
        /\ counted \in Nat /\ details \in Nat
        /\ details <= counted /\ counted <= 2 * details
        /\ (\A k \in 1..Len(ls) : ~ IsBoth(ls[k])) => counted = details

LEMMA CountsAgreeNext ==
    ASSUME NEW L, NEW ls \in Seq(L), NEW e \in 0..Len(ls), NEW m \in Nat,
           e <= m, m + 1 <= Len(ls), CountsAgree(ls, e, m)
    PROVE  CountsAgree(ls, e, m + 1)
<1> DEFINE l == ls[m + 1]
           S == DetailsAfter(ls, e, m)
           S1 == DetailsAfter(ls, e, m + 1)
           c == DetailsTo(ls)[m] - DetailsTo(ls)[e]
           c1 == DetailsTo(ls)[m + 1] - DetailsTo(ls)[e]
<1>1. Len(ls) \in Nat /\ e \in Nat /\ m + 1 \in 1..Len(ls) /\ (m + 1) - 1 = m /\ m \in 0..Len(ls)
  OBVIOUS
<1>2. S1 = S \cup {k \in {m + 1} : IsDetail(l)} /\ m + 1 \notin S
  BY <1>1 DEF DetailsAfter
<1>3. Details(l) = IF IsBoth(l) THEN 2 ELSE IF IsDetail(l) THEN 1 ELSE 0
  BY DetailsOfLine
<1>4. c1 = c + Details(l)
  <2>1. \A k \in 0..Len(ls) : DetailsTo(ls)[k] \in Nat
    BY DetailsToIs
  <2>2. DetailsTo(ls)[m + 1] = DetailsTo(ls)[m] + Details(l)
    BY <1>1, DetailsToIs
  <2>3. DetailsTo(ls)[m] \in Nat /\ DetailsTo(ls)[e] \in Nat /\ Details(l) \in Nat
    BY <1>1, <1>3, <2>1
  <2> QED
    BY <2>2, <2>3
<1>5. /\ IsFiniteSet(S) /\ c \in Nat /\ Cardinality(S) \in Nat
      /\ Cardinality(S) <= c /\ c <= 2 * Cardinality(S)
      /\ (\A k \in 1..Len(ls) : ~ IsBoth(ls[k])) => c = Cardinality(S)
  BY DEF CountsAgree
<1>6. IsBoth(l) => IsDetail(l)
  BY DEF IsBoth, IsDetail
<1>7. (\A k \in 1..Len(ls) : ~ IsBoth(ls[k])) => ~ IsBoth(l)
  BY <1>1
<1> SUFFICES /\ IsFiniteSet(S1) /\ c1 \in Nat /\ Cardinality(S1) \in Nat
             /\ Cardinality(S1) <= c1 /\ c1 <= 2 * Cardinality(S1)
             /\ (\A k \in 1..Len(ls) : ~ IsBoth(ls[k])) => c1 = Cardinality(S1)
  BY DEF CountsAgree
<1> HIDE DEF S, S1, c, c1, l
<1>8. CASE IsDetail(l)
  <2>1. S1 = S \cup {m + 1}
    BY <1>2, <1>8
  <2>2. IsFiniteSet(S1) /\ Cardinality(S1) = Cardinality(S) + 1
    <3> DEFINE x == m + 1
    <3>1. x \notin S /\ IsFiniteSet(S) /\ S1 = S \cup {x}
      BY <1>2, <1>5, <2>1
    <3> HIDE DEF x
    <3> QED
      BY <3>1, FS_AddElement
  <2> QED
    BY <1>3, <1>4, <1>5, <1>7, <1>8, <2>2
<1>9. CASE ~ IsDetail(l)
  <2>1. S1 = S /\ c1 = c
    BY <1>2, <1>3, <1>4, <1>5, <1>6, <1>9
  <2> QED
    BY <1>5, <2>1
<1> QED
  BY <1>8, <1>9

LEMMA DetailsCounted ==
    ASSUME NEW L, NEW ls \in Seq(L), NEW e \in 0..Len(ls), NEW n \in e..Len(ls)
    PROVE  CountsAgree(ls, e, n)
<1> DEFINE T == {d \in Nat : e + d <= Len(ls) => CountsAgree(ls, e, e + d)}
<1>1. Len(ls) \in Nat /\ e \in Nat /\ n \in Nat
  OBVIOUS
<1>2. 0 \in T
  <2>1. DetailsAfter(ls, e, e) = {}
    BY <1>1 DEF DetailsAfter
  <2>2. DetailsTo(ls)[e] - DetailsTo(ls)[e] = 0 /\ e + 0 = e
    BY <1>1, DetailsToIs
  <2>3. CountsAgree(ls, e, e)
    BY <2>1, <2>2, FS_EmptySet DEF CountsAgree
  <2> QED
    BY <2>2, <2>3
<1>3. ASSUME NEW d \in T PROVE d + 1 \in T
  <2> SUFFICES ASSUME e + (d + 1) <= Len(ls) PROVE CountsAgree(ls, e, e + (d + 1))
    OBVIOUS
  <2>1. e + d \in Nat /\ e <= e + d /\ (e + d) + 1 <= Len(ls) /\ e + (d + 1) = (e + d) + 1
    BY <1>1
  <2>2. CountsAgree(ls, e, e + d)
    BY <1>1, <2>1
  <2> QED
    BY <2>1, <2>2, CountsAgreeNext
<1>4. T \in SUBSET Nat
  OBVIOUS
<1> HIDE DEF T
<1>5. T = Nat
  BY <1>2, <1>3, <1>4, InductionOnSet
<1>6. n - e \in Nat /\ e + (n - e) = n
  BY <1>1
<1>7. \A d \in Nat : e + d <= Len(ls) => CountsAgree(ls, e, e + d)
  BY <1>5 DEF T
<1> QED
  BY <1>1, <1>6, <1>7

(* The block the code sees lies between two blocks of the reference.       *)
LEMMA BlocksCompare ==
    ASSUME NEW L, NEW ls \in Seq(L), NEW i \in 1..Len(ls)
    PROVE  /\ InBlock(ls, i, FewestDetails) => InCodeBlock(ls, i)
           /\ InCodeBlock(ls, i) => InBlock(ls, i, MaxDetails)
           /\ (\A k \in 1..Len(ls) : ~ IsBoth(ls[k])) /\ InBlock(ls, i, MaxDetails) => InCodeBlock(ls, i)
<1> DEFINE counted(e) == DetailsTo(ls)[i - 1] - DetailsTo(ls)[e]
           details(e) == Cardinality(DetailsAfter(ls, e, i - 1))
<1>1. ASSUME NEW e \in 1..(i - 1)
      PROVE  /\ counted(e) \in Nat /\ details(e) \in Nat
             /\ details(e) <= counted(e) /\ counted(e) <= 2 * details(e)
             /\ (\A k \in 1..Len(ls) : ~ IsBoth(ls[k])) => counted(e) = details(e)
  <2>1. e \in 0..Len(ls) /\ i - 1 \in e..Len(ls)
    OBVIOUS
  <2> QED
    BY <2>1, DetailsCounted DEF CountsAgree
<1>2. \A e : details(e) = Cardinality({k \in (e + 1)..(i - 1) : IsDetail(ls[k])})
  BY DEF DetailsAfter
<1> HIDE DEF details
<1>3. ASSUME NEW e \in 1..(i - 1)
      PROVE  /\ details(e) < FewestDetails => counted(e) < MaxDetails
             /\ counted(e) < MaxDetails => details(e) < MaxDetails
  BY <1>1, MaxDetailsAssumption DEF FewestDetails
<1>4. InCodeBlock(ls, i) <=>
         \E e \in 1..(i - 1) :
            /\ IsError(ls[e])
            /\ \A k \in (e + 1)..i : ~ IsError(ls[k])
            /\ \A k \in (e + 1)..(i - 1) : ~ IsBlank(ls[k])
            /\ counted(e) < MaxDetails
  BY DEF InCodeBlock
<1> HIDE DEF counted
<1>5. ASSUME NEW n
      PROVE  InBlock(ls, i, n) <=>
             \E e \in 1..(i - 1) :
                /\ IsError(ls[e])
                /\ \A k \in (e + 1)..i : ~ IsError(ls[k])
                /\ \A k \in (e + 1)..(i - 1) : ~ IsBlank(ls[k])
                /\ details(e) < n
  BY <1>2 DEF InBlock
<1>6. InBlock(ls, i, FewestDetails) => InCodeBlock(ls, i)
  BY <1>3, <1>4, <1>5
<1>7. InCodeBlock(ls, i) => InBlock(ls, i, MaxDetails)
  BY <1>3, <1>4, <1>5
<1>8. ASSUME \A k \in 1..Len(ls) : ~ IsBoth(ls[k]), InBlock(ls, i, MaxDetails) PROVE InCodeBlock(ls, i)
  BY <1>1, <1>4, <1>5, <1>8
<1> QED
  BY <1>6, <1>7, <1>8

LEMMA LinesCompare ==
    ASSUME NEW L, NEW ls \in Seq(L), NEW i \in 1..Len(ls)
    PROVE  /\ ToSet(Kept(ls, i, FewestDetails)) \subseteq ToSet(Appended(ls, i))
           /\ ToSet(Appended(ls, i)) \subseteq ToSet(Kept(ls, i, MaxDetails))
           /\ (\A k \in 1..Len(ls) : ~ IsBoth(ls[k])) => Appended(ls, i) = Kept(ls, i, MaxDetails)
<1> DEFINE l == ls[i]
<1>1. ToSet(<<>>) = {}
  BY DEF ToSet
<1>2. ToSet(Copies(l)) = ToSet(IF IsDetail(l) THEN <<l>> ELSE <<>>)
  BY DetailsOfLine
<1>3. ~ IsBoth(l) => Copies(l) = IF IsDetail(l) THEN <<l>> ELSE <<>>
  BY DetailsOfLine
<1>4. /\ InBlock(ls, i, FewestDetails) => InCodeBlock(ls, i)
      /\ InCodeBlock(ls, i) => InBlock(ls, i, MaxDetails)
      /\ (\A k \in 1..Len(ls) : ~ IsBoth(ls[k])) /\ InBlock(ls, i, MaxDetails) => InCodeBlock(ls, i)
  BY BlocksCompare
<1>5. Appended(ls, i) = IF IsError(l) THEN <<l>>
                        ELSE IF ~ InCodeBlock(ls, i) THEN <<>>
                        ELSE IF IsBlank(l) THEN <<Blank>> ELSE Copies(l)
  BY DEF Appended
<1>6. ASSUME NEW n
      PROVE  Kept(ls, i, n) = IF IsError(l) THEN <<l>>
                              ELSE IF ~ InBlock(ls, i, n) THEN <<>>
                              ELSE IF IsBlank(l) THEN <<Blank>>
                              ELSE IF IsDetail(l) THEN <<l>> ELSE <<>>
  BY DEF Kept
<1>7. (\A k \in 1..Len(ls) : ~ IsBoth(ls[k])) => ~ IsBoth(l)
  OBVIOUS
<1> HIDE DEF l
<1>8. ToSet(Kept(ls, i, FewestDetails)) \subseteq ToSet(Appended(ls, i))
  BY <1>1, <1>2, <1>4, <1>5, <1>6
<1>9. ToSet(Appended(ls, i)) \subseteq ToSet(Kept(ls, i, MaxDetails))
  BY <1>1, <1>2, <1>4, <1>5, <1>6
<1>10. (\A k \in 1..Len(ls) : ~ IsBoth(ls[k])) => Appended(ls, i) = Kept(ls, i, MaxDetails)
  BY <1>3, <1>4, <1>5, <1>6, <1>7
<1> QED
  BY <1>8, <1>9, <1>10

LEMMA FlattenElements ==
    ASSUME NEW L, NEW q \in Seq(Seq(L)), Len(q) > 0
    PROVE  \A x : x \in ToSet(FlattenSeq(q)) <=> \E i \in 1..Len(q) : x \in ToSet(q[i])
<1>1. PICK G \in [0..Len(q) -> Seq(L)] :
        /\ G[0] = <<>>
        /\ \A i \in 1..Len(q) : G[i] = G[i - 1] \o q[i]
        /\ FlattenSeq(q) = G[Len(q)]
  BY FlattenProperties
<1>2. Len(q) \in Nat /\ \A i \in 1..Len(q) : q[i] \in Seq(L)
  OBVIOUS
<1> DEFINE n == Len(q)
           T == {k \in Nat : k <= n => \A x : x \in ToSet(G[k]) <=> \E i \in 1..k : x \in ToSet(q[i])}
<1>3. 0 \in T
  BY <1>1 DEF ToSet
<1>4. ASSUME NEW k \in T PROVE k + 1 \in T
  <2> SUFFICES ASSUME k + 1 <= n, NEW x
               PROVE  x \in ToSet(G[k + 1]) <=> \E i \in 1..(k + 1) : x \in ToSet(q[i])
    OBVIOUS
  <2>1. k \in Nat /\ k + 1 \in 1..n /\ (k + 1) - 1 = k /\ k \in 0..n /\ k <= n
    BY <1>2
  <2>5. x \in ToSet(G[k]) <=> \E i \in 1..k : x \in ToSet(q[i])
    <3>1. k <= n => \A y : y \in ToSet(G[k]) <=> \E i \in 1..k : y \in ToSet(q[i])
      OBVIOUS
    <3> QED
      BY <2>1, <3>1
  <2>2. G[k + 1] = G[k] \o q[k + 1] /\ G[k] \in Seq(L) /\ q[k + 1] \in Seq(L)
    BY <1>1, <1>2, <2>1
  <2>3. ToSet(G[k + 1]) = ToSet(G[k]) \cup ToSet(q[k + 1])
    BY <2>2, ConcatAdds
  <2>4. \A i : i \in 1..(k + 1) <=> i \in 1..k \/ i = k + 1
    BY <2>1
  <2> QED
    BY <2>1, <2>3, <2>4, <2>5
<1>5. T \in SUBSET Nat
  OBVIOUS
<1> HIDE DEF T
<1>6. T = Nat
  BY <1>3, <1>4, <1>5, InductionOnSet
<1>7. \A x : x \in ToSet(G[n]) <=> \E i \in 1..n : x \in ToSet(q[i])
  <2>1. n \in T /\ n <= n
    BY <1>2, <1>6
  <2> QED
    BY <2>1 DEF T
<1> QED
  BY <1>1, <1>7

LEMMA KeptType ==
    ASSUME NEW L, Blank \in L, NEW ls \in Seq(L), NEW i \in 1..Len(ls), NEW n
    PROVE  Kept(ls, i, n) \in Seq(L)
<1>1. ls[i] \in L
  OBVIOUS
<1>2. <<ls[i]>> \in Seq(L) /\ <<Blank>> \in Seq(L) /\ <<>> \in Seq(L)
  BY <1>1
<1> QED
  BY <1>2 DEF Kept

LEMMA FlatElements ==
    ASSUME NEW L, Blank \in L, NEW ls \in Seq(L), Len(ls) > 0, NEW x
    PROVE  /\ x \in ToSet(FlattenSeq([i \in DOMAIN ls |-> Appended(ls, i)]))
                <=> \E i \in 1..Len(ls) : x \in ToSet(Appended(ls, i))
           /\ \A n : x \in ToSet(FlattenSeq([i \in DOMAIN ls |-> Kept(ls, i, n)]))
                        <=> \E i \in 1..Len(ls) : x \in ToSet(Kept(ls, i, n))
<1>1. DOMAIN ls = 1..Len(ls) /\ Len(ls) \in Nat
  OBVIOUS
<1>2. ASSUME NEW q, q \in [1..Len(ls) -> Seq(L)]
      PROVE  x \in ToSet(FlattenSeq(q)) <=> \E i \in 1..Len(ls) : x \in ToSet(q[i])
  <2>1. q \in Seq(Seq(L)) /\ Len(q) = Len(ls)
    BY <1>1, <1>2
  <2> QED
    BY <2>1, FlattenElements
<1>3. x \in ToSet(FlattenSeq([i \in DOMAIN ls |-> Appended(ls, i)]))
         <=> \E i \in 1..Len(ls) : x \in ToSet(Appended(ls, i))
  <2> DEFINE q == [i \in DOMAIN ls |-> Appended(ls, i)]
  <2>1. q \in [1..Len(ls) -> Seq(L)] /\ \A i \in 1..Len(ls) : q[i] = Appended(ls, i)
    BY <1>1, AppendedType
  <2> HIDE DEF q
  <2>2. x \in ToSet(FlattenSeq(q)) <=> \E i \in 1..Len(ls) : x \in ToSet(q[i])
    BY <1>2, <2>1
  <2> QED
    BY <2>1, <2>2 DEF q
<1>4. ASSUME NEW n
      PROVE  x \in ToSet(FlattenSeq([i \in DOMAIN ls |-> Kept(ls, i, n)]))
                <=> \E i \in 1..Len(ls) : x \in ToSet(Kept(ls, i, n))
  <2> DEFINE q == [i \in DOMAIN ls |-> Kept(ls, i, n)]
  <2>1. q \in [1..Len(ls) -> Seq(L)] /\ \A i \in 1..Len(ls) : q[i] = Kept(ls, i, n)
    BY <1>1, KeptType
  <2> HIDE DEF q
  <2>2. x \in ToSet(FlattenSeq(q)) <=> \E i \in 1..Len(ls) : x \in ToSet(q[i])
    BY <1>2, <2>1
  <2> QED
    BY <2>1, <2>2 DEF q
<1> QED
  BY <1>3, <1>4

(* For an output of any length: what extractTerraformError returns is what *)
(* the comments say when no line is both a location and indented, or there *)
(* is no error.  In general it has every detail that is among the first    *)
(* half of those the comments allow, and nothing that is not in a block;   *)
(* no error is missing. *)
THEOREM ExtractionIsReference ==
    ASSUME NEW L, Blank \in L, NEW text \in Seq(L)
    PROVE  /\ (\A i \in DOMAIN text : ~ IsBoth(text[i])) \/ ~ HasError(text)
                 => extractTerraformError(text) = ReportOf(text)
           /\ ToSet(ReportWithin(text, FewestDetails)) \subseteq ToSet(extractTerraformError(text))
           /\ ToSet(extractTerraformError(text)) \subseteq ToSet(ReportOf(text))
           /\ \A i \in DOMAIN text :
                 IsError(text[i]) => text[i] \in ToSet(extractTerraformError(text))
<1> DEFINE ls == Split(text)
           code == FlattenSeq([i \in DOMAIN ls |-> Appended(ls, i)])
           kept(n) == FlattenSeq([i \in DOMAIN ls |-> Kept(ls, i, n)])
           rest == FlattenSeq([i \in DOMAIN ls |-> Rest(ls, i)])
<1>1. /\ ls \in Seq(L) /\ Len(ls) = Len(text) + 1 /\ Len(text) \in Nat
      /\ \A i \in 1..Len(text) : ls[i] = text[i]
      /\ ls[Len(text) + 1] = Blank
  BY SplitProperties
<1>2. Len(ls) > 0 /\ DOMAIN ls = 1..Len(ls) /\ DOMAIN text = 1..Len(text)
  BY <1>1
<1>3. \A i \in DOMAIN ls : i \in DOMAIN text \/ ls[i] = Blank
  BY <1>1, <1>2
<1>4. ~ IsError(Blank) /\ ~ IsBoth(Blank)
  BY DEF Blank, IsError, IsBoth, IsLocation, IsIndented
<1>5. \A i \in DOMAIN text : i \in DOMAIN ls /\ ls[i] = text[i]
  BY <1>1, <1>2
<1>6. extractTerraformError(text) = IF HasError(ls) THEN code ELSE rest
  BY ExtractionIsFlat
<1>7. \A n : ReportWithin(text, n) = IF HasError(ls) THEN kept(n) ELSE rest
  BY DEF ReportWithin
<1>8. \A x : /\ x \in ToSet(code) <=> \E i \in 1..Len(ls) : x \in ToSet(Appended(ls, i))
            /\ \A n : x \in ToSet(kept(n)) <=> \E i \in 1..Len(ls) : x \in ToSet(Kept(ls, i, n))
  <2> HIDE DEF ls
  <2> QED
    BY <1>1, <1>2, FlatElements
<1>9. \A i \in 1..Len(ls) :
        /\ ToSet(Kept(ls, i, FewestDetails)) \subseteq ToSet(Appended(ls, i))
        /\ ToSet(Appended(ls, i)) \subseteq ToSet(Kept(ls, i, MaxDetails))
        /\ (\A k \in 1..Len(ls) : ~ IsBoth(ls[k])) => Appended(ls, i) = Kept(ls, i, MaxDetails)
  <2> HIDE DEF ls
  <2> QED
    BY <1>1, LinesCompare
<1> HIDE DEF ls
<1>10. (\A i \in 1..Len(ls) : ~ IsBoth(ls[i])) => code = kept(MaxDetails)
  <2> SUFFICES ASSUME \A i \in 1..Len(ls) : ~ IsBoth(ls[i])
               PROVE  [i \in DOMAIN ls |-> Appended(ls, i)] = [i \in DOMAIN ls |-> Kept(ls, i, MaxDetails)]
    OBVIOUS
  <2> QED
    BY <1>2, <1>9
<1> HIDE DEF code, kept, rest
<1>11. (\A i \in DOMAIN text : ~ IsBoth(text[i])) => \A i \in 1..Len(ls) : ~ IsBoth(ls[i])
  BY <1>2, <1>3, <1>4, <1>5
<1>12. HasError(text) <=> HasError(ls)
  BY <1>3, <1>4, <1>5 DEF HasError
<1>13. (\A i \in DOMAIN text : ~ IsBoth(text[i])) \/ ~ HasError(text)
         => extractTerraformError(text) = ReportOf(text)
  BY <1>6, <1>7, <1>10, <1>11, <1>12 DEF ReportOf
<1>14. ToSet(kept(FewestDetails)) \subseteq ToSet(code)
  BY <1>8, <1>9
<1>15. ToSet(code) \subseteq ToSet(kept(MaxDetails))
  BY <1>8, <1>9
<1>16. \A i \in DOMAIN text : IsError(text[i]) => text[i] \in ToSet(extractTerraformError(text))
  BY ExtractionIsFlat
<1> QED
  BY <1>6, <1>7, <1>13, <1>14, <1>15, <1>16 DEF ReportOf

(* Each line of lines follows an error by no more than the code allows; and*)
(* in a block the last error is as far away as the count says.             *)
ShortBlocks(lines) ==
    \A i \in 1..Len(lines) : \E e \in 1..i : i - e <= MaxDetails + 1 /\ IsError(lines[e])

ShortSoFar(s) ==
    /\ ShortBlocks(s.lines)
    /\ s.inError => /\ s.count < MaxDetails
                    /\ \E p \in 1..Len(s.lines) : IsError(s.lines[p]) /\ Len(s.lines) - p = s.count

LEMMA ShortNext ==
    ASSUME NEW L, Blank \in L, NEW s \in ErrorStates(L), NEW l \in L, ShortSoFar(s)
    PROVE  ShortSoFar(ErrorStep(s, l))
<1>1. s.lines \in Seq(L) /\ s.count \in Nat /\ s.inError \in BOOLEAN /\ MaxDetails \in Nat \ {0}
  BY MaxDetailsAssumption DEF ErrorStates
<1> DEFINE n == Len(s.lines)
<1>2. n \in Nat
  BY <1>1
<1>3. ASSUME NEW t \in Seq(L), Len(t) >= n, \A i \in 1..n : t[i] = s.lines[i],
             NEW p \in 1..Len(t), IsError(t[p]), Len(t) - p <= MaxDetails + 1, p <= n + 1
      PROVE  ShortBlocks(t)
  <2> SUFFICES ASSUME NEW i \in 1..Len(t)
               PROVE  \E e \in 1..i : i - e <= MaxDetails + 1 /\ IsError(t[e])
    BY DEF ShortBlocks
  <2>1. CASE i <= n
    <3>1. PICK e \in 1..i : i - e <= MaxDetails + 1 /\ IsError(s.lines[e])
      BY <1>2, <2>1 DEF ShortSoFar, ShortBlocks
    <3> QED
      BY <1>2, <1>3, <2>1, <3>1
  <2>2. CASE i > n
    <3>1. p \in 1..i /\ i - p <= MaxDetails + 1
      BY <1>1, <1>2, <1>3, <2>2
    <3> QED
      BY <1>3, <3>1
  <2> QED
    BY <1>2, <2>1, <2>2
<1>4. CASE IsError(l)
  <2> DEFINE t == Append(s.lines, l)
  <2>1. ErrorStep(s, l) = [inError |-> TRUE, count |-> 0, lines |-> t]
    BY <1>4 DEF ErrorStep
  <2>2. /\ t \in Seq(L) /\ Len(t) = n + 1 /\ t[n + 1] = l
        /\ \A i \in 1..n : t[i] = s.lines[i]
    BY <1>1
  <2> HIDE DEF t
  <2>3. n + 1 \in 1..Len(t) /\ Len(t) - (n + 1) = 0 /\ IsError(t[n + 1])
    BY <1>2, <1>4, <2>2
  <2>4. ShortBlocks(t)
    BY <1>1, <1>2, <1>3, <2>2, <2>3
  <2> QED
    BY <1>1, <2>1, <2>3, <2>4 DEF ShortSoFar
<1>5. CASE ~ IsError(l) /\ ~ s.inError
  BY <1>5 DEF ErrorStep
<1>6. ASSUME ~ IsError(l), s.inError
      PROVE  \E p \in 1..n : IsError(s.lines[p]) /\ n - p = s.count /\ s.count < MaxDetails
  BY <1>6 DEF ShortSoFar
<1>7. CASE ~ IsError(l) /\ s.inError /\ IsBlank(l)
  <2> DEFINE t == Append(s.lines, Blank)
  <2>1. ErrorStep(s, l) = [s EXCEPT !.inError = FALSE, !.lines = t]
    BY <1>7 DEF ErrorStep
  <2>2. ErrorStep(s, l).lines = t /\ ~ ErrorStep(s, l).inError
    BY <2>1 DEF ErrorStates
  <2>3. /\ t \in Seq(L) /\ Len(t) = n + 1
        /\ \A i \in 1..n : t[i] = s.lines[i]
    BY <1>1
  <2> HIDE DEF t
  <2>4. PICK p \in 1..n : IsError(s.lines[p]) /\ n - p = s.count /\ s.count < MaxDetails
    BY <1>6, <1>7
  <2>5. p \in 1..Len(t) /\ IsError(t[p]) /\ Len(t) - p <= MaxDetails + 1 /\ p <= n + 1 /\ Len(t) >= n
    BY <1>1, <1>2, <2>3, <2>4
  <2>6. ShortBlocks(t)
    BY <1>3, <2>3, <2>5
  <2> QED
    BY <2>2, <2>6 DEF ShortSoFar
<1>8. Copies(l) \in Seq(L) /\ Len(Copies(l)) \in 0..2
  <2>1. Copies(l) \in Seq(L)
    BY CopiesType
  <2>2. Details(l) = 2 \/ Details(l) = 1 \/ Details(l) = 0
    BY DetailsOfLine, Zenon
  <2> QED
    BY <2>1, <2>2 DEF Details
<1>9. CASE ~ IsError(l) /\ s.inError /\ ~ IsBlank(l)
  <2> DEFINE c == Copies(l)
             t == s.lines \o c
             d == s.count + Len(c)
  <2>1. ErrorStep(s, l) = [inError |-> d < MaxDetails, count |-> d, lines |-> t]
    BY <1>9 DEF ErrorStep
  <2>2. c \in Seq(L) /\ Len(c) \in 0..2
    BY <1>8
  <2> HIDE DEF c
  <2>3. /\ t \in Seq(L) /\ Len(t) = n + Len(c)
        /\ \A i \in 1..n : t[i] = s.lines[i]
    BY <1>1, <2>2
  <2> HIDE DEF t
  <2>4. PICK p \in 1..n : IsError(s.lines[p]) /\ n - p = s.count /\ s.count < MaxDetails
    BY <1>6, <1>9
  <2>5. /\ p \in 1..Len(t) /\ Len(t) - p = d
        /\ Len(t) - p <= MaxDetails + 1 /\ p <= n + 1 /\ Len(t) >= n
    <3> DEFINE k == Len(c)
               m == Len(t)
    <3>1. k \in 0..2 /\ m = n + k /\ s.count \in Nat /\ d = s.count + k
      BY <1>1, <2>2, <2>3
    <3>2. n \in Nat /\ p \in 1..n /\ n - p = s.count /\ s.count < MaxDetails /\ MaxDetails \in Nat
      BY <1>1, <1>2, <2>4
    <3> HIDE DEF k, m, n, d
    <3> QED
      BY <3>1, <3>2 DEF m
  <2>6. IsError(t[p])
    BY <2>3, <2>4
  <2>7. ShortBlocks(t)
    BY <1>3, <2>3, <2>5, <2>6
  <2>8. \E k \in 1..Len(t) : IsError(t[k]) /\ Len(t) - k = d
    BY <2>5, <2>6
  <2> DEFINE r == ErrorStep(s, l)
             more == d < MaxDetails
  <2>9. r = [inError |-> more, count |-> d, lines |-> t] /\ (more <=> d < MaxDetails)
    BY <2>1
  <2> HIDE DEF d, r, more
  <2>10. ShortSoFar(r)
    BY <2>7, <2>8, <2>9 DEF ShortSoFar
  <2> QED
    BY <2>10 DEF r
<1> QED
  BY <1>1, <1>4, <1>5, <1>7, <1>9

(* Of an output with an error, however long it is, at most MaxDetails + 1  *)
(* lines follow an error in the report before the next one. *)
THEOREM ExtractionIsShort ==
    ASSUME NEW L, Blank \in L, NEW text \in Seq(L), HasError(text)
    PROVE  \A i \in DOMAIN extractTerraformError(text) :
              \E e \in 1..i :
                 i - e <= MaxDetails + 1 /\ IsError(extractTerraformError(text)[e])
<1> DEFINE ls == Split(text)
           T == {k \in Nat : k <= Len(ls) => ShortSoFar(ErrorLoop(ls)[k])}
<1>1. /\ ls \in Seq(L) /\ Len(ls) = Len(text) + 1 /\ Len(text) \in Nat
      /\ \A i \in 1..Len(text) : ls[i] = text[i]
  BY SplitProperties
<1>2. HasError(ls)
  <2>1. PICK i \in DOMAIN text : IsError(text[i])
    BY DEF HasError
  <2>2. i \in DOMAIN ls /\ ls[i] = text[i]
    BY <1>1
  <2> QED
    BY <2>1, <2>2 DEF HasError
<1>3. extractTerraformError(text) = ErrorLoop(ls)[Len(ls)].lines
  BY <1>2, ExtractionIsFlat
<1> HIDE DEF ls
<1>4. /\ \A k \in 0..Len(ls) : ErrorLoop(ls)[k] \in ErrorStates(L)
      /\ ErrorLoop(ls)[0] = NoErrors
      /\ \A k \in 1..Len(ls) : ErrorLoop(ls)[k] = ErrorStep(ErrorLoop(ls)[k - 1], ls[k])
  BY <1>1, ErrorLoopIs
<1>5. 0 \in T
  <2>1. ShortSoFar(NoErrors)
    BY DEF NoErrors, ShortSoFar, ShortBlocks
  <2> QED
    BY <1>4, <2>1
<1>6. ASSUME NEW k \in T PROVE k + 1 \in T
  <2> SUFFICES ASSUME k + 1 <= Len(ls) PROVE ShortSoFar(ErrorLoop(ls)[k + 1])
    OBVIOUS
  <2>1. k \in 0..Len(ls) /\ k + 1 \in 1..Len(ls) /\ (k + 1) - 1 = k /\ ls[k + 1] \in L
    BY <1>1
  <2>2. ShortSoFar(ErrorLoop(ls)[k])
    BY <1>1, <2>1
  <2>3. ErrorLoop(ls)[k] \in ErrorStates(L) /\ ErrorLoop(ls)[k + 1] = ErrorStep(ErrorLoop(ls)[k], ls[k + 1])
    BY <1>4, <2>1
  <2> QED
    BY <2>1, <2>2, <2>3, ShortNext
<1>7. T \in SUBSET Nat
  OBVIOUS
<1> HIDE DEF T
<1>8. T = Nat
  BY <1>5, <1>6, <1>7, InductionOnSet
<1>9. ShortSoFar(ErrorLoop(ls)[Len(ls)]) /\ ErrorLoop(ls)[Len(ls)] \in ErrorStates(L)
  BY <1>1, <1>4, <1>8 DEF T
<1> DEFINE lines == ErrorLoop(ls)[Len(ls)].lines
<1>10. ShortBlocks(lines) /\ lines \in Seq(L)
  BY <1>9 DEF ShortSoFar, ErrorStates
<1> HIDE DEF lines
<1>11. DOMAIN lines = 1..Len(lines)
  BY <1>10
<1> QED
  BY <1>3, <1>10, <1>11 DEF ShortBlocks, lines

--------------------------------------------------------------------------------
(* The exit code depends on the order in which the command ends, the       *)
(* deadline passes, os/exec kills, and waitForCompletion and the caller    *)
(* look, and on nothing that was written.                                  *)
Exited ==
    /\ pc \in {"start", "capture", "wait", "returned"}
    /\ exit \in {None, -1, 0, 1}
    /\ expired \in BOOLEAN /\ killed \in BOOLEAN
    /\ result = None <=> pc # "returned"

(* A command that was not started did not end, and only the deadline kills. *)
Deadline == (killed => expired /\ pc # "start" /\ exit # None) /\ (pc = "start" => exit = None)

(* What waitForCompletion returned: no error only for a command that ended *)
(* with 0 and was left alone, 124 only after the deadline. *)
Result ==
    pc = "returned" =>
        /\ result.code \in {-1, 0, 1, 124}
        /\ ~ result.failed => result.code = 0 /\ exit = 0 /\ ~ killed /\ exit # None
        /\ result.failed =>
              /\ result.code # 0
              /\ killed \/ result.code = 124 => result.code = 124 /\ expired
              /\ result.code = 124 \/ result.code = IF exit = None THEN -1 ELSE exit

Reported == report # None => pc = "returned" /\ report.code \in {-1, 0, 1, 124}

CodeInv == Exited /\ Deadline /\ Result /\ Reported /\ ReportedCode

LEMMA InitCode == Init => CodeInv
BY DEF Init, CodeInv, Exited, Deadline, Result, Reported, ReportedCode

(* Steps that move neither the command nor the caller. *)
LEMMA SameCode ==
    ASSUME CodeInv, UNCHANGED <<pc, exit, expired, killed, result, report>>
    PROVE  CodeInv'
BY DEF CodeInv, Exited, Deadline, Result, Reported, ReportedCode

LEMMA CodeNext == CodeInv /\ [Next]_vars => CodeInv'
<1> SUFFICES ASSUME CodeInv, [Next]_vars PROVE CodeInv'
  OBVIOUS
<1> USE DEF command, capture
<1>0. /\ None \notin {-1, 0, 1}
      /\ \A c \in {-1, 0, 1, 124}, f \in BOOLEAN : [code |-> c, failed |-> f] # None
  <2>1. \A c \in {-1, 0, 1, 124}, f \in BOOLEAN : [code |-> c, failed |-> f] \in [code : Int, failed : BOOLEAN]
    OBVIOUS
  <2> QED
    BY <2>1, NoneAssumption
<1>1. CASE Start \/ captureOutput
  <2>1. /\ pc # "returned" /\ pc' \in {"capture", "wait"} /\ UNCHANGED <<exit, expired, killed, result, report>>
    BY <1>1 DEF Start, captureOutput
  <2> QED
    BY <2>1 DEF CodeInv, Exited, Deadline, Result, Reported, ReportedCode
<1>2. CASE StartFails
  <2>1. result' = [code |-> -1, failed |-> TRUE] /\ result' # None
    BY <1>0, <1>2 DEF StartFails
  <2> QED
    BY <1>2, <2>1 DEF StartFails, CodeInv, Exited, Deadline, Result, Reported, ReportedCode
<1>3. CASE waitForCompletion
  <2>1. report = None /\ exit \in {-1, 0, 1} /\ exit # None
    BY <1>3 DEF waitForCompletion, CodeInv, Reported, Exited
  <2>2. result' # None /\ result'.code \in {-1, 0, 1, 124}
    <3>1. CASE exit = 0 /\ ~ killed
      BY <1>0, <1>3, <3>1 DEF waitForCompletion
    <3>2. CASE ~ (exit = 0 /\ ~ killed)
      <4> DEFINE c == IF expired THEN 124 ELSE exit
      <4>1. c \in {-1, 0, 1, 124} /\ result' = [code |-> c, failed |-> TRUE]
        BY <1>3, <2>1, <3>2 DEF waitForCompletion
      <4> QED
        BY <1>0, <4>1
    <3> QED
      BY <3>1, <3>2
  <2>3. Result'
    <3>1. CASE exit = 0 /\ ~ killed
      BY <1>3, <2>1, <3>1 DEF waitForCompletion, Result
    <3>2. CASE ~ (exit = 0 /\ ~ killed)
      BY <1>3, <2>1, <2>2, <3>2 DEF waitForCompletion, Result, CodeInv, Deadline
    <3> QED
      BY <3>1, <3>2
  <2> QED
    BY <1>3, <2>1, <2>2, <2>3 DEF waitForCompletion, CodeInv, Exited, Deadline, Reported, ReportedCode
<1>4. CASE Report
  <2>1. /\ pc = "returned" /\ Result /\ Deadline
        /\ UNCHANGED <<pc, exit, expired, killed, result>>
    BY <1>4 DEF Report, CodeInv
  <2>2. report'.code = IF result.failed /\ expired THEN 124 ELSE result.code
    BY <1>4 DEF Report
  <2>3. ReportedCode' /\ Reported'
    <3>1. CASE ~ result.failed
      BY <2>1, <2>2, <3>1 DEF Result, ReportedCode, Reported
    <3>2. CASE result.failed
      BY <2>1, <2>2, <3>2 DEF Result, ReportedCode, Deadline, Reported
    <3> QED
      BY <3>1, <3>2
  <2> QED
    BY <2>1, <2>3 DEF CodeInv, Exited, Deadline, Result
<1>5. CASE Command \/ Crash
  <2>1. CASE Write
    BY <2>1, SameCode DEF Write
  <2>2. CASE Exit \/ Crash
    <3>1. /\ pc # "start" /\ pc # "returned" /\ exit = None /\ exit' \in {-1, 0, 1}
          /\ UNCHANGED <<pc, expired, killed, result, report>>
      BY <2>2 DEF Exit, Crash, Running
    <3> QED
      BY <3>1 DEF CodeInv, Exited, Deadline, Result, Reported, ReportedCode
  <2> QED
    BY <1>5, <2>1, <2>2 DEF Command
<1>6. CASE \E s \in Streams : Scanner(s)
  BY <1>6, SameCode DEF Scanner, Scan, EndOfStream
<1>7. CASE Expire
  BY <1>7 DEF Expire, CodeInv, Exited, Deadline, Result, Reported, ReportedCode
<1>8. CASE Kill
  <2>1. /\ pc \in {"capture", "wait"} /\ expired /\ exit' = IF exit = None THEN -1 ELSE exit
        /\ UNCHANGED <<pc, expired, result, report>> /\ killed' = TRUE
    BY <1>8 DEF Kill
  <2>2. exit' \in {-1, 0, 1} /\ exit' # None
    BY <1>0, <2>1 DEF CodeInv, Exited
  <2> QED
    BY <2>1, <2>2 DEF CodeInv, Exited, Deadline, Result, Reported, ReportedCode
<1>9. CASE UNCHANGED vars
  BY <1>9, SameCode DEF vars
<1> QED
  BY <1>1, <1>2, <1>3, <1>4, <1>5, <1>6, <1>7, <1>8, <1>9 DEF Next, Executor

(* 0 is reported only for a command that ended with 0, and 124 for every   *)
(* command that was killed, even one that had ended before, and for no     *)
(* other unless its deadline has passed. *)
THEOREM ExitCodeReported == Spec => []ReportedCode
<1>1. CodeInv => ReportedCode
  BY DEF CodeInv
<1> QED
  BY <1>1, InitCode, CodeNext, PTL DEF Spec

--------------------------------------------------------------------------------
(* Pieces, in the order in which they are written. *)
FirstPiece(i) == [line |-> i, part |-> 1]

LEMMA ScriptFacts ==
    ASSUME script \in Scripts
    PROVE  /\ DOMAIN script \subseteq Nat
           /\ \A i \in DOMAIN script :
                 /\ script[i] \in [kind : Kinds, stream : Streams, size : Nat \ {0}]
                 /\ script[i].kind \in Kinds
                 /\ script[i].stream \in Streams
                 /\ script[i].size \in Nat \ {0}
<1> DEFINE L == [kind : Kinds, stream : Streams, size : Nat \ {0}]
<1>1. \A l \in L : l.kind \in Kinds /\ l.stream \in Streams /\ l.size \in Nat \ {0}
  OBVIOUS
<1>2. script \in Seq(L)
  BY ScriptsAssumption
<1> HIDE DEF L
<1>3. DOMAIN script \subseteq Nat /\ \A i \in DOMAIN script : script[i] \in L
  <2>1. DOMAIN script = 1..Len(script) /\ Len(script) \in Nat
    BY <1>2
  <2>2. \A i \in 1..Len(script) : script[i] \in L
    BY <1>2, ElementOfSeq
  <2> QED
    BY <2>1, <2>2
<1> QED
  BY <1>1, <1>3 DEF L

LEMMA PieceFacts ==
    ASSUME script \in Scripts
    PROVE  /\ \A p \in Pieces :
                 /\ p.line \in DOMAIN script
                 /\ p.part \in 1..script[p.line].size
                 /\ p = [line |-> p.line, part |-> p.part]
                 /\ script[p.line].stream \in Streams
           /\ \A i \in DOMAIN script :
                 /\ LastPiece(i) \in Pieces /\ LastPiece(i).line = i
                 /\ FirstPiece(i) \in Pieces /\ FirstPiece(i).line = i
           /\ \A p \in Pieces : Ends(p) <=> p = LastPiece(p.line)
<1>1. \A i \in DOMAIN script : script[i].size \in Nat \ {0} /\ script[i].stream \in Streams
  BY ScriptFacts
<1>2. ASSUME NEW p \in Pieces
      PROVE  /\ p.line \in DOMAIN script
             /\ p.part \in 1..script[p.line].size
             /\ p = [line |-> p.line, part |-> p.part]
             /\ script[p.line].stream \in Streams
             /\ Ends(p) <=> p = LastPiece(p.line)
  <2>1. PICK i \in DOMAIN script : p \in [line : {i}, part : 1..script[i].size]
    BY DEF Pieces
  <2>2. p.line = i /\ p.part \in 1..script[i].size /\ p = [line |-> p.line, part |-> p.part]
    BY <2>1
  <2> QED
    BY <1>1, <2>2 DEF Ends, LastPiece
<1>3. ASSUME NEW i \in DOMAIN script
      PROVE  /\ LastPiece(i) \in Pieces /\ LastPiece(i).line = i
             /\ FirstPiece(i) \in Pieces /\ FirstPiece(i).line = i
  <2>1. /\ LastPiece(i) \in [line : {i}, part : 1..script[i].size]
        /\ FirstPiece(i) \in [line : {i}, part : 1..script[i].size]
    BY <1>1 DEF LastPiece, FirstPiece
  <2> QED
    BY <2>1 DEF Pieces, LastPiece, FirstPiece
<1> QED
  BY <1>2, <1>3

LEMMA PieceOrder ==
    ASSUME script \in Scripts
    PROVE  /\ \A p, q \in Pieces : Before(p, q) => p # q /\ ~ Before(q, p)
           /\ \A p, q \in Pieces : p = q \/ Before(p, q) \/ Before(q, p)
           /\ \A p, q \in Pieces : p.line < q.line => Before(LastPiece(p.line), q)
           /\ \A p \in Pieces : p = LastPiece(p.line) \/ Before(p, LastPiece(p.line))
           /\ \A p \in Pieces : p = FirstPiece(p.line) \/ Before(FirstPiece(p.line), p)
<1>1. /\ \A p \in Pieces : /\ p.line \in DOMAIN script
                           /\ p.part \in 1..script[p.line].size
                           /\ p = [line |-> p.line, part |-> p.part]
      /\ \A i \in DOMAIN script : i \in Nat /\ script[i].size \in Nat \ {0}
  BY PieceFacts, ScriptFacts
<1>2. \A p \in Pieces : p.line \in Nat /\ p.part \in Nat /\ p.part >= 1 /\ p.part <= script[p.line].size
                        /\ script[p.line].size \in Nat
  BY <1>1
<1>3. ASSUME NEW p \in Pieces, NEW q \in Pieces
      PROVE  /\ Before(p, q) => p # q /\ ~ Before(q, p)
             /\ p = q \/ Before(p, q) \/ Before(q, p)
             /\ p.line < q.line => Before(LastPiece(p.line), q)
  <2>1. /\ p.line \in Nat /\ p.part \in Nat /\ q.line \in Nat /\ q.part \in Nat
        /\ p = [line |-> p.line, part |-> p.part] /\ q = [line |-> q.line, part |-> q.part]
    BY <1>1, <1>2
  <2>2. Before(p, q) => p # q /\ ~ Before(q, p)
    BY <2>1 DEF Before
  <2>3. p = q \/ Before(p, q) \/ Before(q, p)
    BY <2>1 DEF Before
  <2>4. p.line < q.line => Before(LastPiece(p.line), q)
    BY <2>1 DEF Before, LastPiece
  <2> QED
    BY <2>2, <2>3, <2>4
<1>4. ASSUME NEW p \in Pieces
      PROVE  /\ p = LastPiece(p.line) \/ Before(p, LastPiece(p.line))
             /\ p = FirstPiece(p.line) \/ Before(FirstPiece(p.line), p)
  <2>1. /\ p.line \in Nat /\ p.part \in Nat /\ p.part >= 1 /\ p.part <= script[p.line].size
        /\ script[p.line].size \in Nat /\ p = [line |-> p.line, part |-> p.part]
    BY <1>1, <1>2
  <2> QED
    BY <2>1 DEF Before, LastPiece, FirstPiece
<1> QED
  BY <1>3, <1>4

--------------------------------------------------------------------------------
(* Pipes: the command writes and the scanners read one piece after the     *)
(* other, and a pipe holds no more than it can. *)
PipesOK ==
    /\ script \in Scripts
    /\ written \subseteq Pieces
    /\ \A p \in written, q \in Pieces : Before(q, p) => q \in written
    /\ taken \subseteq written
    /\ \A p \in taken, q \in written :
          Before(q, p) /\ script[q.line].stream = script[p.line].stream => q \in taken
    /\ \A s \in Streams : IsFiniteSet(Piped(s)) /\ Cardinality(Piped(s)) <= PipeSize

LEMMA InitPipes == Init => PipesOK
<1> SUFFICES ASSUME Init PROVE PipesOK
  OBVIOUS
<1>1. \A s \in Streams : Piped(s) = {}
  BY DEF Init, Piped
<1>2. IsFiniteSet({}) /\ Cardinality({}) = 0 /\ 0 <= PipeSize
  BY FS_EmptySet, SizesAssumption
<1> QED
  BY <1>1, <1>2 DEF Init, PipesOK

LEMMA SamePipes ==
    ASSUME PipesOK, UNCHANGED <<script, written, taken>>
    PROVE  PipesOK' /\ \A s : Piped(s)' = Piped(s)
BY DEF PipesOK, Pieces, Piped, On, Before

LEMMA WritePipes ==
    ASSUME PipesOK, Write
    PROVE  PipesOK'
<1>1. PICK p \in Pieces \ written :
         /\ First(p, Pieces \ written)
         /\ Cardinality(Piped(script[p.line].stream)) < PipeSize
         /\ written' = written \cup {p}
  BY DEF Write
<1>2. script' = script /\ taken' = taken
  BY DEF Write, capture
<1>3. Pieces' = Pieces /\ \A s : \A q : On(q, s)' <=> On(q, s)
  BY <1>2 DEF Pieces, On
<1>4. \A q \in Pieces : Before(q, p) => q \in written
  BY <1>1 DEF First
<1>5. \A q \in Pieces : q = p \/ Before(q, p) => ~ Before(p, q)
  BY PieceOrder DEF PipesOK
<1>6. ASSUME NEW q \in written', NEW r \in Pieces, Before(r, q) PROVE r \in written'
  BY <1>1, <1>4, <1>6 DEF PipesOK
<1>7. ASSUME NEW q \in taken, NEW r \in written', Before(r, q), script[r.line].stream = script[q.line].stream
      PROVE  r \in taken
  <2>1. q \in written /\ q \in Pieces
    BY DEF PipesOK
  <2>2. r # p
    BY <1>1, <1>7, <2>1 DEF PipesOK
  <2> QED
    BY <1>1, <1>7, <2>2 DEF PipesOK
<1>8. ASSUME NEW s \in Streams PROVE (IsFiniteSet(Piped(s)) /\ Cardinality(Piped(s)) <= PipeSize)'
  <2>1. IsFiniteSet(Piped(s)) /\ Cardinality(Piped(s)) <= PipeSize /\ Cardinality(Piped(s)) \in Nat
    BY FS_CardinalityType DEF PipesOK
  <2>2. CASE On(p, s)
    <3>1. Piped(s)' = Piped(s) \cup {p}
      BY <1>1, <1>2, <1>3, <2>2 DEF Piped, PipesOK
    <3>2. Cardinality(Piped(s)) < PipeSize
      BY <1>1, <2>2 DEF On
    <3> DEFINE m == Cardinality(Piped(s) \cup {p})
    <3>3. IsFiniteSet(Piped(s) \cup {p}) /\ m \in {Cardinality(Piped(s)), Cardinality(Piped(s)) + 1}
      BY <2>1, FS_AddElement
    <3> HIDE DEF m
    <3>4. m <= PipeSize
      BY <2>1, <3>2, <3>3, SizesAssumption
    <3> QED
      BY <3>1, <3>3, <3>4 DEF m
  <2>3. CASE ~ On(p, s)
    <3>1. Piped(s)' = Piped(s)
      BY <1>1, <1>2, <1>3, <2>3 DEF Piped
    <3> QED
      BY <2>1, <3>1
  <2> QED
    BY <2>2, <2>3
<1> HIDE DEF Piped
<1>9. written' \subseteq Pieces /\ taken \subseteq written'
  BY <1>1 DEF PipesOK
<1> QED
  BY <1>2, <1>3, <1>6, <1>7, <1>8, <1>9 DEF PipesOK, Before

LEMMA TakePipes ==
    ASSUME PipesOK, NEW s \in Streams, NEW p \in Piped(s), First(p, Piped(s)),
           taken' = taken \cup {p}, UNCHANGED <<script, written>>
    PROVE  PipesOK' /\ \A t \in Streams : Piped(t)' = Piped(t) \ {p}
<1>1. p \in written /\ p \notin taken /\ script[p.line].stream = s
  BY DEF Piped, On
<1>2. Pieces' = Pieces /\ \A t : \A q : On(q, t)' <=> On(q, t)
  BY DEF Pieces, On
<1>3. \A t \in Streams : Piped(t)' = Piped(t) \ {p}
  BY <1>2 DEF Piped
<1>4. ASSUME NEW q \in taken', NEW r \in written, Before(r, q), script[r.line].stream = script[q.line].stream
      PROVE  r \in taken'
  <2>1. CASE q = p
    BY <1>1, <1>4, <2>1 DEF First, Piped, On
  <2>2. CASE q # p
    BY <1>4, <2>2 DEF PipesOK
  <2> QED
    BY <2>1, <2>2
<1>5. ASSUME NEW t \in Streams PROVE (IsFiniteSet(Piped(t)) /\ Cardinality(Piped(t)) <= PipeSize)'
  <2>1. IsFiniteSet(Piped(t)) /\ Cardinality(Piped(t)) <= PipeSize
    BY DEF PipesOK
  <2>2. /\ IsFiniteSet(Piped(t) \ {p})
        /\ Cardinality(Piped(t) \ {p}) \in Nat /\ Cardinality(Piped(t)) \in Nat
        /\ Cardinality(Piped(t) \ {p}) <= Cardinality(Piped(t))
    BY <2>1, FS_Subset, FS_CardinalityType
  <2>3. Cardinality(Piped(t) \ {p}) <= PipeSize
    BY <2>1, <2>2, SizesAssumption
  <2> QED
    BY <1>3, <2>2, <2>3
<1>6. taken' \subseteq written
  BY <1>1 DEF PipesOK
<1> QED
  BY <1>2, <1>3, <1>4, <1>5, <1>6 DEF PipesOK, Before

(* What has been read of a stream reaches up to some piece. *)
LEMMA TakenFacts ==
    ASSUME PipesOK
    PROVE  /\ \A p \in taken, q \in written :
                 q.line < p.line /\ script[q.line].stream = script[p.line].stream => q \in taken
           /\ \A p \in taken, i \in DOMAIN script :
                 i < p.line /\ script[i].stream = script[p.line].stream => LastPiece(i) \in taken
           /\ \A q \in written : LastPiece(q.line) \in taken => q \in taken
           /\ \A q \in written : FirstPiece(q.line) \in written
           /\ \A q \in taken : FirstPiece(q.line) \in taken
<1>1. /\ script \in Scripts /\ written \subseteq Pieces /\ taken \subseteq written
      /\ \A p \in written, q \in Pieces : Before(q, p) => q \in written
      /\ \A p \in taken, q \in written :
            Before(q, p) /\ script[q.line].stream = script[p.line].stream => q \in taken
  BY DEF PipesOK
<1>2. ASSUME NEW p \in taken, NEW q \in written, q.line < p.line,
             script[q.line].stream = script[p.line].stream
      PROVE  q \in taken
  BY <1>1, <1>2 DEF Before
<1>3. ASSUME NEW p \in taken, NEW i \in DOMAIN script, i < p.line,
             script[i].stream = script[p.line].stream
      PROVE  LastPiece(i) \in taken
  <2>1. p \in Pieces /\ LastPiece(i) \in Pieces /\ LastPiece(i).line = i
    BY <1>1, PieceFacts
  <2>2. Before(LastPiece(i), p)
    BY <1>3, <2>1 DEF Before
  <2> QED
    BY <1>1, <1>3, <2>1, <2>2
<1>4. ASSUME NEW q \in written
      PROVE  /\ LastPiece(q.line) \in taken => q \in taken
             /\ FirstPiece(q.line) \in written
             /\ q \in taken => FirstPiece(q.line) \in taken
  <2>1. /\ q \in Pieces /\ q.line \in DOMAIN script
        /\ FirstPiece(q.line) \in Pieces /\ FirstPiece(q.line).line = q.line
        /\ LastPiece(q.line).line = q.line
    BY <1>1, PieceFacts
  <2>2. /\ q = LastPiece(q.line) \/ Before(q, LastPiece(q.line))
        /\ q = FirstPiece(q.line) \/ Before(FirstPiece(q.line), q)
    BY <1>1, <2>1, PieceOrder
  <2>3. FirstPiece(q.line) \in written
    BY <1>1, <2>1, <2>2
  <2> QED
    BY <1>1, <2>1, <2>2, <2>3
<1> QED
  BY <1>1, <1>2, <1>3, <1>4

(* The lines that can be in the output. *)
OutputLines == UNION {{Line(i)} \cup Remnants(i) : i \in DOMAIN script}

LEMMA LineFacts ==
    /\ \A i \in DOMAIN script :
          /\ Line(i) \in OutputLines /\ Line(i).line = i /\ ~ Line(i).cut
          /\ Line(i).kind = script[i].kind /\ Line(i).stream = script[i].stream
    /\ \A i \in DOMAIN script : \A l \in Remnants(i) :
          l \in OutputLines /\ l.line = i /\ l.cut /\ l.stream = script[i].stream
    /\ \A l \in OutputLines :
          /\ l.line \in DOMAIN script
          /\ l.stream = script[l.line].stream
          /\ l.cut \in BOOLEAN
          /\ IF l.cut THEN l \in Remnants(l.line) ELSE l = Line(l.line)
<1>1. ASSUME NEW i
      PROVE  /\ Line(i).line = i /\ Line(i).cut = FALSE
             /\ Line(i).kind = script[i].kind /\ Line(i).stream = script[i].stream
  BY DEF Line
<1>2. ASSUME NEW i, NEW l \in Remnants(i)
      PROVE  l.line = i /\ l.cut = TRUE /\ l.stream = script[i].stream
  <2>1. PICK k : l = [Line(i) EXCEPT !.cut = TRUE, !.kind = k]
    BY DEF Remnants
  <2> QED
    BY <2>1 DEF Line
<1>3. \A i \in DOMAIN script : Line(i) \in OutputLines /\ Remnants(i) \subseteq OutputLines
  BY DEF OutputLines
<1>4. ASSUME NEW l \in OutputLines
      PROVE  /\ l.line \in DOMAIN script
             /\ l.stream = script[l.line].stream
             /\ l.cut \in BOOLEAN
             /\ IF l.cut THEN l \in Remnants(l.line) ELSE l = Line(l.line)
  <2>1. PICK i \in DOMAIN script : l = Line(i) \/ l \in Remnants(i)
    BY DEF OutputLines
  <2>2. CASE l = Line(i)
    BY <1>1, <2>2
  <2>3. CASE l \in Remnants(i)
    <3>1. l.line = i /\ l.cut = TRUE /\ l.stream = script[i].stream
      BY <1>2, <2>3
    <3> QED
      BY <2>3, <3>1
  <2> QED
    BY <2>1, <2>2, <2>3
<1> QED
  BY <1>1, <1>2, <1>3, <1>4

LEMMA AppendPlaces ==
    ASSUME NEW L, NEW o \in Seq(L), NEW l \in L
    PROVE  /\ Append(o, l) \in Seq(L)
           /\ DOMAIN o \subseteq Nat
           /\ DOMAIN Append(o, l) = DOMAIN o \cup {Len(o) + 1}
           /\ Append(o, l)[Len(o) + 1] = l
           /\ \A k \in DOMAIN o : k < Len(o) + 1 /\ Append(o, l)[k] = o[k]
<1>1. /\ Append(o, l) \in Seq(L)
      /\ Len(Append(o, l)) = Len(o) + 1 /\ Len(o) \in Nat
      /\ DOMAIN o = 1..Len(o) /\ DOMAIN Append(o, l) = 1..(Len(o) + 1)
      /\ \A k \in 1..Len(o) : Append(o, l)[k] = o[k]
      /\ Append(o, l)[Len(o) + 1] = l
  BY AppendProperties
<1> QED
  BY <1>1

(* The output holds the lines of a stream in their order: those that were  *)
(* read to their end, and at the end of the stream what is left of one. *)
PlacesOK ==
    /\ output \in Seq(OutputLines)
    /\ \A k, m \in DOMAIN output :
          output[k].stream = output[m].stream /\ k < m => output[k].line < output[m].line
    /\ \A k \in DOMAIN output :
          IF output[k].cut
            THEN /\ scanner[output[k].stream] = "done"
                 /\ LastPiece(output[k].line) \notin written
                 /\ FirstPiece(output[k].line) \in taken
            ELSE LastPiece(output[k].line) \in taken
    /\ \A i \in DOMAIN script :
          LastPiece(i) \in taken => ~ Overlong(i) /\ \E k \in DOMAIN output : output[k].line = i

(* A scanner that reads has seen the end of every line that is too long    *)
(* for it; one that is done has handed on every line it began; one that    *)
(* gave up has stopped in the middle of a line that is too long. *)
Done(s) ==
    exit # None /\ Piped(s) = {}
    /\ \A p \in taken : On(p, s) => \E k \in DOMAIN output : output[k].line = p.line
GivenUp(s) ==
    \E p \in taken : /\ On(p, s) /\ p.part >= TokenSize /\ LastPiece(p.line) \notin taken
                     /\ \A q \in taken : On(q, s) => q.line <= p.line
ScannersOK ==
    /\ scanner \in [Streams -> {"reads", "done", "gaveUp"}]
    /\ \A s \in Streams :
          /\ scanner[s] = "reads" => \A p \in taken : On(p, s) /\ ~ Ends(p) => p.part < TokenSize
          /\ scanner[s] = "done" => Done(s)
          /\ scanner[s] = "gaveUp" => GivenUp(s)

Captured == PipesOK /\ PlacesOK /\ ScannersOK

LEMMA InitCaptured == Init => Captured
<1> SUFFICES ASSUME Init PROVE Captured
  OBVIOUS
<1>1. PipesOK
  BY InitPipes
<1>2. PlacesOK
  BY DEF Init, PlacesOK
<1>3. ScannersOK
  BY DEF Init, ScannersOK
<1> QED
  BY <1>1, <1>2, <1>3 DEF Captured

LEMMA SameCaptured ==
    ASSUME Captured, UNCHANGED <<script, written, taken, scanner, output>>, exit # None => exit' # None
    PROVE  Captured'
<1>1. PipesOK' /\ \A s : Piped(s)' = Piped(s)
  BY SamePipes DEF Captured
<1>2. PlacesOK'
  <2>1. OutputLines' = OutputLines
    BY DEF OutputLines, Line, Remnants
  <2> QED
    BY <2>1 DEF Captured, PlacesOK, LastPiece, FirstPiece, Overlong
<1>3. \A s \in Streams : (Done(s) => Done(s)') /\ (GivenUp(s) => GivenUp(s)')
  BY <1>1 DEF Done, GivenUp, On, LastPiece
<1>4. ScannersOK'
  BY <1>3 DEF Captured, ScannersOK, On, Ends
<1> QED
  BY <1>1, <1>2, <1>4 DEF Captured

LEMMA WriteCaptured ==
    ASSUME Captured, Write
    PROVE  Captured'
<1>1. PipesOK'
  BY WritePipes DEF Captured
<1>2. PICK p \in Pieces \ written : written' = written \cup {p}
  BY DEF Write
<1>3. UNCHANGED <<script, exit, taken, scanner, output>> /\ exit = None
  BY DEF Write, capture, Running
<1>4. \A s \in Streams : scanner[s] # "done"
  BY <1>3 DEF Captured, ScannersOK, Done
<1>5. PlacesOK'
  <2>1. \A k \in DOMAIN output : ~ output[k].cut
    <3>1. ASSUME NEW k \in DOMAIN output PROVE output[k].stream \in Streams
      <4>1. output[k] \in OutputLines
        BY DEF Captured, PlacesOK
      <4>2. script \in Scripts
        BY DEF Captured, PipesOK
      <4> QED
        BY <4>1, <4>2, LineFacts, ScriptFacts
    <3> QED
      BY <1>4, <3>1 DEF Captured, PlacesOK
  <2>2. OutputLines' = OutputLines
    BY <1>3 DEF OutputLines, Line, Remnants
  <2> QED
    BY <1>3, <2>1, <2>2 DEF Captured, PlacesOK, LastPiece, Overlong
<1>6. \A s \in Streams : GivenUp(s) => GivenUp(s)'
  BY <1>3 DEF GivenUp, On, LastPiece
<1>7. ScannersOK'
  BY <1>3, <1>4, <1>6 DEF Captured, ScannersOK, On, Ends
<1> QED
  BY <1>1, <1>5, <1>7 DEF Captured

(* A scanner takes the next piece of its stream: what it has read before.  *)
LEMMA NextPiece ==
    ASSUME Captured, NEW s \in Streams, scanner[s] = "reads", NEW p \in Piped(s), First(p, Piped(s))
    PROVE  /\ p \in Pieces /\ p.line \in DOMAIN script /\ script[p.line].stream = s
           /\ p \in written /\ p \notin taken
           /\ Ends(p) <=> p = LastPiece(p.line)
           /\ \A k \in DOMAIN output :
                 output[k].stream = s => ~ output[k].cut /\ output[k].line < p.line
           /\ \A q \in taken : On(q, s) => q.line <= p.line
           /\ Ends(p) => ~ Overlong(p.line)
<1>1. /\ script \in Scripts /\ written \subseteq Pieces /\ taken \subseteq written /\ PipesOK
      /\ \A q \in written, r \in Pieces : Before(r, q) => r \in written
  BY DEF Captured, PipesOK
<1>2. p \in written /\ p \notin taken /\ p \in Pieces /\ script[p.line].stream = s
  BY <1>1 DEF Piped, On
<1>3. p.line \in DOMAIN script /\ (Ends(p) <=> p = LastPiece(p.line)) /\ p.line \in Nat
      /\ p.part \in 1..script[p.line].size /\ script[p.line].size \in Nat
      /\ p = [line |-> p.line, part |-> p.part]
  BY <1>1, <1>2, PieceFacts, ScriptFacts
<1>4. \A q \in taken : q \in written /\ q \in Pieces /\ q.line \in DOMAIN script /\ q.line \in Nat
  BY <1>1, PieceFacts, ScriptFacts
<1>5. ASSUME NEW q \in taken, On(q, s) PROVE q.line <= p.line
  <2>1. ~ (p.line < q.line)
    BY <1>1, <1>2, <1>5, TakenFacts DEF On
  <2> QED
    BY <1>3, <1>4, <2>1
<1>6. ASSUME NEW k \in DOMAIN output, output[k].stream = s
      PROVE  ~ output[k].cut /\ output[k].line < p.line
  <2>1. output[k] \in OutputLines
    BY DEF Captured, PlacesOK
  <2>2. /\ output[k].line \in DOMAIN script /\ script[output[k].line].stream = s
        /\ output[k].line \in Nat
    BY <1>1, <1>6, <2>1, LineFacts, ScriptFacts
  <2>3. ~ output[k].cut /\ LastPiece(output[k].line) \in taken
    BY <1>6 DEF Captured, PlacesOK
  <2>4. LastPiece(output[k].line).line = output[k].line /\ On(LastPiece(output[k].line), s)
    BY <1>1, <2>2, PieceFacts DEF On
  <2>5. output[k].line <= p.line
    BY <1>5, <2>3, <2>4
  <2>6. output[k].line # p.line
    BY <1>1, <1>2, <2>3, TakenFacts
  <2> QED
    BY <1>3, <2>2, <2>3, <2>5, <2>6
<1>7. ASSUME Ends(p) PROVE ~ Overlong(p.line)
  <2>1. p.part = script[p.line].size
    BY <1>7 DEF Ends
  <2>2. CASE p.part = 1
    BY <2>1, <2>2, SizesAssumption DEF Overlong
  <2>3. CASE p.part # 1
    <3> DEFINE q == [line |-> p.line, part |-> p.part - 1]
    <3>1. p.part - 1 \in 1..script[p.line].size
      BY <1>3, <2>3
    <3>2. q \in [line : {p.line}, part : 1..script[p.line].size]
      BY <3>1
    <3>3. q \in Pieces
      BY <1>3, <3>2 DEF Pieces
    <3>4. q.line = p.line /\ q.part = p.part - 1
      OBVIOUS
    <3>5. Before(q, p)
      BY <1>3, <3>4 DEF Before
    <3>6. On(q, s) /\ ~ Ends(q)
      BY <1>2, <1>3, <2>1, <3>4 DEF On, Ends
    <3> HIDE DEF q
    <3>7. q \in taken
      BY <1>1, <1>2, <3>3, <3>5, <3>6 DEF First, Piped
    <3>8. p.part - 1 < TokenSize
      BY <3>4, <3>6, <3>7 DEF Captured, ScannersOK
    <3> QED
      BY <1>3, <2>1, <3>8, SizesAssumption DEF Overlong
  <2> QED
    BY <2>2, <2>3
<1> QED
  BY <1>2, <1>3, <1>5, <1>6, <1>7

LEMMA ScanCaptured ==
    ASSUME Captured, NEW s \in Streams, Scan(s)
    PROVE  Captured'
<1>1. scanner[s] = "reads" /\ UNCHANGED <<script, written, exit>>
  BY DEF Scan, command
<1>2. PICK p \in Piped(s) :
        /\ First(p, Piped(s))
        /\ taken' = taken \cup {p}
        /\ output' = IF Ends(p) THEN Append(output, Line(p.line)) ELSE output
        /\ scanner' = IF ~ Ends(p) /\ p.part >= TokenSize
                        THEN [scanner EXCEPT ![s] = "gaveUp"] ELSE scanner
  BY DEF Scan
<1>3. /\ p \in Pieces /\ p.line \in DOMAIN script /\ script[p.line].stream = s
      /\ p \in written /\ p \notin taken
      /\ Ends(p) <=> p = LastPiece(p.line)
      /\ \A k \in DOMAIN output :
            output[k].stream = s => ~ output[k].cut /\ output[k].line < p.line
      /\ \A q \in taken : On(q, s) => q.line <= p.line
      /\ Ends(p) => ~ Overlong(p.line)
  BY <1>1, <1>2, NextPiece
<1>4. PipesOK' /\ \A t \in Streams : Piped(t)' = Piped(t) \ {p}
  BY <1>1, <1>2, TakePipes DEF Captured
<1>5. /\ script \in Scripts /\ taken \subseteq written /\ written \subseteq Pieces /\ PipesOK
      /\ scanner \in [Streams -> {"reads", "done", "gaveUp"}]
  BY DEF Captured, PipesOK, ScannersOK
<1>6. OutputLines' = OutputLines /\ \A i : LastPiece(i)' = LastPiece(i) /\ (Overlong(i)' <=> Overlong(i))
  BY <1>1 DEF OutputLines, Line, Remnants, LastPiece, Overlong
<1>7. /\ Line(p.line) \in OutputLines /\ Line(p.line).line = p.line
      /\ ~ Line(p.line).cut /\ Line(p.line).stream = s
  BY <1>3, LineFacts
<1>8. \A t \in Streams : t # s => scanner'[t] = scanner[t]
  BY <1>2, <1>5
<1>9. /\ output \in Seq(OutputLines)
      /\ \A k, m \in DOMAIN output :
            output[k].stream = output[m].stream /\ k < m => output[k].line < output[m].line
      /\ \A k \in DOMAIN output :
            IF output[k].cut
              THEN /\ scanner[output[k].stream] = "done"
                   /\ LastPiece(output[k].line) \notin written
                   /\ FirstPiece(output[k].line) \in taken
              ELSE LastPiece(output[k].line) \in taken
      /\ \A i \in DOMAIN script :
            LastPiece(i) \in taken => ~ Overlong(i) /\ \E k \in DOMAIN output : output[k].line = i
  BY DEF Captured, PlacesOK
<1>10. \A k \in DOMAIN output : output[k].stream \in Streams
  <2>1. \A k \in DOMAIN output : output[k] \in OutputLines
    BY <1>9
  <2> QED
    BY <1>5, <2>1, LineFacts, ScriptFacts
<1>11. \A k \in DOMAIN output : output[k].cut => scanner'[output[k].stream] = "done"
  BY <1>3, <1>8, <1>9, <1>10
<1> DEFINE new == Len(output) + 1
<1>12. Ends(p) => /\ output' \in Seq(OutputLines)
                  /\ DOMAIN output \subseteq Nat
                  /\ DOMAIN output' = DOMAIN output \cup {new}
                  /\ output'[new] = Line(p.line)
                  /\ \A k \in DOMAIN output : k < new /\ output'[k] = output[k]
  BY <1>2, <1>7, <1>9, AppendPlaces
<1>13. new \in Nat
  BY <1>9
<1> HIDE DEF new
<1>14. /\ DOMAIN output \subseteq DOMAIN output'
       /\ \A k \in DOMAIN output : output'[k] = output[k]
  BY <1>2, <1>12
<1>15. \A i \in DOMAIN script : LastPiece(i) \in taken' =>
          ~ Overlong(i) /\ \E k \in DOMAIN output' : output'[k].line = i
  <2> SUFFICES ASSUME NEW i \in DOMAIN script, LastPiece(i) \in taken'
               PROVE  ~ Overlong(i) /\ \E k \in DOMAIN output' : output'[k].line = i
    OBVIOUS
  <2>1. CASE LastPiece(i) \in taken
    BY <1>9, <1>14, <2>1
  <2>2. CASE LastPiece(i) = p
    <3>1. p.line = i
      BY <1>5, <2>2, PieceFacts
    <3> QED
      BY <1>3, <1>7, <1>12, <2>2, <3>1
  <2> QED
    BY <1>2, <2>1, <2>2
<1>16. PlacesOK'
  <2>1. CASE ~ Ends(p)
    <3>1. output' = output
      BY <1>2, <2>1
    <3>2. \A k \in DOMAIN output :
            IF output[k].cut
              THEN /\ scanner'[output[k].stream] = "done"
                   /\ LastPiece(output[k].line) \notin written
                   /\ FirstPiece(output[k].line) \in taken'
              ELSE LastPiece(output[k].line) \in taken'
      BY <1>2, <1>9, <1>11
    <3> QED
      BY <1>1, <1>6, <1>9, <1>15, <3>1, <3>2 DEF PlacesOK, LastPiece
  <2>2. CASE Ends(p)
    <3>1. ASSUME NEW k \in DOMAIN output', NEW m \in DOMAIN output',
                 output'[k].stream = output'[m].stream, k < m
          PROVE  output'[k].line < output'[m].line
      <4>1. k # new
        BY <1>12, <1>13, <2>2, <3>1
      <4>2. CASE m = new
        BY <1>3, <1>7, <1>12, <2>2, <3>1, <4>1, <4>2
      <4>3. CASE m # new
        BY <1>9, <1>12, <2>2, <3>1, <4>1, <4>3
      <4> QED
        BY <4>2, <4>3
    <3>2. ASSUME NEW k \in DOMAIN output'
          PROVE  IF output'[k].cut
                   THEN /\ scanner'[output'[k].stream] = "done"
                        /\ LastPiece(output'[k].line) \notin written
                        /\ FirstPiece(output'[k].line) \in taken'
                   ELSE LastPiece(output'[k].line) \in taken'
      <4>1. CASE k = new
        BY <1>2, <1>3, <1>7, <1>12, <2>2, <4>1
      <4>2. CASE k # new
        <5>1. k \in DOMAIN output /\ output'[k] = output[k]
          BY <1>12, <2>2, <4>2
        <5> QED
          BY <1>2, <1>9, <1>11, <5>1
      <4> QED
        BY <4>1, <4>2
    <3> QED
      BY <1>1, <1>6, <1>12, <1>15, <2>2, <3>1, <3>2 DEF PlacesOK, LastPiece
  <2> QED
    BY <2>1, <2>2
<1>17. ASSUME NEW t \in Streams
       PROVE  /\ scanner'[t] = "reads" => \A q \in taken' : On(q, t) /\ ~ Ends(q) => q.part < TokenSize
              /\ scanner'[t] = "done" => Done(t)'
              /\ scanner'[t] = "gaveUp" => GivenUp(t)'
  <2>1. CASE t # s
    <3>1. ~ On(p, t) /\ scanner'[t] = scanner[t]
      BY <1>3, <1>8, <2>1 DEF On
    <3>2. scanner[t] = "reads" => \A q \in taken : On(q, t) /\ ~ Ends(q) => q.part < TokenSize
      BY DEF Captured, ScannersOK
    <3>3. scanner[t] = "done" => Done(t)'
      <4>1. scanner[t] = "done" => Done(t)
        BY DEF Captured, ScannersOK
      <4> QED
        BY <1>1, <1>2, <1>4, <1>14, <3>1, <4>1 DEF Done, On
    <3>4. scanner[t] = "gaveUp" => GivenUp(t)'
      <4> SUFFICES ASSUME scanner[t] = "gaveUp" PROVE GivenUp(t)'
        OBVIOUS
      <4>1. PICK w \in taken : /\ On(w, t) /\ w.part >= TokenSize /\ LastPiece(w.line) \notin taken
                               /\ \A q \in taken : On(q, t) => q.line <= w.line
        BY DEF Captured, ScannersOK, GivenUp
      <4>2. w \in Pieces /\ w.line \in DOMAIN script /\ LastPiece(w.line).line = w.line
        BY <1>5, PieceFacts
      <4>3. LastPiece(w.line) # p
        BY <3>1, <4>1, <4>2 DEF On
      <4> QED
        BY <1>1, <1>2, <1>6, <3>1, <4>1, <4>3 DEF GivenUp, On, LastPiece
    <3> QED
      BY <1>2, <3>1, <3>2, <3>3, <3>4
  <2>2. CASE t = s
    <3>1. CASE ~ Ends(p) /\ p.part >= TokenSize
      <4>1. scanner'[t] = "gaveUp"
        BY <1>2, <1>5, <2>2, <3>1
      <4>2. LastPiece(p.line) \notin taken
        BY <1>3, <1>5, TakenFacts
      <4>3. p.line \in Nat
        BY <1>3, <1>5, ScriptFacts
      <4>4. /\ p \in taken' /\ On(p, t) /\ p.part >= TokenSize /\ LastPiece(p.line) \notin taken'
            /\ \A q \in taken' : On(q, t) => q.line <= p.line
        BY <1>2, <1>3, <2>2, <3>1, <4>2, <4>3 DEF On
      <4>5. GivenUp(t)'
        BY <1>1, <4>4 DEF GivenUp, On, LastPiece
      <4> QED
        BY <4>1, <4>5
    <3>2. CASE Ends(p) \/ ~ (p.part >= TokenSize)
      <4>1. scanner'[t] = "reads"
        BY <1>1, <1>2, <2>2, <3>2
      <4>2. \A q \in taken : On(q, t) /\ ~ Ends(q) => q.part < TokenSize
        BY <1>1, <2>2 DEF Captured, ScannersOK
      <4>3. ~ Ends(p) => p.part < TokenSize
        <5>1. p.part \in 1..script[p.line].size
          BY <1>3, <1>5, PieceFacts
        <5>2. p.part \in Nat
          BY <5>1
        <5> QED
          BY <3>2, <5>2, SizesAssumption
      <4> QED
        BY <1>2, <4>1, <4>2, <4>3
    <3> QED
      BY <3>1, <3>2
  <2> QED
    BY <2>1, <2>2
<1>18. ScannersOK'
  <2>1. scanner' \in [Streams -> {"reads", "done", "gaveUp"}]
    BY <1>2, <1>5
  <2> QED
    BY <1>1, <1>17, <2>1 DEF ScannersOK, On, Ends
<1> QED
  BY <1>4, <1>16, <1>18 DEF Captured

(* What is left of the stream is of one line at most, which comes after    *)
(* every line of the stream that is in the output. *)
LEMMA OneRemnant ==
    ASSUME Captured, NEW s \in Streams, scanner[s] = "reads", Piped(s) = {}, NEW p \in Held(s)
    PROVE  /\ p.line \in DOMAIN script /\ script[p.line].stream = s
           /\ p \in taken /\ LastPiece(p.line) \notin written
           /\ \A q \in Held(s) : q.line = p.line
           /\ \A k \in DOMAIN output : output[k].stream = s => output[k].line < p.line
<1>1. /\ script \in Scripts /\ written \subseteq Pieces /\ taken \subseteq written /\ PipesOK
  BY DEF Captured, PipesOK
<1>2. \A q \in Held(s) : /\ q \in taken /\ script[q.line].stream = s /\ LastPiece(q.line) \notin taken
                         /\ q.line \in DOMAIN script /\ q.line \in Nat
  BY <1>1, PieceFacts, ScriptFacts DEF Held, On
<1>3. LastPiece(p.line) \notin written
  <2>1. On(LastPiece(p.line), s)
    BY <1>1, <1>2, PieceFacts DEF On
  <2> QED
    BY <1>2, <2>1 DEF Piped
<1>4. ASSUME NEW q \in Held(s) PROVE q.line = p.line
  <2>1. ~ (q.line < p.line) /\ ~ (p.line < q.line)
    BY <1>1, <1>2, TakenFacts
  <2> QED
    BY <1>2, <2>1
<1>5. ASSUME NEW k \in DOMAIN output, output[k].stream = s
      PROVE  output[k].line < p.line
  <2>1. output[k] \in OutputLines
    BY DEF Captured, PlacesOK
  <2>2. /\ output[k].line \in DOMAIN script /\ script[output[k].line].stream = s
        /\ output[k].line \in Nat
    BY <1>1, <1>5, <2>1, LineFacts, ScriptFacts
  <2>3. LastPiece(output[k].line) \in taken
    BY <1>5 DEF Captured, PlacesOK
  <2>4. LastPiece(output[k].line).line = output[k].line
    BY <1>1, <2>2, PieceFacts
  <2>5. ~ (p.line < output[k].line)
    BY <1>1, <1>2, <2>2, <2>3, <2>4, TakenFacts
  <2> QED
    BY <1>2, <2>2, <2>3, <2>5
<1> QED
  BY <1>2, <1>3, <1>4, <1>5

LEMMA EndOfStreamCaptured ==
    ASSUME Captured, NEW s \in Streams, EndOfStream(s)
    PROVE  Captured'
<1>1. /\ scanner[s] = "reads" /\ exit # None /\ Piped(s) = {}
      /\ scanner' = [scanner EXCEPT ![s] = "done"]
      /\ UNCHANGED <<script, written, exit, taken>>
  BY DEF EndOfStream, command
<1>2. PipesOK' /\ \A t : Piped(t)' = Piped(t)
  BY <1>1, SamePipes DEF Captured
<1>3. /\ script \in Scripts /\ taken \subseteq written /\ written \subseteq Pieces /\ PipesOK
      /\ scanner \in [Streams -> {"reads", "done", "gaveUp"}]
  BY DEF Captured, PipesOK, ScannersOK
<1>4. OutputLines' = OutputLines /\ \A i : LastPiece(i)' = LastPiece(i) /\ (Overlong(i)' <=> Overlong(i))
  BY <1>1 DEF OutputLines, Line, Remnants, LastPiece, Overlong
<1>5. /\ scanner' \in [Streams -> {"reads", "done", "gaveUp"}] /\ scanner'[s] = "done"
      /\ \A t \in Streams : t # s => scanner'[t] = scanner[t]
  BY <1>1, <1>3
<1>6. /\ output \in Seq(OutputLines)
      /\ \A k, m \in DOMAIN output :
            output[k].stream = output[m].stream /\ k < m => output[k].line < output[m].line
      /\ \A k \in DOMAIN output :
            IF output[k].cut
              THEN /\ scanner[output[k].stream] = "done"
                   /\ LastPiece(output[k].line) \notin written
                   /\ FirstPiece(output[k].line) \in taken
              ELSE LastPiece(output[k].line) \in taken
      /\ \A i \in DOMAIN script :
            LastPiece(i) \in taken => ~ Overlong(i) /\ \E k \in DOMAIN output : output[k].line = i
  BY DEF Captured, PlacesOK
<1>7. \A k \in DOMAIN output : output[k].cut => scanner'[output[k].stream] = "done"
  <2>1. \A k \in DOMAIN output : output[k] \in OutputLines
    BY <1>6
  <2>2. \A k \in DOMAIN output : output[k].stream \in Streams
    BY <1>3, <2>1, LineFacts, ScriptFacts
  <2> QED
    BY <1>5, <1>6, <2>2
<1>8. /\ PlacesOK'
      /\ \A k \in DOMAIN output : k \in DOMAIN output' /\ output'[k] = output[k]
      /\ \A p \in Held(s) : \E k \in DOMAIN output' : output'[k].line = p.line
  <2>1. CASE Held(s) = {} /\ output' = output
    BY <1>1, <1>4, <1>6, <1>7, <2>1 DEF PlacesOK, LastPiece
  <2>2. CASE \E p \in Held(s) : \E l \in Remnants(p.line) : output' = Append(output, l)
    <3>0. PICK p \in Held(s) : \E l \in Remnants(p.line) : output' = Append(output, l)
      BY <2>2
    <3>1. PICK l \in Remnants(p.line) : output' = Append(output, l)
      BY <3>0
    <3>2. /\ p.line \in DOMAIN script /\ script[p.line].stream = s
          /\ p \in taken /\ LastPiece(p.line) \notin written
          /\ \A q \in Held(s) : q.line = p.line
          /\ \A k \in DOMAIN output : output[k].stream = s => output[k].line < p.line
      BY <1>1, OneRemnant
    <3>3. l \in OutputLines /\ l.line = p.line /\ l.cut /\ l.stream = s
      BY <3>2, LineFacts
    <3> DEFINE new == Len(output) + 1
    <3>4. /\ output' \in Seq(OutputLines)
          /\ DOMAIN output \subseteq Nat
          /\ DOMAIN output' = DOMAIN output \cup {new}
          /\ output'[new] = l
          /\ \A k \in DOMAIN output : k < new /\ output'[k] = output[k]
      BY <1>6, <3>1, <3>3, AppendPlaces
    <3>5. new \in Nat
      BY <1>6
    <3> HIDE DEF new
    <3>6. FirstPiece(p.line) \in taken
      BY <1>3, <3>2, TakenFacts
    <3>7. ASSUME NEW k \in DOMAIN output', NEW m \in DOMAIN output',
                 output'[k].stream = output'[m].stream, k < m
          PROVE  output'[k].line < output'[m].line
      <4>1. k # new
        BY <3>4, <3>5, <3>7
      <4>2. CASE m = new
        BY <3>2, <3>3, <3>4, <3>7, <4>1, <4>2
      <4>3. CASE m # new
        BY <1>6, <3>4, <3>7, <4>1, <4>3
      <4> QED
        BY <4>2, <4>3
    <3>8. ASSUME NEW k \in DOMAIN output'
          PROVE  IF output'[k].cut
                   THEN /\ scanner'[output'[k].stream] = "done"
                        /\ LastPiece(output'[k].line) \notin written
                        /\ FirstPiece(output'[k].line) \in taken
                   ELSE LastPiece(output'[k].line) \in taken
      <4>1. CASE k = new
        BY <1>5, <3>2, <3>3, <3>4, <3>6, <4>1
      <4>2. CASE k # new
        <5>1. k \in DOMAIN output /\ output'[k] = output[k]
          BY <3>4, <4>2
        <5> QED
          BY <1>6, <1>7, <5>1
      <4> QED
        BY <4>1, <4>2
    <3>9. \A i \in DOMAIN script : LastPiece(i) \in taken =>
            ~ Overlong(i) /\ \E k \in DOMAIN output' : output'[k].line = i
      BY <1>6, <3>4
    <3>10. PlacesOK'
      BY <1>1, <1>4, <3>4, <3>7, <3>8, <3>9 DEF PlacesOK, LastPiece
    <3> QED
      BY <3>2, <3>3, <3>4, <3>10
  <2> QED
    BY <2>1, <2>2 DEF EndOfStream
<1>9. ASSUME NEW q \in taken, On(q, s) PROVE \E k \in DOMAIN output' : output'[k].line = q.line
  <2>1. CASE LastPiece(q.line) \in taken
    <3>1. q.line \in DOMAIN script
      BY <1>3, PieceFacts
    <3> QED
      BY <1>6, <1>8, <2>1, <3>1
  <2>2. CASE LastPiece(q.line) \notin taken
    BY <1>8, <1>9, <2>2 DEF Held
  <2> QED
    BY <2>1, <2>2
<1>10. Done(s)'
  BY <1>1, <1>2, <1>9 DEF Done, On
<1>11. ASSUME NEW t \in Streams
       PROVE  (Done(t) => Done(t)') /\ (GivenUp(t) => GivenUp(t)')
  BY <1>1, <1>2, <1>8 DEF Done, GivenUp, On, LastPiece
<1>12. ScannersOK'
  <2>1. ASSUME NEW t \in Streams
        PROVE  /\ scanner'[t] = "reads" => \A q \in taken : On(q, t) /\ ~ Ends(q) => q.part < TokenSize
               /\ scanner'[t] = "done" => Done(t)'
               /\ scanner'[t] = "gaveUp" => GivenUp(t)'
    <3>1. CASE t = s
      BY <1>5, <1>10, <3>1
    <3>2. CASE t # s
      BY <1>5, <1>11, <3>2 DEF Captured, ScannersOK
    <3> QED
      BY <3>1, <3>2
  <2> QED
    BY <1>1, <1>5, <2>1 DEF ScannersOK, On, Ends
<1> QED
  BY <1>2, <1>8, <1>12 DEF Captured

--------------------------------------------------------------------------------
(* Nothing is written or read before the command starts; it is waited for  *)
(* when no scanner reads any more. *)
Phase ==
    /\ pc = "start" => exit = None /\ written = {} /\ output = <<>>
    /\ pc = "wait" => \A s \in Streams : scanner[s] # "reads"
    /\ pc = "returned" => (\A s \in Streams : scanner[s] # "reads") \/ (written = {} /\ output = <<>>)

CaptureInv == Captured /\ Phase

LEMMA InitCapture == Init => CaptureInv
BY InitCaptured DEF Init, CaptureInv, Phase

LEMMA SameCapture ==
    ASSUME CaptureInv, UNCHANGED <<script, pc, written, taken, scanner, output>>,
           exit # None => exit' # None, pc = "start" => exit' = exit
    PROVE  CaptureInv'
<1>1. Captured'
  BY SameCaptured DEF CaptureInv
<1> QED
  BY <1>1 DEF CaptureInv, Phase

LEMMA CaptureNext == CaptureInv /\ [Next]_vars => CaptureInv'
<1> SUFFICES ASSUME CaptureInv, [Next]_vars PROVE CaptureInv'
  OBVIOUS
<1>1. CASE Start \/ StartFails \/ captureOutput \/ waitForCompletion
  <2>1. UNCHANGED <<script, written, exit, taken, scanner, output>>
    BY <1>1 DEF Start, StartFails, captureOutput, waitForCompletion, command, capture
  <2>2. Captured'
    BY <2>1, SameCaptured DEF CaptureInv
  <2>3. Phase'
    <3>1. CASE Start
      BY <2>1, <3>1 DEF Start, Phase
    <3>2. CASE StartFails
      BY <2>1, <3>2 DEF StartFails, Phase, CaptureInv
    <3>3. CASE captureOutput
      BY <2>1, <3>3 DEF captureOutput, Phase
    <3>4. CASE waitForCompletion
      BY <2>1, <3>4 DEF waitForCompletion, Phase, CaptureInv
    <3> QED
      BY <1>1, <3>1, <3>2, <3>3, <3>4
  <2> QED
    BY <2>2, <2>3 DEF CaptureInv
<1>2. CASE Report \/ Expire \/ UNCHANGED vars
  <2>1. UNCHANGED <<script, pc, written, taken, scanner, output, exit>>
    BY <1>2 DEF Report, Expire, vars, command, capture
  <2> QED
    BY <2>1, SameCapture
<1>3. CASE Write
  <2>1. Captured' /\ pc \notin {"start", "returned"} /\ UNCHANGED <<pc, scanner>>
    BY <1>3, WriteCaptured DEF CaptureInv, Write, Running, capture
  <2> QED
    BY <2>1 DEF CaptureInv, Phase
<1>4. CASE Exit \/ Crash \/ Kill
  <2>1. /\ pc \notin {"start", "returned"} /\ exit' # None
        /\ UNCHANGED <<script, pc, written, taken, scanner, output>>
    BY <1>4, NoneAssumption DEF Exit, Crash, Kill, Running, capture
  <2> QED
    BY <2>1, SameCapture
<1>5. CASE \E s \in Streams : Scanner(s)
  <2>1. PICK s \in Streams : Scan(s) \/ EndOfStream(s)
    BY <1>5 DEF Scanner
  <2>2. Captured' /\ pc' = "capture"
    BY <2>1, ScanCaptured, EndOfStreamCaptured DEF CaptureInv, Scan, EndOfStream
  <2> QED
    BY <2>2 DEF CaptureInv, Phase
<1> QED
  BY <1>1, <1>2, <1>3, <1>4, <1>5 DEF Next, Executor, Command

LEMMA PlaceFacts ==
    ASSUME Captured, NEW k \in DOMAIN output
    PROVE  /\ output[k].line \in DOMAIN script
           /\ output[k].stream = script[output[k].line].stream
           /\ output[k].stream \in Streams
           /\ IF output[k].cut THEN output[k] \in Remnants(output[k].line)
                               ELSE output[k] = Line(output[k].line)
<1>1. output[k] \in OutputLines /\ script \in Scripts
  BY DEF Captured, PlacesOK, PipesOK
<1> QED
  BY <1>1, LineFacts, ScriptFacts

(* Of a stream that is no longer read. *)
LEMMA StreamKept ==
    ASSUME Captured, NEW s \in Streams, scanner[s] # "reads"
    PROVE  {output[k].line : k \in Places(s)} = ToKeep(s)
<1>1. /\ script \in Scripts /\ taken \subseteq written /\ written \subseteq Pieces /\ PipesOK
      /\ \A q \in written, r \in Pieces : Before(r, q) => r \in written
  BY DEF Captured, PipesOK
<1>2. /\ \A k \in DOMAIN output :
            IF output[k].cut
              THEN /\ scanner[output[k].stream] = "done"
                   /\ FirstPiece(output[k].line) \in taken
              ELSE LastPiece(output[k].line) \in taken
      /\ \A i \in DOMAIN script :
            LastPiece(i) \in taken => ~ Overlong(i) /\ \E k \in DOMAIN output : output[k].line = i
  BY DEF Captured, PlacesOK
<1>3. \A i : HasBegun(i) <=> FirstPiece(i) \in written
  BY DEF HasBegun, FirstPiece
<1>4. \A i \in DOMAIN script : /\ i \in Nat
                               /\ LastPiece(i).line = i /\ FirstPiece(i).line = i
                               /\ LastPiece(i) \in Pieces
  BY <1>1, PieceFacts, ScriptFacts
<1>5. ASSUME NEW k \in Places(s)
      PROVE  /\ output[k].line \in DOMAIN script /\ script[output[k].line].stream = s
             /\ HasBegun(output[k].line)
  <2>1. /\ k \in DOMAIN output /\ output[k].stream = s
        /\ output[k].line \in DOMAIN script /\ script[output[k].line].stream = s
    BY PlaceFacts DEF Places
  <2>2. FirstPiece(output[k].line) \in written
    <3>1. CASE output[k].cut
      BY <1>1, <1>2, <2>1, <3>1
    <3>2. CASE ~ output[k].cut
      BY <1>1, <1>2, <1>4, <2>1, <3>2, TakenFacts
    <3> QED
      BY <3>1, <3>2
  <2> QED
    BY <1>3, <2>1, <2>2
<1>6. ASSUME NEW i \in DOMAIN script, script[i].stream = s, \E k \in DOMAIN output : output[k].line = i
      PROVE  \E k \in Places(s) : output[k].line = i
  BY <1>6, PlaceFacts DEF Places
<1>7. CASE scanner[s] = "done"
  <2>1. Done(s)
    BY <1>7 DEF Captured, ScannersOK
  <2>2. ASSUME NEW i \in DOMAIN script, script[i].stream = s, HasBegun(i)
        PROVE  \E k \in Places(s) : output[k].line = i
    <3>1. FirstPiece(i) \in taken
      BY <1>3, <1>4, <2>1, <2>2 DEF Done, Piped, On
    <3>2. \E k \in DOMAIN output : output[k].line = i
      BY <1>4, <2>1, <2>2, <3>1 DEF Done, On
    <3> QED
      BY <1>6, <2>2, <3>2
  <2>3. ToKeep(s) = {i \in DOMAIN script : script[i].stream = s /\ HasBegun(i)}
    BY <1>7 DEF ToKeep
  <2> QED
    BY <1>5, <2>2, <2>3
<1>8. CASE scanner[s] = "gaveUp"
  <2>1. PICK p \in taken : /\ On(p, s) /\ p.part >= TokenSize /\ LastPiece(p.line) \notin taken
                           /\ \A q \in taken : On(q, s) => q.line <= p.line
    BY <1>8 DEF Captured, ScannersOK, GivenUp
  <2>2. /\ p.line \in DOMAIN script /\ p.line \in Nat /\ script[p.line].stream = s
        /\ p.part \in 1..script[p.line].size /\ script[p.line].size \in Nat
        /\ p \in Pieces /\ p \in written
        /\ p = LastPiece(p.line) \/ Before(p, LastPiece(p.line))
    BY <1>1, <2>1, PieceFacts, PieceOrder, ScriptFacts DEF On
  <2>3. Overlong(p.line)
    <3>1. p.part # script[p.line].size
      BY <1>1, <2>1, <2>2, PieceFacts DEF Ends
    <3> QED
      BY <2>1, <2>2, <3>1, SizesAssumption DEF Overlong
  <2>4. ASSUME NEW i \in DOMAIN script, script[i].stream = s, i < p.line
        PROVE  LastPiece(i) \in taken /\ ~ Overlong(i)
    <3>1. LastPiece(i) \in taken
      BY <1>1, <2>1, <2>2, <2>4, TakenFacts
    <3> QED
      BY <1>2, <3>1
  <2>5. ToKeep(s) = {i \in DOMAIN script : script[i].stream = s /\ HasBegun(i)
                        /\ \A j \in 1..i : script[j].stream = s => ~ Overlong(j)}
    BY <1>8 DEF ToKeep
  <2>6. ASSUME NEW i \in ToKeep(s) PROVE \E k \in Places(s) : output[k].line = i
    <3>1. i \in DOMAIN script /\ script[i].stream = s
          /\ \A j \in 1..i : script[j].stream = s => ~ Overlong(j)
      BY <2>5
    <3>2. p.line # 0
      <4>1. 0 \notin DOMAIN script
        <5>1. script \in Seq([kind : Kinds, stream : Streams, size : Nat \ {0}])
          BY <1>1, ScriptsAssumption
        <5> QED
          BY <5>1
      <4> QED
        BY <2>2, <4>1
    <3>3. i < p.line
      BY <1>4, <2>2, <2>3, <3>1, <3>2
    <3>4. \E k \in DOMAIN output : output[k].line = i
      BY <1>2, <2>4, <3>1, <3>3
    <3> QED
      BY <1>6, <3>1, <3>4
  <2>7. ASSUME NEW k \in Places(s) PROVE output[k].line \in ToKeep(s)
    <3> DEFINE i == output[k].line
    <3>1. k \in DOMAIN output /\ i \in DOMAIN script /\ script[i].stream = s /\ HasBegun(i) /\ output[k].stream = s
      BY <1>5 DEF Places
    <3>2. LastPiece(i) \in taken
      BY <1>2, <1>8, <3>1
    <3>3. On(LastPiece(i), s)
      BY <1>4, <3>1 DEF On
    <3>4. i <= p.line
      BY <1>4, <2>1, <3>1, <3>2, <3>3
    <3>5. i # p.line
      BY <2>1, <3>2
    <3>6. \A j \in 1..i : j \in DOMAIN script
      <4>1. script \in Seq([kind : Kinds, stream : Streams, size : Nat \ {0}])
        BY <1>1, ScriptsAssumption
      <4>2. DOMAIN script = 1..Len(script) /\ Len(script) \in Nat
        BY <4>1
      <4> QED
        BY <3>1, <4>2
    <3>7. \A j \in 1..i : j < p.line
      BY <1>4, <2>2, <3>1, <3>4, <3>5
    <3> HIDE DEF i
    <3>8. \A j \in 1..i : script[j].stream = s => ~ Overlong(j)
      BY <2>4, <3>6, <3>7
    <3> QED
      BY <2>5, <3>1, <3>8 DEF i
  <2> QED
    BY <2>6, <2>7
<1> QED
  BY <1>7, <1>8 DEF Captured, ScannersOK

LEMMA NothingIsLost == CaptureInv => NothingLost
<1> SUFFICES ASSUME CaptureInv, pc \in {"wait", "returned"}, NEW s \in Streams
             PROVE  /\ {output[k].line : k \in Places(s)} = ToKeep(s)
                    /\ \A k, m \in Places(s) : k < m => output[k].line < output[m].line
                    /\ \A k \in Places(s) : output[k].cut <=> ~ Complete(output[k].line)
  BY DEF NothingLost
<1>1. \A k, m \in Places(s) : k < m => output[k].line < output[m].line
  BY DEF CaptureInv, Captured, PlacesOK, Places
<1>2. \A k \in Places(s) : output[k].cut <=> ~ Complete(output[k].line)
  BY DEF CaptureInv, Captured, PlacesOK, PipesOK, Places, Complete
<1>3. CASE scanner[s] # "reads"
  BY <1>1, <1>2, <1>3, StreamKept DEF CaptureInv
<1>4. CASE scanner[s] = "reads"
  <2>1. written = {} /\ output = <<>>
    BY <1>4 DEF CaptureInv, Phase
  <2>2. Places(s) = {} /\ ToKeep(s) = {}
    BY <2>1 DEF Places, ToKeep, HasBegun
  <2> QED
    BY <1>1, <1>2, <2>2
<1> QED
  BY <1>3, <1>4

(* When the output is complete - the command has been waited for, or could *)
(* not be started - it holds the lines of each stream that the command has *)
(* begun, in their order, none missing and none twice, and cut off only    *)
(* where the command has not finished the line; of a stream whose scanner  *)
(* gave up, those before the first line that is too long.                  *)
THEOREM NoLineIsLost == Spec => []NothingLost
BY InitCapture, CaptureNext, NothingIsLost, PTL DEF Spec

(* The variables keep their types; the command writes and the scanners     *)
(* read one piece after the other, and no pipe ever holds more than it can. *)
THEOREM CommandTypes == Spec => []TypeOK
<1>1. CodeInv /\ CaptureInv => TypeOK
  <2> SUFFICES ASSUME CodeInv, CaptureInv PROVE TypeOK
    OBVIOUS
  <2>1. \A k \in DOMAIN output :
          /\ output[k].line \in DOMAIN script
          /\ output[k] \in {Line(output[k].line)} \cup Remnants(output[k].line)
    BY PlaceFacts DEF CaptureInv
  <2>2. report # None => report.code \in {-1, 0, 1, 124}
    BY DEF CodeInv, Reported
  <2> QED
    BY <2>1, <2>2 DEF TypeOK, CodeInv, Exited, Deadline, CaptureInv, Captured, PipesOK, ScannersOK
<1> QED
  BY <1>1, InitCode, CodeNext, InitCapture, CaptureNext, PTL DEF Spec

--------------------------------------------------------------------------------
(* The report of a failure was made of the whole output. *)
ReportInv == Failed => pc = "returned" /\ report.lines = extractTerraformError(output)

LEMMA ReportNext == ReportInv /\ CodeInv /\ [Next]_vars => ReportInv'
<1> SUFFICES ASSUME ReportInv, CodeInv, [Next]_vars PROVE ReportInv'
  OBVIOUS
<1>1. CASE Report
  <2>1. pc' = pc /\ pc = "returned" /\ output' = output /\ result' = result
    BY <1>1 DEF Report, capture
  <2>2. result.failed => report'.lines = extractTerraformError(output)
    BY <1>1 DEF Report
  <2>3. extractTerraformError(output)' = extractTerraformError(output)
    BY <2>1
  <2> QED
    BY <2>1, <2>2, <2>3 DEF ReportInv, Failed
<1>2. CASE StartFails \/ waitForCompletion
  <2>1. report' = None
    BY <1>2 DEF StartFails, waitForCompletion, CodeInv, Reported
  <2> QED
    BY <2>1 DEF ReportInv, Failed
<1>3. CASE Start \/ captureOutput \/ \E s \in Streams : Scanner(s)
  <2>1. report' = report /\ pc # "returned"
    BY <1>3 DEF Start, captureOutput, Scanner, Scan, EndOfStream
  <2> QED
    BY <2>1 DEF ReportInv, Failed, CodeInv, Reported
<1>4. CASE Command \/ Crash \/ Expire \/ Kill \/ UNCHANGED vars
  <2>1. UNCHANGED <<pc, output, result, report>>
    BY <1>4 DEF Command, Write, Exit, Crash, Expire, Kill, vars, command, capture
  <2>2. extractTerraformError(output)' = extractTerraformError(output)
    BY <2>1
  <2> QED
    BY <2>1, <2>2 DEF ReportInv, Failed
<1> QED
  BY <1>1, <1>2, <1>3, <1>4 DEF Next, Executor

LEMMA ReportHolds == Spec => [](CodeInv /\ CaptureInv /\ ReportInv)
<1>1. Init => ReportInv
  BY DEF Init, ReportInv, Failed
<1> QED
  BY <1>1, InitCode, CodeNext, InitCapture, CaptureNext, ReportNext, PTL DEF Spec

LEMMA OutputReported ==
    ASSUME Captured
    PROVE  /\ (\A k \in DOMAIN output : ~ IsBoth(output[k])) \/ ~ HasError(output)
                 => extractTerraformError(output) = ReportOf(output)
           /\ ToSet(ReportWithin(output, FewestDetails)) \subseteq ToSet(extractTerraformError(output))
           /\ ToSet(extractTerraformError(output)) \subseteq ToSet(ReportOf(output))
           /\ \A k \in DOMAIN output :
                 IsError(output[k]) => output[k] \in ToSet(extractTerraformError(output))
           /\ HasError(output) =>
                 \A i \in DOMAIN extractTerraformError(output) :
                    \E e \in 1..i :
                       i - e <= MaxDetails + 1 /\ IsError(extractTerraformError(output)[e])
<1> DEFINE L == OutputLines \cup {Blank}
<1>1. output \in Seq(OutputLines)
  BY DEF Captured, PlacesOK
<1>2. Blank \in L /\ output \in Seq(L)
  <2>1. Len(output) \in Nat /\ output \in [1..Len(output) -> OutputLines]
    BY <1>1
  <2>2. output \in [1..Len(output) -> L]
    BY <2>1
  <2> HIDE DEF L
  <2>3. output \in Seq(L)
    BY <2>1, <2>2
  <2> QED
    BY <2>3 DEF L
<1> HIDE DEF L
<1>3. HasError(output) =>
        \A i \in DOMAIN extractTerraformError(output) :
           \E e \in 1..i :
              i - e <= MaxDetails + 1 /\ IsError(extractTerraformError(output)[e])
  BY <1>2, ExtractionIsShort
<1> QED
  BY <1>2, <1>3, ExtractionIsReference

(* In whatever order the scanners have merged the streams, the report of a *)
(* failure is what the comments of extractTerraformError say of the output *)
(* when no line is both a location and indented; in general it has nothing *)
(* that does not belong into it, and misses only details after the first   *)
(* half of what may be kept. *)
THEOREM ReportsAreReference == Spec => []ReportIsReference
<1>1. CaptureInv /\ ReportInv => ReportIsReference
  <2> SUFFICES ASSUME CaptureInv, ReportInv, Failed
               PROVE  /\ (\A k \in DOMAIN output : ~ IsBoth(output[k])) \/ ~ HasError(output)
                            => report.lines = ReportOf(output)
                      /\ ToSet(ReportWithin(output, FewestDetails)) \subseteq ToSet(report.lines)
                      /\ ToSet(report.lines) \subseteq ToSet(ReportOf(output))
    BY DEF ReportIsReference
  <2>1. report.lines = extractTerraformError(output) /\ Captured
    BY DEF CaptureInv, ReportInv
  <2> QED
    BY <2>1, OutputReported
<1> QED
  BY <1>1, ReportHolds, PTL

(* Whatever terraform wrote, no error in the report of a failure is        *)
(* followed by more than MaxDetails + 1 lines before the next one.         *)
THEOREM ReportsAreShort == Spec => []BlocksAreShort
<1>1. CaptureInv /\ ReportInv => BlocksAreShort
  <2> SUFFICES ASSUME CaptureInv, ReportInv, Failed, HasError(output)
               PROVE  \A i \in DOMAIN report.lines :
                         \E e \in 1..i : i - e <= MaxDetails + 1 /\ IsError(report.lines[e])
    BY DEF BlocksAreShort
  <2>1. report.lines = extractTerraformError(output) /\ Captured
    BY DEF CaptureInv, ReportInv
  <2> QED
    BY <2>1, OutputReported
<1> QED
  BY <1>1, ReportHolds, PTL

(* Every error the command has written to its end is in the report of its  *)
(* failure, unless the scanner of that stream gave up. *)
THEOREM ErrorsAreReported == Spec => []ErrorsReported
<1>1. CodeInv /\ CaptureInv /\ ReportInv => ErrorsReported
  <2> SUFFICES ASSUME CodeInv, CaptureInv, ReportInv, Failed, NEW i \in DOMAIN script,
                      script[i].kind = "error", Complete(i), scanner[script[i].stream] # "gaveUp"
               PROVE  Line(i) \in ToSet(report.lines)
    BY DEF ErrorsReported
  <2> DEFINE s == script[i].stream
  <2>1. script \in Scripts /\ PipesOK
    BY DEF CaptureInv, Captured, PipesOK
  <2>2. s \in Streams /\ LastPiece(i).line = i
    BY <2>1, PieceFacts, ScriptFacts
  <2>3. HasBegun(i)
    <3>1. FirstPiece(i) \in written
      BY <2>1, <2>2, TakenFacts DEF Complete
    <3> QED
      BY <3>1 DEF HasBegun, FirstPiece
  <2>4. i \in ToKeep(s)
    BY <2>3 DEF ToKeep
  <2>5. pc = "returned" /\ NothingLost
    BY NothingIsLost DEF ReportInv
  <2>6. PICK k \in Places(s) : output[k].line = i
    BY <2>2, <2>4, <2>5 DEF NothingLost
  <2>7. ~ output[k].cut
    BY <2>2, <2>5, <2>6 DEF NothingLost
  <2>8. k \in DOMAIN output /\ output[k] = Line(i)
    BY <2>6, <2>7, PlaceFacts DEF Places, CaptureInv
  <2>9. IsError(output[k])
    BY <2>8, LineFacts DEF IsError
  <2> QED
    BY <2>8, <2>9, OutputReported DEF CaptureInv, ReportInv
<1> QED
  BY <1>1, ReportHolds, PTL
================================================================================
