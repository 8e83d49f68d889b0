------------------------------- MODULE Charts -------------------------------
(***************************************************************************)
(* The charts of the run page (ThroughputChart, RateChart in               *)
(* TesterRunPage.tsx) and of the host bench (niceMax): the grid, the time  *)
(* axis and the cursor, drawn over a curve fru-tester keeps within a       *)
(* number of points by halving it (dataplane/history.go).  Rates are in    *)
(* fortieths, so that the steps of a grid are whole; times in seconds.     *)
(***************************************************************************)
EXTENDS Integers, FiniteSetsExt, Sequences

CONSTANTS
    MaxPoints,      \* of a curve
    Times,          \* seconds of traffic the page reads a snapshot at
    Peaks,          \* highest rates
    Widths,         \* of the plot, in pixels
    None

VARIABLES
    sec, peak,      \* of the last snapshot
    plotW,          \* what useWidth measured, without the margins
    hover           \* index of the point the cursor is on

chartVars == <<sec, peak, plotW, hover>>

\* The curve after s seconds: its points' times, a point still filled included.
Doublings == {2 ^ k : k \in 0 .. 20}
PointWidth(s) == Min({w \in Doublings : s \div w < MaxPoints})
Series(s) ==
    LET w == PointWidth(s)
        done == [i \in 1 .. s \div w |-> i * w]
    IN  IF s % w = 0 THEN done ELSE Append(done, s)

series == Series(sec)
Empty == Len(series) < 2
T1 == series[Len(series)]

ChartsTypeOK ==
    /\ sec \in Times /\ peak \in Peaks /\ plotW \in Widths /\ hover \in 1 .. MaxPoints \cup {None}

Init == sec = 0 /\ peak \in Peaks /\ plotW \in Widths /\ hover = None

-----------------------------------------------------------------------------
(* What is drawn. *)

\* In tenths: a step is one of these times a power of ten.
Multiples == {10, 20, 25, 50, 100}
Powers == {4 * 10 ^ k : k \in 0 .. 8}

\* The least of 1, 2, 2.5, 5 or 10 x 10^n that is at least v, in fortieths.
NiceStep(v) ==
    LET p == CHOOSE p \in Powers : p <= v /\ v < 10 * p
    IN  (Min({m \in Multiples : m * p >= 10 * v}) * p) \div 10

\* A quarter of the peak, as a step; the rates' axis.
GridStep == NiceStep(10 * peak)
GridLines == (40 * peak + GridStep - 1) \div GridStep
Top == GridLines * GridStep

\* The bench's axis: 4 steps for a peak.
NiceMax == 4 * NiceStep(10 * peak)

\* The time axis: the least round step with room for its ticks.
TimeSteps == {1, 2, 5, 10, 15, 30, 60, 120, 300, 600, 900, 1800, 3600, 7200, 10800, 21600, 43200, 86400}
MaxTicks  == IF plotW \div 70 > 2 THEN plotW \div 70 ELSE 2
TimeStep(t) ==
    LET fit == {s \in TimeSteps : t <= s * MaxTicks}
    IN  IF fit = {} THEN 86400 ELSE Min(fit)

\* "N s samples": the gap in the middle of all, in their order.
SampleStep ==
    LET points == series
        n == Len(points) - 1
        gap == [i \in 1 .. n |-> points[i + 1] - points[i]]
    IN  CHOOSE g \in {gap[i] : i \in 1 .. n} :
            /\ Cardinality({i \in 1 .. n : gap[i] < g}) <= n \div 2
            /\ n \div 2 < Cardinality({i \in 1 .. n : gap[i] <= g})

\* The point the cursor is drawn at, if the curve still has it.
Cursor == IF ~Empty /\ hover \in DOMAIN series THEN hover ELSE None

-----------------------------------------------------------------------------
\* A snapshot of the run, or of the next one.
Read == /\ \E s \in Times : (s > sec \/ s = 0) /\ sec' = s
        /\ peak' \in Peaks /\ UNCHANGED <<plotW, hover>>

Resized == plotW' \in Widths /\ UNCHANGED <<sec, peak, hover>>

\* The mouse is over a second of the axis: the first point nearest to it.
Distance(at, t) == IF at < t THEN t - at ELSE at - t
Nearest(points, t) ==
    LET distance == [i \in DOMAIN points |-> Distance(points[i], t)]
    IN  Min({i \in DOMAIN points : \A j \in DOMAIN points : distance[i] <= distance[j]})
Moved == /\ ~Empty
         /\ \E t \in {s \in Times : s <= T1} : hover' = Nearest(series, t)
         /\ UNCHANGED <<sec, peak, plotW>>

Left == hover # None /\ hover' = None /\ UNCHANGED <<sec, peak, plotW>>

Next == Read \/ Resized \/ Moved \/ Left

-----------------------------------------------------------------------------
(* Properties. *)

\* Whatever the peak, the grid has three or four steps and reaches it
\* (TesterRunPage.tsx:85-90, 162-164); up to two days the ticks have 70 pixels
\* for their labels, or half of a narrow plot, and there are always two but
\* between four and five minutes, where a narrow plot goes from two minutes a
\* step to five (:128-137).
AxesFit ==
    /\ GridLines \in 3 .. 4 /\ Top >= 40 * peak /\ NiceMax >= Top
    /\ ~Empty => LET step == TimeStep(T1) IN
        /\ step * plotW >= T1 * (IF plotW < 140 THEN plotW \div 2 ELSE 70) \/ T1 > 2 * 86400
        /\ T1 >= 2 => step <= T1 \/ (MaxTicks = 2 /\ T1 \in 241 .. 299)

\* The page knows what a point covers only from the gaps of the curve: the
\* one in the middle is it, however often the curve was halved and though the
\* last point is shorter (:139-144, history.go:20-43, 53-60).
StepIsWidth == ~Empty => SampleStep = PointWidth(sec)
=============================================================================
