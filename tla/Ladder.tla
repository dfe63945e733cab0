------------------------------- MODULE Ladder -------------------------------
(***************************************************************************)
(* The rung ladder that classifies job shapes for demand sounding: which   *)
(* tier a job fits, how far it saturates the largest one on offer, and why *)
(* a job that found no node was rejected.                                  *)
(*                                                                         *)
(* The program holds one of two ladders: the rows migration 025 seeds, or  *)
(* none when LoadLadder failed at startup.  Memory and disk are in GB      *)
(* here.  A ratio is a pair of numerator and denominator, so that the      *)
(* comparisons of Footprint are exact.                                     *)
(***************************************************************************)
EXTENDS Naturals, Sequences, SequencesExt

Tier(name, order, cpu, mem, disk, state) ==
    [name |-> name, order |-> order, cpu |-> cpu, mem |-> mem, disk |-> disk, state |-> state]

SeededTiers ==
    {Tier("storm", 4, 128, 256, 2048, "coming_soon"),
     Tier("cumulus", 1, 2, 4, 20, "available"),
     Tier("cumulonimbus", 3, 32, 64, 500, "available"),
     Tier("congestus", 2, 8, 16, 100, "available")}

NoRung == ""

NewLadder(tiers) == SetToSortSeq(tiers, LAMBDA s, t : s.order < t.order)

Available(l) == SelectSeq(l, LAMBDA t : t.state = "available")

ComingSoon(l) == SelectSeq(l, LAMBDA t : t.state = "coming_soon")

\* The highest tier of a sequence that is sorted by order.
Top(tiers) == CHOOSE t \in ToSet(tiers) : \A u \in ToSet(tiers) : u.order <= t.order

fits(t, job) == job.cpu <= t.cpu /\ job.mem <= t.mem /\ job.disk <= t.disk

FitRung(l, job) ==
    LET fit == SelectSeq(Available(l), LAMBDA t : fits(t, job))
    IN  IF fit = <<>> THEN NoRung ELSE Head(fit).name

\* r exceeds q.
Above(r, q) == r[1] * q[2] > q[1] * r[2]

Larger(r, q) == IF Above(r, q) THEN r ELSE q

\* Variant: the disk is left out of the composite.
FootprintWithoutDisk(l, job) ==
    IF Available(l) = <<>> THEN <<0, 1>>
    ELSE LET top == Top(Available(l))
         IN  Larger(<<job.mem, top.mem>>, <<job.cpu, top.cpu>>)

Footprint(l, job) ==
    IF Available(l) = <<>> THEN <<0, 1>>
    ELSE LET top == Top(Available(l))
         IN  Larger(<<job.disk, top.disk>>, Larger(<<job.mem, top.mem>>, <<job.cpu, top.cpu>>))

Intensity(l, job) ==
    IF Available(l) = <<>> THEN <<0, 1>> ELSE <<job.cpu, Top(Available(l)).cpu>>

ClassifyRejection(l, job) ==
    IF l = <<>> THEN <<"no_capacity", NoRung>>
    ELSE IF FitRung(l, job) # NoRung THEN <<"no_capacity", FitRung(l, job)>>
    ELSE IF ComingSoon(l) # <<>> THEN <<"too_big", Top(ComingSoon(l)).name>>
    ELSE <<"no_matching_tier", NoRung>>
=============================================================================
