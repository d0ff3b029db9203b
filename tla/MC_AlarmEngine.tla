--------------------------- MODULE MC_AlarmEngine ---------------------------
(***************************************************************************)
(* Values for the constants of AlarmEngine, shared by its runs: a check    *)
(* "qpe" that depends on "origin".                                         *)
(***************************************************************************)
EXTENDS AlarmEngine, TLC

CONSTANTS qpe, origin, a1, a2, r1, r2

NoDependencies == [c \in Check |-> {}]
QpeOnOrigin == [c \in Check |-> IF c = qpe THEN {origin} ELSE {}]

\* Hold-down of one unit, of none, and for qpe alone (origin, whose alarm is of
\* no interest there, is held down beyond MaxAge).
HoldOne == [c \in Check |-> 1]
HoldTwo == [c \in Check |-> 2]
HoldNone == [c \in Check |-> 0]
HoldOrigin == [c \in Check |-> IF c = origin THEN MaxAge + 1 ELSE 0]

\* One step, at once; or a second one, a unit after the alarm opened.
OneStep == [s \in Step |-> 0]
StepPerUnit == [s \in Step |-> s - 1]

AlarmSymmetry == Permutations(Alarm)
=============================================================================
