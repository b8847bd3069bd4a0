------------------------------- MODULE MCCaseRow -------------------------------
(* Instances of CaseRow for TLC: those of CaseLifecycle. *)
EXTENDS CaseRow, MCCaseLifecycle

\* After an overlap nothing is said of the columns, and they decide nothing:
\* states that differ in them only are explored once.
RowView ==
  <<allVars, overlapped, IF overlapped THEN <<>> ELSE <<resolution, resolvedAt, seen, decided>>>>

\* A behaviour has a death, or overlaps and a third run, not both: an overlap
\* ends what is said of the row, and case_crash has deaths among overlaps.
MCRowNext == RowNext /\ (crashes' > 0 => ~overlapped' /\ runs'[2].state = "none")
MCRowSpec == RowInit /\ [][MCRowNext]_<<allVars, rowVars>>
===============================================================================
