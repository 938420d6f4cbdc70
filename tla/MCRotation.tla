----------------------------- MODULE MCRotation -----------------------------
(***************************************************************************)
(* Small instances of Rotation: houses of up to MaxResidents with up to    *)
(* Cardinality(Names) tasks.                                               *)
(***************************************************************************)
EXTENDS Rotation, SequencesExt

CONSTANT MaxResidents

MCNames == 1 .. 6

\* Sorted lists of names: one per set of tasks.
MCInputs ==
  [tasks: {SetToSortSeq(S, <) : S \in SUBSET MCNames}, residents: 1 .. MaxResidents]
=============================================================================
