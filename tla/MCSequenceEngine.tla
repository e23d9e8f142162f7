-------------------------- MODULE MCSequenceEngine --------------------------
(* A small instance of SequenceEngine for TLC: a sequence that starts on a *)
(* Thursday, with two channels, a holiday and an exception that expires.   *)
EXTENDS SequenceEngine, TLC

MCChannels == <<"EMAIL", "LINKEDIN">>
MCSpacing == [c \in {"EMAIL", "LINKEDIN"} |-> IF c = "EMAIL" THEN 4 ELSE 6]
MCOverrides == {[max |-> 3, expiresAt |-> 29, matches |-> TRUE]}
MCHolidays == {8}
Interchangeable == Permutations(Callers) \cup Permutations(Contents)
=============================================================================
