---------------------------- MODULE MCSubmission ----------------------------
(* Small instances of Submission for TLC. *)
EXTENDS Submission, TLC

\* The threads are alike, and so are the previews and the signals.
Symmetric == Permutations(Threads) \cup Permutations(Previews)
               \cup Permutations(Signals)
=============================================================================
