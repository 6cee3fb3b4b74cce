------------------------------- MODULE MCKbs -------------------------------
\* TLC instance of the keyboard matrix, for its disagreement with a comment.
EXTENDS KbsMatrix
Kind == [a |-> "plain", p |-> "pause", e |-> "plain", d |-> "dead"]
Layer == [a |-> "other", p |-> "sci", e |-> "unmapped", d |-> "repeat"]
=============================================================================
