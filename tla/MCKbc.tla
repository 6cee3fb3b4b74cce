------------------------------- MODULE MCKbc -------------------------------
\* TLC instance of the keyboard controller, for its disagreement with a comment.
EXTENDS Kbc
=============================================================================
