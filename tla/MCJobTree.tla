------------------------------ MODULE MCJobTree ------------------------------
(* Small instances of JobTree for TLC.                                        *)
EXTENDS JobTree

\* What the state space is explored up to: how a row that can never be retried
\* came to its end, and how often it was tried, changes nothing any more.
Over(s) == s \in Terminal \ Retryable
Told(s) == IF Over(s) THEN "over" ELSE s
Family ==
    <<Told(parent), [c \in Children |-> Told(child[c])],
      IF Over(parent) THEN 0 ELSE tries[NoChild],
      [c \in Children |-> IF Over(child[c]) THEN 0 ELSE tries[c]],
      gathered, ended, passVars, cpc, claimVars, treeVars, pastVars>>
==============================================================================
