---------------------------- MODULE MCThreadPool ----------------------------
(* Instances of ThreadPool for TLC.                                      *)
EXTENDS ThreadPool, TLC

CONSTANTS w1, w2, w3, i1, i2

\* Bounds: the input that is added first is called i1, and with three threads
\* at work there is one input.  What they forbid are calls the application need
\* not make, so fairness is as in FairSpec.
Bounded ==
  /\ added' # <<>> => Head(added') = i1
  /\ Overlapped' => Len(added') <= 1
BoundedSpec == Init /\ [][Next /\ Bounded]_vars /\ Fairness
=============================================================================
