------------------------------- MODULE MCRetry -------------------------------
(* Small instances of Retry for TLC. *)
EXTENDS Retry

CONSTANTS c1, c2

TwoCallers == {c1, c2}

\* Seconds that are too many for the width, also once multiplied; dates past,
\* near and far.
Headers == {[kind |-> "seconds", n |-> n] : n \in {-1, 1, 7, 26, 127}}
           \cup {[kind |-> "date", n |-> n] : n \in {-5, 3, 120}}

Alone(b, budgeted, custom) ==
  [callers |-> {c1}, backoff |-> b, budgeted |-> budgeted, custom |-> custom, headers |-> Headers]

\* Two callers compete for the budget.
Pair == {[callers |-> TwoCallers, backoff |-> DefaultBackoff(0), budgeted |-> TRUE,
          custom |-> FALSE, headers |-> {}]}

\* One caller takes every pause: of the default strategy, of ones with limits of
\* their own above MaxBackoff, and of ones that overflow.
Uses == Pair \cup
  { Alone(DefaultBackoff(50), TRUE, TRUE),
    Alone(ExponentialBackoff(3, 20, 2, 150), FALSE, FALSE),
    Alone(ExponentialBackoff(3, 126, 40, 20), TRUE, FALSE),
    Alone(LinearBackoff(1, 60, 20), TRUE, FALSE),
    Alone(LinearBackoff(3, 60, 125), TRUE, FALSE),
    Alone(ConstantBackoff(50), TRUE, FALSE) }
=============================================================================
