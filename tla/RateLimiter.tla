----------------------------- MODULE RateLimiter -----------------------------
(***************************************************************************)
(* The fixed-window rate limit of one user on one endpoint.  The count is  *)
(* kept in PostgreSQL; a server that cannot reach it counts in its own     *)
(* memory, against a smaller limit.                                        *)
(***************************************************************************)
EXTENDS Deployment

CONSTANTS
  Limit,        \* max_requests in a window
  OwnLimit      \* conservative_fallback_max

ASSUME LimiterAssumption == Limit \in Nat /\ OwnLimit \in Nat

VARIABLES
  counted,      \* rate_limit_windows: request_count of the window
  ownCounted,   \* _FALLBACK_STORES of each process, in the window
  admitted      \* history: requests let through in the window

limiterVars == <<counted, ownCounted, admitted>>

LimiterInit ==
  /\ counted = 0
  /\ ownCounted = [p \in Processes |-> 0]
  /\ admitted = 0

WithinLimit == counted < Limit
WithinFullLimit(p) == ownCounted[p] < Limit + OwnLimit
WithinOwnLimit(p) == ownCounted[p] < OwnLimit

Let(through) == admitted' = IF through THEN admitted + 1 ELSE admitted

\* The store counts the request and says whether it is within the limit.
Consume(through) ==
  /\ through = WithinLimit
  /\ counted' = counted + 1
  /\ Let(through)
  /\ UNCHANGED ownCounted

\* The store cannot be reached, or its answer is lost: the process falls back on
\* its own count.
FallBack(p, through) ==
  /\ through = WithinOwnLimit(p)
  /\ counted' \in {counted, counted + 1}
  /\ ownCounted' = [ownCounted EXCEPT ![p] = @ + 1]
  /\ Let(through)

\* Both counts are kept by window.
WindowEnds ==
  /\ counted' = 0
  /\ ownCounted' = [p \in Processes |-> 0]
  /\ admitted' = 0

\* A process loses its own count when it dies.
ForgetCount(p) ==
  /\ ownCounted' = [ownCounted EXCEPT ![p] = 0]
  /\ UNCHANGED <<counted, admitted>>

=============================================================================
