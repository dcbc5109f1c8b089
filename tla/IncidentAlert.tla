--------------------------- MODULE IncidentAlert ---------------------------
(***************************************************************************)
(* What the failover pipeline promises about one delivery failure: its     *)
(* alert is attempted at most MaxAttempts times, one attempt at a time; an *)
(* attempt Telegram accepted is never given back or given up; an attempt   *)
(* whose outcome nobody knows is set aside and never repeated; and the     *)
(* failure counts as alerted only once the accepted alert is on record.    *)
(***************************************************************************)
EXTENDS Naturals

CONSTANT MaxAttempts

VARIABLES
  phase,      \* "absent", "pending", "attempting", "unknown", "alerted", "dropped"
  tries,      \* attempts started
  accepted,   \* Telegram has accepted the alert
  recorded    \* the accepted alert is on record

vars == <<phase, tries, accepted, recorded>>

Init == phase = "absent" /\ tries = 0 /\ accepted = FALSE /\ recorded = FALSE

Report ==
  /\ phase = "absent" /\ phase' = "pending"
  /\ UNCHANGED <<tries, accepted, recorded>>

Attempt ==
  /\ phase = "pending" /\ tries < MaxAttempts
  /\ phase' = "attempting" /\ tries' = tries + 1
  /\ UNCHANGED <<accepted, recorded>>

\* A late answer may arrive when the outcome was already taken for unknown.
Accept ==
  /\ phase \in {"attempting", "unknown"} /\ ~accepted
  /\ accepted' = TRUE
  /\ UNCHANGED <<phase, tries, recorded>>

Record ==
  /\ accepted /\ ~recorded
  /\ recorded' = TRUE
  /\ UNCHANGED <<phase, tries, accepted>>

\* The attempt failed in a way worth another one.
GiveBack ==
  /\ phase = "attempting" /\ ~accepted /\ tries < MaxAttempts
  /\ phase' = "pending"
  /\ UNCHANGED <<tries, accepted, recorded>>

LoseTrack ==
  /\ phase = "attempting" /\ ~recorded
  /\ phase' = "unknown"
  /\ UNCHANGED <<tries, accepted, recorded>>

Confirm ==
  /\ phase \in {"attempting", "unknown"} /\ recorded
  /\ phase' = "alerted"
  /\ UNCHANGED <<tries, accepted, recorded>>

\* Not worth an alert, no tenant to alert, refused, or out of attempts.
Drop ==
  /\ phase \in {"pending", "attempting"} /\ ~accepted
  /\ phase' = "dropped"
  /\ UNCHANGED <<tries, accepted, recorded>>

Next == \/ Report \/ Attempt \/ Accept \/ Record
        \/ GiveBack \/ LoseTrack \/ Confirm \/ Drop

Spec == Init /\ [][Next]_vars

=============================================================================
