---------------------------- MODULE TelegramSender ----------------------------
(***************************************************************************)
(* How one message is posted to Telegram: up to three attempts, waiting    *)
(* between them for as long as Telegram asks or with exponential backoff,  *)
(* and a verdict for the caller.  Delays are in half seconds; the jitter   *)
(* of the backoff, at most a quarter of it, is left out.                   *)
(***************************************************************************)
EXTENDS Integers

CONSTANT RetryAfters   \* the delays Telegram asks for with a 429

ASSUME SenderAssumption == RetryAfters \subseteq Nat

MaxAttempts == 3
MaxDelay == 10      \* MAX_SYNCHRONOUS_RETRY_DELAY_SECONDS
MaxBudget == 20     \* MAX_TOTAL_RETRY_BUDGET_SECONDS
Backoff(attempt) == IF attempt = 1 THEN 1 ELSE 2

\* "late": delivered, but the answer is lost.  "lost": not delivered.  "broken":
\* delivered, and what comes back is an error of no kind that is tried again.
Repeatable == {"busy", "unavailable", "late", "lost"}
Unheard == {"late", "broken"}
Final == {"refused", "broken"}
Answers == Repeatable \cup Final \cup {"ok"}
Results == {"pending", "delivered", "retryable", "failed"}

Sends == [attempt : 1..MaxAttempts, slept : 0..MaxBudget,
          copies : 0..MaxAttempts, late : 0..MaxAttempts, result : Results]

NewSend == [attempt |-> 1, slept |-> 0, copies |-> 0, late |-> 0, result |-> "pending"]

Delay(send, answer, after) == IF answer = "busy" THEN after ELSE Backoff(send.attempt)

Retried(send, answer, delay) ==
  /\ answer \in Repeatable
  /\ answer = "busy" => delay <= MaxDelay
  /\ send.attempt < MaxAttempts
  /\ send.slept + delay <= MaxBudget

VerdictOptimistic(answer) == IF answer \in Final THEN "failed" ELSE "delivered"
Verdict(answer) ==
  CASE answer = "ok" -> "delivered"
    [] answer \in Final -> "failed"
    [] OTHER -> "retryable"

\* The send after one attempt was answered so; `copies` and `late` are history:
\* how often the message came through, and how often that was not heard.
Posted(send, answer, after) ==
  LET delay == Delay(send, answer, after)
      again == Retried(send, answer, delay)
  IN  [attempt |-> IF again THEN send.attempt + 1 ELSE send.attempt,
       slept   |-> IF again THEN send.slept + delay ELSE send.slept,
       copies  |-> IF answer \in Unheard \cup {"ok"} THEN send.copies + 1 ELSE send.copies,
       late    |-> IF answer \in Unheard THEN send.late + 1 ELSE send.late,
       result  |-> IF again THEN "pending" ELSE Verdict(answer)]

=============================================================================
