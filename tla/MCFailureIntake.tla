-------------------------- MODULE MCFailureIntake --------------------------
(***************************************************************************)
(* FailureIntake for TLC: one batch with a delivery among the failures, a  *)
(* report without an id, and the same message id at two providers.         *)
(***************************************************************************)
EXTENDS FailureIntake

CONSTANTS t1, t2, m1

Report(id, mail, what) == [id |-> id, mail |-> mail, what |-> what]

MCDeliveries == {
  [provider |-> "sendgrid", sig |-> "good", time |-> "fresh",
   reports |-> <<Report("e1", m1, "permanent"), Report("e2", m1, "delivered"),
                 Report("none", m1, "blocked")>>]}

MCKey == [p \in {"postmark", "sendgrid", "mailgun", "ses", "klaviyo"} |-> "key"]

Import(claims, order, domain) ==
  [key |-> [provider |-> "klaviyo", id |-> "imported", mail |-> "none", what |-> "none"],
   provider |-> "klaviyo", mail |-> m1, type |-> "bounce",
   claims |-> claims, order |-> order, domain |-> domain]
MCImports ==
  {Import({t1}, {t2}, {}), Import({}, {t1, t2}, {t1}), Import({}, {}, {t2})}

=============================================================================
