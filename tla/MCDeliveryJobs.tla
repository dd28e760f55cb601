--------------------------- MODULE MCDeliveryJobs ---------------------------
(* DeliveryJobs for TLC.                                                    *)
EXTENDS DeliveryJobs

entry(box, spelt) == [box |-> box, spelt |-> spelt]

\* The head's address twice, in two spellings; mails switched off and an evening
\* after the day's last trigger; mails to nobody, which is refused.
MCOffers ==
  {[morning |-> 0, evening |-> 1, enabled |-> TRUE,
    raw |-> <<entry("head", "lower"), entry("head", "upper")>>],
   [morning |-> 1, evening |-> 3, enabled |-> FALSE, raw |-> <<>>],
   [morning |-> 1, evening |-> 1, enabled |-> TRUE, raw |-> <<>>]}

\* A morning brief from the second trigger of the day on, an evening never served
\* and no mails, so that two whole days fit.
MCDayOffers == {[morning |-> 1, evening |-> 4, enabled |-> FALSE, raw |-> <<>>]}
=============================================================================
