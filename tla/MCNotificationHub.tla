--------------------------- MODULE MCNotificationHub ---------------------------
(* Instances of NotificationHub: a warning and an information, two configurations. *)
EXTENDS NotificationHub

MCKindOf == [n \in Notices |-> "checkin"]
MCLevelOf == [n \in Notices |-> IF n = 1 THEN "warning" ELSE "info"]

Entry0(type, name, mode, rate, secret) ==
  [type |-> type, name |-> name, enabled |-> TRUE, types |-> {"checkin"}, levels |-> {},
   mode |-> mode, rate |-> rate, retries |-> 1, filled |-> TRUE, secret |-> secret]

\* A digest webhook; the same as an ordinary one, after a limited mail.
MCConfigs ==
  {[enabled |-> TRUE, channels |-> <<Entry0("webhook", "hook", "digest", 0, Blank)>>],
   [enabled |-> TRUE, channels |-> <<Entry0("email", "mail", "failure", 1, Plain("t")),
                                     Entry0("webhook", "hook", "all", 0, Plain("w"))>>]}
===============================================================================
