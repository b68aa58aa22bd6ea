--------------------------- MODULE MCNotifications ---------------------------
(***************************************************************************)
(* Notifications on a small instance: a manager reached by email and text  *)
(* message, a SuperAdmin who gets a mirror copy, one backlog entry of a    *)
(* customer with a telephone only, two drains that may overlap.            *)
(***************************************************************************)
EXTENDS Notifications, TLC

MCContacts == "manager" :> {{"email", "sms"}} @@ "entry" :> {{"sms"}}

MCDispatches == "manager" :> 1 @@ "entry" :> 2
=============================================================================
