--------------------------- MODULE MCNotifications ---------------------------
(* An instance of Notifications for TLC: orders that oversold two lines, and thus two
   notifications with their e-mails, and faults enough for BullMQ to give a job up. *)
EXTENDS Notifications
=============================================================================
