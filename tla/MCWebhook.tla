----------------------------- MODULE MCWebhook -----------------------------
(***************************************************************************)
(* One user whose role changes, a command of each level, and an event that *)
(* is not a text message.                                                  *)
(***************************************************************************)
EXTENDS Webhook

MCUsers == {"ann"}
Text(command) == [user |-> "ann", command |-> command]

MCBatches ==
    { <<Text("refresh"), Text("portfolio")>>,
      <<Other, Text("top"), Text("ping")>> }
=============================================================================
