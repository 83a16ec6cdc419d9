----------------------------- MODULE MCWebhooks -----------------------------
(* Two commits for TLC: the second repeats a finding, without fingerprints. *)
EXTENDS Webhooks

Finding(print, text) == [print |-> print, text |-> text]
MCConfig == <<"on", "bad">>
MCFindings == <<<<Finding(1, 1), Finding(1, 2)>>,
                <<Finding(0, 1), Finding(0, 2), Finding(0, 1)>>>>

=============================================================================
