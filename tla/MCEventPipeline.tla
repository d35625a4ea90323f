-------------------------- MODULE MCEventPipeline --------------------------
(* EventPipeline on two journals, and a claim of the code's comments.       *)
EXTENDS EventPipeline

\* JournalWatcher._perform_rollover: "Older-journal events cannot overwrite the
\* newer state afterwards because the handler only tails the retargeted file".
OlderNeverOverwrites ==
  \A d, e \in Event : d[1] > e[1] => ~Before(applied, d, e)
=============================================================================
