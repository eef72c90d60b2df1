------------------------------- MODULE MCJobs -------------------------------
(* One job per lane: a job delivered again takes a second slot. *)
EXTENDS Jobs
============================================================================
