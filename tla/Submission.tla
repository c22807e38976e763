------------------------------ MODULE Submission ------------------------------
(***************************************************************************)
(* What one call of process_opportunity promises the opportunity handler:   *)
(* it ends without having sent anything, or it sends one transaction once   *)
(* and then ends; Ok after sending means that the sequencer got the         *)
(* request.  An error promises nothing: the request may still arrive.       *)
(* OpportunityHandler uses a call this way, TransactionService implements   *)
(* it.                                                                      *)
(***************************************************************************)
CONSTANT Calls

VARIABLES submits,  \* whether the service sends at all, settled at the start
          call,     \* idle, running, posted, ok or failed
          sent,     \* the calls whose request left the process
          arrived   \* those the sequencer received

submission == <<submits, call, sent, arrived>>

Move(c, from, to) == call[c] = from /\ call' = [call EXCEPT ![c] = to]

Begin(c) ==
  /\ Move(c, "idle", "running") \/ (~submits /\ Move(c, "idle", "ok"))
  /\ UNCHANGED <<sent, arrived>>

EndUnsent(c) ==
  /\ Move(c, "running", "failed") \/ (~submits /\ Move(c, "running", "ok"))
  /\ UNCHANGED <<sent, arrived>>

SendOnce(c) ==
  /\ submits /\ Move(c, "running", "posted")
  /\ sent' = sent \cup {c}
  /\ UNCHANGED arrived

Arrive(c) ==
  /\ c \in sent \ arrived
  /\ arrived' = arrived \cup {c}
  /\ UNCHANGED <<call, sent>>

EndSent(c) ==
  /\ Move(c, "posted", "failed") \/ (c \in arrived /\ Move(c, "posted", "ok"))
  /\ UNCHANGED <<sent, arrived>>

SubmissionInit ==
  submits \in BOOLEAN /\ call = [c \in Calls |-> "idle"] /\ sent = {} /\ arrived = {}

SubmissionNext ==
  /\ \E c \in Calls : Begin(c) \/ EndUnsent(c) \/ SendOnce(c) \/ Arrive(c) \/ EndSent(c)
  /\ UNCHANGED submits

SubmissionSpec == SubmissionInit /\ [][SubmissionNext]_submission
=============================================================================
