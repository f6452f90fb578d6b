------------------------------ MODULE SpendGate ------------------------------
(***************************************************************************)
(* What the cost gate of a design session promises about the calls that    *)
(* Recraft charges for (README section 4, ARCHITECTURE "cost gate").  A    *)
(* generation is asked for only while an approval is outstanding, an       *)
(* approval is only granted below the session's ceiling, it pays for at    *)
(* most one recorded generation, and what has been recorded is never given *)
(* back.  Images that were uploaded are vectorized without an approval and *)
(* without a count, but only until the session has its first design.       *)
(***************************************************************************)
EXTENDS Naturals

CONSTANT Limit          \* session_recraft_limit, a number

VARIABLES
  spent,      \* generations recorded against the session
  approved,   \* an approval is outstanding
  committed,  \* the session has a design
  calls,      \* generations asked of Recraft
  uploads     \* images Recraft was asked to vectorize

vars == <<spent, approved, committed, calls, uploads>>

Init ==
  /\ spent = 0
  /\ approved = FALSE
  /\ committed = FALSE
  /\ calls = 0
  /\ uploads = 0

\* The user says "generate" at a gate and the ceiling has room.
Grant ==
  /\ ~approved
  /\ spent < Limit
  /\ approved' = TRUE
  /\ UNCHANGED <<spent, committed, calls, uploads>>

\* The paid call.
Call ==
  /\ approved
  /\ calls' = calls + 1
  /\ UNCHANGED <<spent, approved, committed, uploads>>

\* The generation is recorded and its approval is used up.
Record ==
  /\ approved
  /\ spent' = spent + 1
  /\ approved' = FALSE
  /\ UNCHANGED <<committed, calls, uploads>>

\* The approval goes away unrecorded: the turn is abandoned for a new one, or
\* the decision was not yet durable when the process died.
Withdraw ==
  /\ approved
  /\ approved' = FALSE
  /\ UNCHANGED <<spent, committed, calls, uploads>>

\* The call for uploaded images.
Upload ==
  /\ ~committed
  /\ uploads' = uploads + 1
  /\ UNCHANGED <<spent, approved, committed, calls>>

\* A design is committed, for good, with nothing left that was approved for it.
Commit ==
  /\ committed' = TRUE
  /\ approved' = FALSE
  /\ UNCHANGED <<spent, calls, uploads>>

Next == Grant \/ Call \/ Record \/ Withdraw \/ Upload \/ Commit

Spec == Init /\ [][Next]_vars

-----------------------------------------------------------------------------
(* The ceiling, with the approval that is still outstanding counted in.    *)
WithinLimit ==
  /\ spent \in 0..Limit
  /\ approved => spent < Limit

==============================================================================
