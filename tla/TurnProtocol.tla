---------------------------- MODULE TurnProtocol ----------------------------
(***************************************************************************)
(* What a live interview promises, whoever runs it and however it is       *)
(* stored: questions and answers strictly alternate, nobody completes an   *)
(* interview over a question that is still open, and a terminal interview  *)
(* never moves again.  LiveStoreAPI and MultiTurnSolver are shown to       *)
(* implement this module.                                                  *)
(***************************************************************************)
EXTENDS Integers

CONSTANT MaxQuestions   \* the hard limit on public questions

VARIABLES
  status,      \* "active", "completed" or "incomplete"
  open,        \* a public question waits for its answer
  asked,       \* public questions so far
  answered     \* stakeholder answers so far

vars == <<status, open, asked, answered>>

Init ==
  /\ status = "active"
  /\ open = FALSE
  /\ asked = 0
  /\ answered = 0

Ask ==
  /\ status = "active"
  /\ ~open
  /\ asked < MaxQuestions
  /\ open' = TRUE
  /\ asked' = asked + 1
  /\ UNCHANGED <<status, answered>>

Answer ==
  /\ status = "active"
  /\ open
  /\ open' = FALSE
  /\ answered' = answered + 1
  /\ UNCHANGED <<status, asked>>

(* The interviewer declares the end; never over an open question. *)
Complete ==
  /\ status = "active"
  /\ ~open
  /\ status' = "completed"
  /\ UNCHANGED <<open, asked, answered>>

(* The runtime gives up; an open question stays open, no answer is made up. *)
Fail ==
  /\ status = "active"
  /\ status' = "incomplete"
  /\ UNCHANGED <<open, asked, answered>>

Next == Ask \/ Answer \/ Complete \/ Fail

Spec == Init /\ [][Next]_vars
=============================================================================
