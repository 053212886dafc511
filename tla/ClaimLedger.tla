---------------------------- MODULE ClaimLedger ----------------------------
(***************************************************************************)
(* What the engine promises about the statuses of its claims, without      *)
(* gaps, evidence or contradictions: one ledger records every status       *)
(* change of every claim in the order they happened, and the ledger and    *)
(* the statuses change together, along legal moves only.  An entry is the  *)
(* set of moves made under one number: always exactly one.                 *)
(***************************************************************************)
EXTENDS Sequences

CONSTANTS Claims, Statuses, LegalMoves

VARIABLES status, ledger

Init ==
  /\ status = [claim \in {} |-> claim]
  /\ ledger = <<>>

Open(claim, first) ==
  /\ claim \notin DOMAIN status
  /\ status' = [c \in DOMAIN status \cup {claim} |->
                  IF c = claim THEN first ELSE status[c]]
  /\ UNCHANGED ledger

Move(claim, to) ==
  /\ claim \in DOMAIN status
  /\ <<status[claim], to>> \in LegalMoves
  /\ status' = [status EXCEPT ![claim] = to]
  /\ ledger' = Append(ledger,
                      {[claim |-> claim, from |-> status[claim], to |-> to]})

Next ==
  \E claim \in Claims, s \in Statuses : Open(claim, s) \/ Move(claim, s)

Spec == Init /\ [][Next]_<<status, ledger>>
=============================================================================
