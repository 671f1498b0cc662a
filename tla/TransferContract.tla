--------------------------- MODULE TransferContract ---------------------------
(***************************************************************************)
(* What POST /transactions promises: the payer is debited before the payee *)
(* is credited, each at most once, and a receipt is sent and the transfer  *)
(* confirmed only after both.  A debit or credit of a name that is no      *)
(* account counts as done and moves nothing, so a confirmed transfer may   *)
(* have taken money that arrived nowhere; nor is it promised that one      *)
(* reported as failed has moved nothing.                                   *)
(***************************************************************************)
EXTENDS Integers

CONSTANTS
  Transfer, \* the transfers asked for
  Account,  \* the rows of table accounts
  From, To, \* [Transfer -> names]: a name need not be an account
  Debited,  \* [Transfer -> Int]: what the debit adds to the payer's balance,
            \* a negative number as a rule
  Credited, \* [Transfer -> Int]: what the credit adds to the payee's
  Opening   \* [Account -> Int]: the balances at first

VARIABLES
  balance,  \* the balance of each account
  progress, \* which of its two steps each transfer has done
  outcome,  \* what the client of each transfer has been told
  receipts  \* the transfers a receipt was sent for

vars == <<balance, progress, outcome, receipts>>

Init ==
  /\ balance = Opening
  /\ progress = [t \in Transfer |-> "idle"]
  /\ outcome = [t \in Transfer |-> "none"]
  /\ receipts = {}

\* a name that is no account changes no row
Add(name, delta) ==
  balance' = [a \in Account |-> IF a = name THEN balance[a] + delta ELSE balance[a]]

Debit(t) ==
  /\ progress[t] = "idle"
  /\ progress' = [progress EXCEPT ![t] = "debited"]
  /\ Add(From[t], Debited[t])
  /\ UNCHANGED <<outcome, receipts>>

Credit(t) ==
  /\ progress[t] = "debited"
  /\ progress' = [progress EXCEPT ![t] = "credited"]
  /\ Add(To[t], Credited[t])
  /\ UNCHANGED <<outcome, receipts>>

\* the receipt is on its way before the answer is; a client that hung up gets
\* none of the latter
Finish(t) ==
  /\ progress[t] = "credited"
  /\ outcome[t] = "none"
  /\ outcome' \in {[outcome EXCEPT ![t] = o] : o \in {"confirmed", "failed"}}
  /\ receipts' \in {receipts, receipts \cup {t}}
  /\ UNCHANGED <<balance, progress>>

Fail(t) ==
  /\ outcome[t] = "none"
  /\ outcome' = [outcome EXCEPT ![t] = "failed"]
  /\ UNCHANGED <<balance, progress, receipts>>

Next == \E t \in Transfer : Debit(t) \/ Credit(t) \/ Finish(t) \/ Fail(t)

Spec == Init /\ [][Next]_vars

=============================================================================
