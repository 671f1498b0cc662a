---------------------------- MODULE BankTransfers ----------------------------
(***************************************************************************)
(* The bank's transfers: handler `create` of the transactions service,     *)
(* which has one account adjusted and then the other over two HTTP calls,  *)
(* handler `adjust` of the accounts service with its bounded pool of       *)
(* database connections, and the receipt sent through notifications.       *)
(* An element of Transfer is one POST /transactions.  Who sends them is    *)
(* module LoadStage; LoadedBank puts the two together.                     *)
(***************************************************************************)
EXTENDS Integers, FiniteSets

CONSTANTS
  Transfer,     \* the requests
  Account,      \* ids of the rows of table accounts
  From, To,     \* [Transfer -> ids]: a request may name an id that has no row
  Amount,       \* [Transfer -> i64]: the request's amount, not checked anywhere
  Opening,      \* [Account -> Int]
  MaxBalance,   \* a balance is a BIGINT, an amount an i64: -MaxBalance-1 .. MaxBalance
  Connections,  \* max_connections of the pool
  BankFailures  \* which environment failures can happen, see BankFailure

BankFailure == {"lost",   \* a call or its answer is lost on the way
                "stall",  \* the database stops answering for a while
                "kill"}   \* a service is killed or paused (pumba)

Balance == -MaxBalance-1 .. MaxBalance

ASSUME BankAssumption ==
  /\ MaxBalance \in Nat
  /\ Connections \in Nat \ {0}
  /\ Opening \in [Account -> Balance]
  /\ Amount \in [Transfer -> Balance]
  /\ IsFiniteSet(Transfer) /\ IsFiniteSet(Account)
  /\ BankFailures \subseteq BankFailure

VARIABLES
  balance, \* table accounts
  at,      \* where `create` is for each transfer, an HTTP status once it has answered
  call,    \* per transfer and leg, the accounts service's handling of the adjust call
  mail     \* the transfers whose receipt has reached the SMTP server

bankVars == <<balance, at, call, mail>>

Leg      == {"debit", "credit"}
Answered == {"201", "400", "500"}
Position == {"none", "debit", "credit", "notify", "dropped"} \cup Answered
Handling == {"none", "waiting", "holding", "applied", "failed"}

BankTypeOK ==
  /\ balance \in [Account -> Balance]
  /\ at \in [Transfer -> Position]
  /\ call \in [Transfer -> [Leg -> Handling]]
  /\ mail \subseteq Transfer

BankInit ==
  /\ balance = Opening
  /\ at = [t \in Transfer |-> "none"]
  /\ call = [t \in Transfer |-> [leg \in Leg |-> "none"]]
  /\ mail = {}

Handle(t, leg, from, to) ==
  /\ call[t][leg] = from
  /\ call' = [call EXCEPT ![t][leg] = to]

-----------------------------------------------------------------------------
(* The accounts service: POST /accounts/:id/adjust.                        *)

NameOf(t, leg) == IF leg = "debit" THEN From[t] ELSE To[t]

\* `-req.amount` as the services are built (--release, no overflow checks): the
\* least i64 is its own negation.  A debug build panics there instead, before
\* the debit is called.
Negated(amount) == IF amount = -MaxBalance-1 THEN amount ELSE -amount

Delta_Unsigned(t, leg) == Amount[t]
Delta(t, leg) == IF leg = "debit" THEN Negated(Amount[t]) ELSE Amount[t]

Held == {h \in Transfer \X Leg : call[h[1]][h[2]] = "holding"}

Acquire_OffByOne(t, leg) ==
  /\ Cardinality(Held) <= Connections
  /\ Handle(t, leg, "waiting", "holding")
  /\ UNCHANGED <<balance, at, mail>>

\* execute(&pool) waits for a connection
Acquire(t, leg) ==
  /\ Cardinality(Held) < Connections
  /\ Handle(t, leg, "waiting", "holding")
  /\ UNCHANGED <<balance, at, mail>>

\* acquire_timeout, when the pool is used up or the database stalls
AcquireTimeout(t, leg) ==
  /\ Cardinality(Held) >= Connections \/ "stall" \in BankFailures
  /\ Handle(t, leg, "waiting", "failed")
  /\ UNCHANGED <<balance, at, mail>>

\* UPDATE accounts SET balance = balance + delta: one statement, and one that
\* is content with no row of that id
Added(t, leg) ==
  [a \in Account |-> IF a = NameOf(t, leg) THEN balance[a] + Delta(t, leg) ELSE balance[a]]

Update(t, leg) ==
  /\ Added(t, leg) \in [Account -> Balance]
  /\ Handle(t, leg, "holding", "applied")
  /\ balance' = Added(t, leg)
  /\ UNCHANGED <<at, mail>>

\* "bigint out of range", or the connection breaks before the statement is executed
UpdateFails(t, leg) ==
  /\ Added(t, leg) \notin [Account -> Balance] \/ "stall" \in BankFailures
  /\ Handle(t, leg, "holding", "failed")
  /\ UNCHANGED <<balance, at, mail>>

\* the handler is dropped at an await: its caller has gone, or its process dies,
\* of which SendFails is what the caller sees
Abandon(t, leg) ==
  /\ at[t] # leg
  /\ \E from \in {"waiting", "holding"} : Handle(t, leg, from, "failed")
  /\ UNCHANGED <<balance, at, mail>>

-----------------------------------------------------------------------------
(* The transactions service: POST /transactions.                           *)

\* the debit call is made; no check of the amount or of the balance
Arrive(t) ==
  /\ at[t] = "none"
  /\ at' = [at EXCEPT ![t] = "debit"]
  /\ Handle(t, "debit", "none", "waiting")
  /\ UNCHANGED <<balance, mail>>

\* what accounts answers: 204 after the UPDATE, 500 otherwise, also when the
\* UPDATE was executed and the database's reply got lost
Says(t, leg, ok) ==
  /\ at[t] = leg
  /\ call[t][leg] \in {"applied", "failed"}
  /\ IF ok THEN call[t][leg] = "applied" ELSE call[t][leg] = "failed" \/ "stall" \in BankFailures

DebitDone(t) ==
  /\ Says(t, "debit", TRUE)
  /\ at' = [at EXCEPT ![t] = "credit"]
  /\ Handle(t, "credit", "none", "waiting")
  /\ UNCHANGED <<balance, mail>>

CreditDone(t) ==
  /\ Says(t, "credit", TRUE)
  /\ at' = [at EXCEPT ![t] = "notify"]
  /\ UNCHANGED <<balance, call, mail>>

\* "debit failed" or "credit failed"; what was debited stays debited
Refuse_CreditIgnored(t) ==
  /\ \E leg \in Leg : Says(t, leg, FALSE)
  /\ at' = [at EXCEPT ![t] = IF at[t] = "credit" THEN "notify" ELSE "400"]
  /\ UNCHANGED <<balance, call, mail>>

Refuse(t) ==
  /\ \E leg \in Leg : Says(t, leg, FALSE)
  /\ at' = [at EXCEPT ![t] = "400"]
  /\ UNCHANGED <<balance, call, mail>>

\* send() returns an error: the call may never have arrived, still run, be done,
\* or die with its process
SendFails(t) ==
  /\ BankFailures \cap {"lost", "kill"} # {}
  /\ at[t] \in Leg
  /\ at' = [at EXCEPT ![t] = "500"]
  /\ UNCHANGED <<balance, call, mail>>

\* POST /notify, which the handler forwards to the SMTP server: the receipt
\* arrives there or not
Mailed(t) == mail' \in {mail, mail \cup {t}}

\* the result of the notification is ignored
Notify(t) ==
  /\ at[t] = "notify"
  /\ at' = [at EXCEPT ![t] = "201"]
  /\ Mailed(t)
  /\ UNCHANGED <<balance, call>>

\* the connection of the client is closed, or the service is killed: `create`
\* is dropped at the await it has come to
Hangup(t) ==
  /\ at[t] \in Leg \cup {"notify"}
  /\ at' = [at EXCEPT ![t] = "dropped"]
  /\ IF at[t] = "notify" THEN Mailed(t) ELSE UNCHANGED mail
  /\ UNCHANGED <<balance, call>>

Adjust(t, leg) ==
  Acquire(t, leg) \/ AcquireTimeout(t, leg) \/ Update(t, leg) \/ UpdateFails(t, leg)

Create(t) == DebitDone(t) \/ CreditDone(t) \/ Refuse(t) \/ SendFails(t) \/ Notify(t)

-----------------------------------------------------------------------------
Applied(t, leg) == call[t][leg] = "applied"

\* where `create` is and what accounts has done for it
InStep ==
  \A t \in Transfer :
    /\ at[t] = "none" => call[t]["debit"] = "none"
    /\ at[t] \in {"none", "debit"} => call[t]["credit"] = "none"
    /\ at[t] = "debit" => call[t]["debit"] # "none"
    /\ at[t] = "credit" => call[t]["credit"] # "none"
    /\ call[t]["credit"] # "none" => Applied(t, "debit")
    /\ at[t] \in {"notify", "201"} => Applied(t, "credit")
    /\ t \in mail => Applied(t, "credit") /\ at[t] \in {"201", "dropped"}

\* the pool is never overdrawn
PoolBounded == Cardinality(Held) <= Connections

=============================================================================
