---------------------------- MODULE MutationAudit ----------------------------
(***************************************************************************)
(* The boundary every GraphQL mutation passes, and the audit outbox.  The  *)
(* boundary records an intent, runs the handler in a lazily begun          *)
(* serializable transaction and holds its response back; a success, or a   *)
(* failure marked to be kept, commits together with its outcome, which a   *)
(* dispatcher delivers later under a claim.  Anything else is rolled back  *)
(* and its failure recorded on its own.                                    *)
(*                                                                         *)
(* A request without a recorded intent does not reach the handler and does *)
(* not arrive here.  Every claim has a new token and counts a try, so the  *)
(* try stands for the token; replicas claim and work at the same time.     *)
(* The primary key of audit_events, which would refuse an event delivered  *)
(* twice, is left out: the claim has to do.                                *)
(***************************************************************************)
EXTENDS Naturals

CONSTANTS
  MaxTries,    \* MutationAuditDispatcherConfig.MaxAttempts
  MaxEvents    \* bound: requests, expiries, errors, crashes, overrun leases

ASSUME AuditAssumption ==
  /\ MaxTries \in Nat \ {0}
  /\ MaxEvents \in Nat

VARIABLES
  request,     \* how far each request is
  last,        \* requests so far; each has the next number
  outcome,     \* mutation_audit_outbox, by request
  trail,       \* how often audit_events has the outcome of a request
  task,        \* claims that a dispatcher is working on, by request and try
  done,        \* requests whose client was told of their success
  events       \* what MaxEvents bounds, so far

boundaryVars == <<request, last, done>>
auditVars == <<boundaryVars, outcome, trail, task, events>>

Id == 1..MaxEvents

Try == 1..MaxTries

Gone == [pc |-> "gone"]

NoOutcome == [status |-> "none", tries |-> 0, leased |-> FALSE]

Outcome == [status : {"none", "pending", "processing", "delivered", "dead"},
            tries : 0..MaxTries, leased : BOOLEAN]

InitAudit ==
  /\ request = [i \in Id |-> Gone]
  /\ last = 0
  /\ outcome = [i \in Id |-> NoOutcome]
  /\ trail = [i \in Id |-> 0]
  /\ task = [i \in Id |-> [k \in Try |-> "none"]]
  /\ done = {}
  /\ events = 0

Event ==
  /\ events < MaxEvents
  /\ events' = events + 1

-----------------------------------------------------------------------------
(***************************************************************************)
(* The boundary.                                                           *)
(***************************************************************************)

Arrive(ask) ==
  /\ Event
  /\ last' = last + 1
  /\ request' = [request EXCEPT ![last + 1] =
       [pc |-> "handle", ask |-> ask, reply |-> "none"]]
  /\ UNCHANGED <<outcome, trail, task, done>>

Move(i, pc, reply) ==
  request' = [request EXCEPT ![i] = [@ EXCEPT !.pc = pc, !.reply = reply]]

\* Mutant: the response is what the handler made of it.
HandlerReply(reply) == reply

\* After an error of Enqueue or Commit: writeAuditUnavailable.
CommitErrorReply(reply) == "unavailable"

\* Mutant: a commit that reports an error is recorded as a failure.
RecordFailure(reply) == "record"

\* It may have committed, so no failure is recorded.
AfterCommitError(reply) == "flush"

CommitReportsError(i, reply) ==
  /\ Event
  /\ Move(i, AfterCommitError(reply), CommitErrorReply(reply))

\* Enqueue and Commit; the error of a commit says nothing of its effect.
CommitWithOutcome(i, reply) ==
  /\ outcome' = [outcome EXCEPT ![i].status = "pending"]
  /\ \/ Move(i, "flush", reply) /\ UNCHANGED events
     \/ CommitReportsError(i, reply)
  /\ UNCHANGED <<last, trail, task, done>>

\* Rollback, then a failure on its own.
RollBack(i, reply) ==
  /\ Move(i, "record", reply)
  /\ UNCHANGED <<last, outcome, trail, task, done>>

\* The transaction is lost in Enqueue or Commit.
LoseCommit(i, reply) ==
  /\ CommitReportsError(i, reply)
  /\ UNCHANGED <<last, outcome, trail, task, done>>

\* recorder.Record outside the request's transaction; an error is logged.
RecordAlone(i) ==
  /\ request[i].pc = "record"
  /\ \/ trail' = [trail EXCEPT ![i] = @ + 1] /\ UNCHANGED events
     \/ Event /\ UNCHANGED trail
  /\ Move(i, "flush", request[i].reply)
  /\ UNCHANGED <<last, outcome, task, done>>

Flush(i) ==
  /\ request[i].pc = "flush"
  /\ done' = IF request[i].reply = "done" THEN done \cup {i} ELSE done
  /\ request' = [request EXCEPT ![i] = Gone]
  /\ UNCHANGED <<last, outcome, trail, task, events>>

\* The process stops, or the client is gone.
Crash(i) ==
  /\ request[i] # Gone
  /\ Event
  /\ request' = [request EXCEPT ![i] = Gone]
  /\ UNCHANGED <<last, outcome, trail, task, done>>

-----------------------------------------------------------------------------
(***************************************************************************)
(* The dispatcher.                                                         *)
(***************************************************************************)

\* Mutant: the lease outlives the claim.
KeptLease(i, status) == [outcome[i] EXCEPT !.status = status]

Released(i, status) == [outcome[i] EXCEPT !.status = status, !.leased = FALSE]

Expired(i) == outcome[i].status = "processing" /\ ~outcome[i].leased

Claimable(i) ==
  /\ outcome[i].tries < MaxTries
  /\ outcome[i].status = "pending" \/ Expired(i)

\* Mutant: a row whose last claim was lost stays as it is.
Unswept == outcome

\* DeadExpiredMutationAudits.
Swept ==
  [i \in Id |->
     IF Expired(i) /\ outcome[i].tries >= MaxTries
     THEN Released(i, "dead") ELSE outcome[i]]

Claim(i) ==
  /\ Claimable(i)
  /\ outcome' = [Swept EXCEPT ![i] =
       [status |-> "processing", tries |-> @.tries + 1, leased |-> TRUE]]
  /\ task' = [task EXCEPT ![i][outcome[i].tries + 1] = "deliver"]
  /\ UNCHANGED <<boundaryVars, trail, events>>

\* A claim that finds nothing to deliver.
Sweep ==
  /\ Swept # outcome
  /\ \A i \in Id : ~Claimable(i)
  /\ outcome' = Swept
  /\ UNCHANGED <<boundaryVars, trail, task, events>>

\* Mutant: what was claimed is delivered.
Claimed(i, k) == TRUE

\* GetMutationAuditForDelivery, RetryMutationAuditClaim: status and token.
Holds(i, k) == outcome[i].status = "processing" /\ outcome[i].tries = k

Rest(i, k) == task' = [task EXCEPT ![i][k] = "none"]

\* ErrInvalidAuditOutbox: another replica has it, or it is delivered.
Skip(i, k) ==
  /\ task[i][k] # "none"
  /\ ~Holds(i, k)
  /\ Rest(i, k)
  /\ UNCHANGED <<boundaryVars, outcome, trail, events>>

\* The event and the delivery in one transaction, whose commit may be
\* reported as an error.
Deliver(i, k) ==
  /\ task[i][k] = "deliver"
  /\ Holds(i, k)
  /\ trail' = [trail EXCEPT ![i] = @ + 1]
  /\ outcome' = [outcome EXCEPT ![i] = Released(i, "delivered")]
  /\ \/ Rest(i, k) /\ UNCHANGED events
     \/ task' = [task EXCEPT ![i][k] = "retry"] /\ Event
  /\ UNCHANGED boundaryVars

FailDelivery(i, k) ==
  /\ task[i][k] = "deliver"
  /\ Event
  /\ task' = [task EXCEPT ![i][k] = "retry"]
  /\ UNCHANGED <<boundaryVars, outcome, trail>>

Retry(i, k) ==
  /\ task[i][k] = "retry"
  /\ Holds(i, k)
  /\ outcome' = [outcome EXCEPT ![i] =
       Released(i, IF @.tries >= MaxTries THEN "dead" ELSE "pending")]
  /\ Rest(i, k)
  /\ UNCHANGED <<boundaryVars, trail, events>>

DispatcherStops(i, k) ==
  /\ task[i][k] # "none"
  /\ Event
  /\ Rest(i, k)
  /\ UNCHANGED <<boundaryVars, outcome, trail>>

\* The lease of a dispatcher that stopped; of one that works, it is an event.
LeaseExpires(i) ==
  /\ outcome[i].leased
  /\ IF task[i][outcome[i].tries] # "none" THEN Event ELSE UNCHANGED events
  /\ outcome' = [outcome EXCEPT ![i].leased = FALSE]
  /\ UNCHANGED <<boundaryVars, trail, task>>

Dispatch == Sweep \/ \E i \in Id : Claim(i)

Work(i, k) == Skip(i, k) \/ Deliver(i, k) \/ Retry(i, k)

OutboxNext ==
  \/ Dispatch
  \/ \E i \in Id :
       \/ LeaseExpires(i)
       \/ \E k \in Try : Work(i, k) \/ FailDelivery(i, k) \/ DispatcherStops(i, k)

-----------------------------------------------------------------------------

\* Types; only a claimed outcome has a lease.
AuditTypeOK ==
  /\ last \in 0..events
  /\ outcome \in [Id -> Outcome]
  /\ \A i \in Id : outcome[i].leased => outcome[i].status = "processing"
  /\ trail \in [Id -> Nat]
  /\ task \in [Id -> [Try -> {"none", "deliver", "retry"}]]
  /\ events \in 0..MaxEvents

\* Where the outcome of a request is.
Told == [i \in Id |->
  CASE trail[i] = 1 /\ outcome[i].status \in {"none", "delivered"}     -> "told"
    [] trail[i] = 0 /\ outcome[i].status = "none"                      -> "none"
    [] trail[i] = 0 /\ outcome[i].status \in {"pending", "processing"} -> "owed"
    [] trail[i] = 0 /\ outcome[i].status = "dead"                      -> "lost"
    [] OTHER                                                           -> "wrong"]

\* Every outcome in the outbox is delivered or left dead for an operator.
AuditSettles ==
  \A i \in Id : []<>(outcome[i].status \in {"none", "delivered", "dead"})
=============================================================================
