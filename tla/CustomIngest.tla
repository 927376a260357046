---------------------------- MODULE CustomIngest ----------------------------
(***************************************************************************)
(* A custom provider and the events pushed to it.  The owner creates,      *)
(* updates, rotates and deletes the provider in GraphQL mutations; scripts *)
(* push batches of events with the provider's secret and an idempotency    *)
(* key, and send a batch again when they got no answer.                    *)
(*                                                                         *)
(* Every request reads the provider on the pool and writes in a later,     *)
(* serializable transaction, so other requests commit in between: a read   *)
(* and the transaction are steps of their own.  The columns of the         *)
(* provider that do not matter for ingest (name, description, metrics)     *)
(* behave like `allowed`.  An idempotency key expires by a step; no query  *)
(* sees an expired row, so it counts as absent.                            *)
(***************************************************************************)
EXTENDS Naturals, FiniteSets, Sequences

CONSTANTS
  Request,     \* requests in flight at a time
  Key,         \* idempotency keys
  Event,       \* event ids
  Value,       \* metric values
  Action,      \* activity actions
  AllowedSets, \* what owners allow: sets of actions
  Batches,     \* the batches that are pushed: sequences of items
  MaxSecret,   \* bound: secrets ever generated for the provider
  NoValue      \* "no value"

Item == [event : Event, value : Value, action : Action]

ASSUME IngestAssumption ==
  /\ Batches \subseteq Seq(Item)
  /\ AllowedSets \subseteq SUBSET Action
  /\ NoValue \notin AllowedSets
  /\ MaxSecret \in Nat \ {0}
  /\ NoValue \notin Value
  /\ IsFiniteSet(Event)

VARIABLES
  provider,    \* custom_providers with custom_provider_secrets
  ledger,      \* custom_activity_events
  facts,       \* activity_facts of the provider
  keys,        \* ingest_idempotency_keys
  request,     \* what each request in flight has read
  minted,      \* the last secret generated
  counted,     \* history: events reported as accepted, over all answers
  answered,    \* history: the first answer given for a live key
  intended,    \* history: what the owner's mutations asked for, until raced
  raced        \* history: a mutation saved over one it had not read

tables == <<provider, ledger, facts, keys>>
history == <<counted, answered, intended, raced>>
vars == <<tables, request, minted, history>>

-----------------------------------------------------------------------------

Status == {"active", "disabled"}
Secret == 0..MaxSecret
Count == 0..(Cardinality(Event))

Provider == [status : {"none", "deleted"} \cup Status,
             allowed : AllowedSets \cup {{}}, secret : Secret]

NoProvider == [status |-> "none", allowed |-> {}, secret |-> 0]

Result == [accepted : Nat, duplicate : Nat, rejected : Nat]

\* response_status 0: reserved, not completed.
Pending == [accepted |-> 0, duplicate |-> 0, rejected |-> 0, status |-> 0]
Answer == [accepted : Nat, duplicate : Nat, rejected : Nat, status : {202}]

NoKey == [batch |-> << >>, answer |-> Pending, used |-> FALSE]
KeyRow == {NoKey} \cup [batch : Batches, answer : Answer, used : {TRUE}]

Idle == [op |-> "idle"]

\* An update's input; fields may be left out.
Wish == [status : Status \cup {"keep"}, allowed : AllowedSets \cup {NoValue}]

\* `stale`: another mutation has saved since the provider was read.
RequestState ==
  {Idle}
    \cup [op : {"ingest"}, key : Key, batch : Batches, secret : Secret]
    \cup [op : {"answer"}, key : Key, batch : Batches, answer : Answer]
    \cup [op : {"resolve"}, wish : Wish,
          status : Status, allowed : AllowedSets, stale : BOOLEAN]
    \cup [op : {"save"}, wish : Wish,
          record : Provider, rotates : BOOLEAN, stale : BOOLEAN]

Init ==
  /\ provider = NoProvider
  /\ ledger = [e \in Event |-> NoValue]
  /\ facts = [e \in Event |-> NoValue]
  /\ keys = [k \in Key |-> NoKey]
  /\ request = [r \in Request |-> Idle]
  /\ minted = 0
  /\ counted = 0
  /\ answered = [k \in Key |-> NoKey]
  /\ intended = NoProvider
  /\ raced = FALSE

Exists == provider.status \in Status

-----------------------------------------------------------------------------
(***************************************************************************)
(* The owner's mutations.  Update and rotation save the whole record that  *)
(* they read, with the secret; the save is UPDATE-only.                    *)
(***************************************************************************)

Create(allowed) ==
  /\ provider.status = "none"
  /\ minted < MaxSecret
  /\ minted' = minted + 1
  /\ provider' = [status |-> "active", allowed |-> allowed, secret |-> minted']
  /\ intended' = provider'
  /\ UNCHANGED <<ledger, facts, keys, request, counted, answered, raced>>

\* Mutant: an update without a status activates the provider.
MergedActive(wish) ==
  [status |-> IF wish.status = "keep" THEN "active" ELSE wish.status,
   allowed |-> IF wish.allowed = NoValue THEN provider.allowed ELSE wish.allowed]

\* The resolver's read fills in the fields the input leaves out.
Merged(wish) ==
  [status |-> IF wish.status = "keep" THEN provider.status ELSE wish.status,
   allowed |-> IF wish.allowed = NoValue THEN provider.allowed ELSE wish.allowed]

ResolveUpdate(r, wish) ==
  /\ request[r] = Idle
  /\ Exists
  /\ request' = [request EXCEPT ![r] =
       [op |-> "resolve", wish |-> wish, status |-> Merged(wish).status,
        allowed |-> Merged(wish).allowed, stale |-> FALSE]]
  /\ UNCHANGED <<tables, minted, history>>

\* The service reads again: slug, owner and secret come from this read.
LoadUpdate(r) ==
  /\ request[r].op = "resolve"
  /\ request' = [request EXCEPT ![r] =
       IF Exists
       THEN [op |-> "save", wish |-> @.wish, rotates |-> FALSE,
             record |-> [provider EXCEPT !.status = request[r].status,
                                         !.allowed = request[r].allowed],
             stale |-> @.stale]
       ELSE Idle]
  /\ UNCHANGED <<tables, minted, history>>

Rotate(r) ==
  /\ request[r] = Idle
  /\ Exists
  /\ minted < MaxSecret
  /\ minted' = minted + 1
  /\ request' = [request EXCEPT ![r] =
       [op |-> "save", wish |-> [status |-> "keep", allowed |-> NoValue],
        rotates |-> TRUE, record |-> [provider EXCEPT !.secret = minted'],
        stale |-> FALSE]]
  /\ UNCHANGED <<tables, history>>

\* Mutant: the save is an upsert.
Upserted(record) == record

\* UpdateCustomProvider matches no row of a deleted provider.
Updated(record) == IF Exists THEN record ELSE provider

\* What the provider is to look like after the mutation of state q.
Wished(q) ==
  [status |-> IF q.wish.status = "keep" THEN intended.status ELSE q.wish.status,
   allowed |-> IF q.wish.allowed = NoValue THEN intended.allowed ELSE q.wish.allowed,
   secret |-> IF q.rotates THEN q.record.secret ELSE intended.secret]

Save(r) ==
  LET q == request[r] IN
  /\ q.op = "save"
  /\ provider' = Updated(q.record)
  /\ request' = [o \in Request |->
       IF o = r THEN Idle
       ELSE IF Exists /\ request[o].op \in {"resolve", "save"}
       THEN [request[o] EXCEPT !.stale = TRUE]
       ELSE request[o]]
  /\ IF Exists
     THEN /\ raced' = (raced \/ q.stale)
          /\ intended' = IF raced' THEN NoProvider ELSE Wished(q)
     ELSE UNCHANGED <<intended, raced>>
  /\ UNCHANGED <<ledger, facts, keys, minted, counted, answered>>

\* Locks the provider and deletes its facts; events and keys cascade.
Delete ==
  /\ Exists
  /\ provider' = [NoProvider EXCEPT !.status = "deleted"]
  /\ ledger' = [e \in Event |-> NoValue]
  /\ facts' = [e \in Event |-> NoValue]
  /\ keys' = [k \in Key |-> NoKey]
  /\ answered' = [k \in Key |-> NoKey]
  /\ UNCHANGED <<request, minted, counted, intended, raced>>

-----------------------------------------------------------------------------
(***************************************************************************)
(* Ingest.                                                                 *)
(***************************************************************************)

\* The provider is read and the secret compared before the transaction.
Push(r, k, batch, secret) ==
  /\ request[r] = Idle
  /\ provider.status = "active"
  /\ secret = provider.secret
  /\ request' = [request EXCEPT ![r] =
       [op |-> "ingest", key |-> k, batch |-> batch, secret |-> secret]]
  /\ UNCHANGED <<tables, minted, history>>

\* Mutant: the lock does not compare the secret again.
AdmittedByStatus(q) == provider.status = "active"

\* RunAuthenticatedIngest, under the locks of provider and secret.
Admitted(q) == provider.status = "active" /\ provider.secret = q.secret

Positions(batch) == 1..Len(batch)

\* Items whose action the provider, as locked, allows.
Valid(batch) == {i \in Positions(batch) : batch[i].action \in provider.allowed}

Requested(batch) == {batch[i].event : i \in Valid(batch)}

\* Within a batch, too, the first item of an event wins.
First(batch, e) ==
  batch[CHOOSE i \in Valid(batch) :
          batch[i].event = e
          /\ \A j \in Valid(batch) : batch[j].event = e => i <= j].value

\* Mutant: events of earlier batches are new.
NewAgain(batch) == Requested(batch)

New(batch) == {e \in Requested(batch) : ledger[e] = NoValue}

\* SaveIngestedActivities: ON CONFLICT DO NOTHING.
Recorded(batch) ==
  [e \in Event |-> IF e \in New(batch) THEN First(batch, e) ELSE ledger[e]]

\* Mutant: the timeline shows what the request says.
ProjectedRequest(batch, canonical) ==
  [e \in Event |-> IF e \in Requested(batch) THEN First(batch, e) ELSE facts[e]]

\* The facts of all requested events are written from the ledger.
Projected(batch, canonical) ==
  [e \in Event |-> IF e \in Requested(batch) THEN canonical[e] ELSE facts[e]]

Outcome(batch) ==
  [accepted |-> Cardinality(New(batch)),
   duplicate |-> Cardinality(Valid(batch)) - Cardinality(New(batch)),
   rejected |-> Len(batch) - Cardinality(Valid(batch)),
   status |-> 202]

Reserved(batch) == [batch |-> batch, answer |-> Pending, used |-> TRUE]

\* Mutant: the response is not stored.
CompletedPending(row, answer) == row

\* The compare-and-set of CompleteIngestKey.
Completed(row, answer) ==
  IF row.answer = Pending THEN [row EXCEPT !.answer = answer] ELSE row

Ingest(r) ==
  LET q == request[r]
      answer == Outcome(q.batch) IN
  /\ q.op = "ingest"
  /\ Admitted(q)
  /\ ~keys[q.key].used
  /\ ledger' = Recorded(q.batch)
  /\ facts' = Projected(q.batch, ledger')
  /\ keys' = [keys EXCEPT ![q.key] = Completed(Reserved(q.batch), answer)]
  /\ request' = [request EXCEPT ![r] = 
       [op |-> "answer", key |-> q.key, batch |-> q.batch, answer |-> answer]]
  /\ counted' = counted + answer.accepted
  /\ answered' = [answered EXCEPT ![q.key] =
       [batch |-> q.batch, answer |-> answer, used |-> TRUE]]
  /\ UNCHANGED <<provider, minted, intended, raced>>

\* Mutant: any batch gets the stored answer.
SameCompleted(row, batch) == row.answer # Pending

\* The fingerprint of the request and a completed response.
Same(row, batch) == row.batch = batch /\ row.answer # Pending

Replay(r) ==
  LET q == request[r] IN
  /\ q.op = "ingest"
  /\ Admitted(q)
  /\ keys[q.key].used
  /\ Same(keys[q.key], q.batch)
  /\ request' = [request EXCEPT ![r] =
       [op |-> "answer", key |-> q.key, batch |-> q.batch,
        answer |-> keys[q.key].answer]]
  /\ UNCHANGED <<tables, minted, history>>

\* Unauthorized, disabled, deleted, or a conflict on the key.
Refuse(r) ==
  LET q == request[r] IN
  /\ q.op = "ingest"
  /\ Admitted(q) => keys[q.key].used /\ ~Same(keys[q.key], q.batch)
  /\ request' = [request EXCEPT ![r] = Idle]
  /\ UNCHANGED <<tables, minted, history>>

\* A database error, a deadline or a crash: the transaction is rolled back.
Fail(r) ==
  /\ request[r].op \in {"ingest", "resolve", "save"}
  /\ request' = [request EXCEPT ![r] = Idle]
  /\ UNCHANGED <<tables, minted, history>>

\* The answer arrives or is lost; the script may send the batch again.
Finish(r) ==
  /\ request[r].op = "answer"
  /\ request' = [request EXCEPT ![r] = Idle]
  /\ UNCHANGED <<tables, minted, history>>

\* 24 hours have passed.
Expire(k) ==
  /\ keys[k].used
  /\ keys' = [keys EXCEPT ![k] = NoKey]
  /\ answered' = [answered EXCEPT ![k] = NoKey]
  /\ UNCHANGED <<provider, ledger, facts, request, minted, counted, intended, raced>>

-----------------------------------------------------------------------------

RequestNext(r) ==
  \/ \E wish \in Wish : ResolveUpdate(r, wish)
  \/ \E k \in Key, batch \in Batches, secret \in Secret : Push(r, k, batch, secret)
  \/ LoadUpdate(r) \/ Rotate(r) \/ Save(r)
  \/ Ingest(r) \/ Replay(r) \/ Refuse(r) \/ Fail(r) \/ Finish(r)

Next ==
  \/ \E allowed \in AllowedSets : Create(allowed)
  \/ Delete
  \/ \E r \in Request : RequestNext(r)
  \/ \E k \in Key : Expire(k)

Spec == Init /\ [][Next]_vars

-----------------------------------------------------------------------------

\* Types; committed rows are completed, since a reservation is rolled back
\* with the transaction that made it.
TypeOK ==
  /\ provider \in Provider
  /\ ledger \in [Event -> Value \cup {NoValue}]
  /\ facts \in [Event -> Value \cup {NoValue}]
  /\ keys \in [Key -> KeyRow]
  /\ request \in [Request -> RequestState]
  /\ minted \in Secret
  /\ counted \in Nat
  /\ answered \in [Key -> KeyRow]
  /\ intended \in Provider
  /\ raced \in BOOLEAN

\* The timeline shows the ledger: no event is missing, and none has a value
\* that a later batch sent (canonicalRequestedActivities in Ingest).
TimelineShowsLedger == facts = ledger

\* A provider that was deleted stays deleted, and nothing of it is left or
\* comes back, whatever updates, rotations and pushes had read it before: a
\* stale save is UPDATE-only and cannot recreate a deleted provider
\* (docs/DATA_RETENTION_AND_DELETION.ko.md), and an ingest fails its lock.
DeletedLeavesNothing ==
  [][provider.status = "deleted" \/ provider'.status = "deleted" =>
       /\ provider' = [NoProvider EXCEPT !.status = "deleted"]
       /\ \A e \in Event : ledger'[e] = NoValue /\ facts'[e] = NoValue
       /\ \A k \in Key : ~keys'[k].used]_vars

\* As long as no mutation saved over one that it had not read, the provider
\* is what its owner asked for: an update keeps the secret and the fields
\* it does not mention, a rotation keeps the rest.
MutationsAddUp == Exists /\ ~raced => provider = intended

\* Events are recorded, and stored answers given away, only to who presents
\* the secret that is current at the commit, while the provider is active:
\* "a credential rotation or disable either commits before this check or
\* waits until this ingest commits".
AnsweredNow(r) == request'[r].op = "answer" /\ request[r].op # "answer"

OnlyAuthorized ==
  [][\A r \in Request : AnsweredNow(r) =>
       provider.status = "active" /\ request[r].secret = provider.secret]_vars

\* All answers given under a live key are the first one, and to the same
\* batch (replayIngestIdempotency).
ReplaysAgree ==
  [][\A r \in Request :
       AnsweredNow(r) /\ answered[request[r].key].used =>
         /\ request'[r].answer = answered[request[r].key].answer
         /\ request'[r].batch = answered[request[r].key].batch]_vars

\* Over all batches, keys, retries and expiries an event is counted once and
\* shown with its first value, until the provider is deleted.
Promise == INSTANCE EventTimeline WITH
  phase <- CASE provider.status = "none"    -> "none"
             [] provider.status = "deleted" -> "withdrawn"
             [] OTHER                       -> "open",
  timeline <- facts

ImplementsTimeline == Promise!Spec
=============================================================================
