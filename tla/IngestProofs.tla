----------------------------- MODULE IngestProofs -----------------------------
(***************************************************************************)
(* CustomIngest for any requests, keys, events, values, batches and any    *)
(* number of secrets: its types, its safety invariants, its action         *)
(* properties, and that it implements EventTimeline.                       *)
(*                                                                         *)
(* The inductive invariant says that what a request carries between its    *)
(* read and its transaction is what it would read now, unless it is marked *)
(* as stale, and that the timeline and the stored answers repeat the       *)
(* ledger and the answers that were given.                                 *)
(***************************************************************************)
EXTENDS CustomIngest, FiniteSetTheorems, WellFoundedInduction, TLAPS

USE IngestAssumption

-----------------------------------------------------------------------------
(***************************************************************************)
(* Batches.                                                                *)
(***************************************************************************)

LEMMA BatchItems ==
  ASSUME NEW batch \in Batches
  PROVE  /\ Len(batch) \in Nat
         /\ \A i \in Positions(batch) : batch[i] \in Item
         /\ Valid(batch) \subseteq Positions(batch)
         /\ Requested(batch) \subseteq Event
         /\ New(batch) \subseteq Requested(batch)
<1>1. batch \in Seq(Item)
  OBVIOUS
<1>2. Len(batch) \in Nat /\ \A i \in Positions(batch) : batch[i] \in Item
  BY <1>1 DEF Positions
<1>3. Valid(batch) \subseteq Positions(batch)
  BY DEF Valid
<1>4. Requested(batch) \subseteq Event
  BY <1>2, <1>3 DEF Requested, Item
<1> QED
  BY <1>2, <1>3, <1>4 DEF New

\* A nonempty set of positions has a least one.
LEMMA LeastPosition ==
  ASSUME NEW S, S \subseteq Nat, S # {}
  PROVE  \E i \in S : \A j \in S : i <= j
<1>1. \E i \in S : \A j \in S : ~(<<j, i>> \in OpToRel(<, Nat))
  BY NatLessThanWellFounded, WFMin
<1>2. PICK i \in S : \A j \in S : ~(<<j, i>> \in OpToRel(<, Nat))
  BY <1>1
<1>3. ASSUME NEW j \in S PROVE i <= j
  <2>1. i \in Nat /\ j \in Nat
    OBVIOUS
  <2>2. ~(j < i)
    BY <1>2, <2>1 DEF OpToRel
  <2> QED
    BY <2>1, <2>2
<1> QED
  BY <1>3

\* The first item of an event has a value of the batch.
LEMMA FirstValue ==
  ASSUME NEW batch \in Batches, NEW e \in Requested(batch)
  PROVE  First(batch, e) \in Value
<1> DEFINE S == {i \in Valid(batch) : batch[i].event = e}
<1>1. S # {} /\ S \subseteq Nat
  BY BatchItems DEF Requested, Positions
<1>2. PICK i \in S : \A j \in S : i <= j
  BY <1>1, LeastPosition
<1>3. \E p \in Valid(batch) :
         batch[p].event = e
         /\ \A j \in Valid(batch) : batch[j].event = e => p <= j
  BY <1>2
<1>4. ASSUME NEW p \in Valid(batch) PROVE batch[p].value \in Value
  BY BatchItems DEF Item
<1> HIDE DEF S
<1> QED
  BY <1>3, <1>4 DEF First

LEMMA OutcomeType ==
  ASSUME NEW batch \in Batches
  PROVE  /\ Outcome(batch) \in Answer
         /\ Outcome(batch) # Pending
         /\ Outcome(batch).accepted = Cardinality(New(batch))
         /\ Outcome(batch).accepted \in Nat
<1>1. /\ IsFiniteSet(Positions(batch)) /\ Cardinality(Positions(batch)) = Len(batch)
  <2>1. Len(batch) \in Nat
    BY BatchItems
  <2>2. PICK n \in Nat : n = Len(batch)
    BY <2>1
  <2>3. IsFiniteSet(1..n) /\ Cardinality(1..n) = IF 1 > n THEN 0 ELSE n - 1 + 1
    BY FS_Interval
  <2> QED
    BY <2>2, <2>3 DEF Positions
<1>2. /\ IsFiniteSet(Valid(batch)) /\ Cardinality(Valid(batch)) <= Len(batch)
  BY <1>1, BatchItems, FS_Subset
<1>3. /\ IsFiniteSet(Requested(batch))
      /\ Cardinality(Requested(batch)) <= Cardinality(Valid(batch))
  <2> DEFINE f == [i \in Valid(batch) |-> batch[i].event]
  <2>1. f \in Surjection(Valid(batch), Requested(batch))
    BY DEF Requested, Surjection
  <2> QED
    BY <1>2, <2>1, FS_Surjection
<1>4. /\ IsFiniteSet(New(batch)) /\ Cardinality(New(batch)) <= Cardinality(Requested(batch))
  BY <1>3, BatchItems, FS_Subset
<1>5. /\ Cardinality(New(batch)) \in Nat /\ Cardinality(Requested(batch)) \in Nat
      /\ Cardinality(Valid(batch)) \in Nat /\ Len(batch) \in Nat
  BY <1>2, <1>3, <1>4, BatchItems, FS_CardinalityType
<1> QED
  BY <1>2, <1>3, <1>4, <1>5 DEF Outcome, Answer, Pending

-----------------------------------------------------------------------------
(***************************************************************************)
(* The inductive invariant.                                                *)
(***************************************************************************)

\* What a mutation carries is what its owner wishes of the provider as it is.
Fresh(q) ==
  /\ q.op = "resolve" =>
       q.status = Merged(q.wish).status /\ q.allowed = Merged(q.wish).allowed
  /\ q.op = "save" =>
       /\ q.record.status = Merged(q.wish).status
       /\ q.record.allowed = Merged(q.wish).allowed
       /\ ~q.rotates => q.record.secret = provider.secret

Consistent(q) ==
  /\ provider.status = "none" => q = Idle
  /\ q.op = "save" => q.record.status \in Status /\ q.record.allowed \in AllowedSets
  /\ q.op \in {"resolve", "save"} /\ Exists => q.stale \/ Fresh(q)

\* What is deleted is empty; the timeline and the answers repeat the tables.
TablesOK ==
  /\ Exists => provider.allowed \in AllowedSets
  /\ provider.status = "deleted" =>
       /\ provider = [NoProvider EXCEPT !.status = "deleted"]
       /\ \A e \in Event : ledger[e] = NoValue
       /\ \A k \in Key : ~keys[k].used
  /\ TimelineShowsLedger
  /\ answered = keys

IngestInvariant ==
  /\ TypeOK
  /\ TablesOK
  /\ MutationsAddUp
  /\ \A r \in Request : Consistent(request[r])

LEMMA RequestShape ==
  ASSUME NEW q \in RequestState
  PROVE  /\ q = Idle \/ q.op \in {"ingest", "answer", "resolve", "save"}
         /\ q.op = "ingest" => q.key \in Key /\ q.batch \in Batches /\ q.secret \in Secret
         /\ q.op = "answer" => q.key \in Key /\ q.batch \in Batches /\ q.answer \in Answer
         /\ q.op = "resolve" =>
              /\ q \in [op : {"resolve"}, wish : Wish, status : Status,
                        allowed : AllowedSets, stale : BOOLEAN]
              /\ q.wish \in Wish /\ q.status \in Status
              /\ q.allowed \in AllowedSets /\ q.stale \in BOOLEAN
         /\ q.op = "save" =>
              /\ q \in [op : {"save"}, wish : Wish, record : Provider,
                        rotates : BOOLEAN, stale : BOOLEAN]
              /\ q.wish \in Wish /\ q.record \in Provider
              /\ q.rotates \in BOOLEAN /\ q.stale \in BOOLEAN
BY DEF RequestState, Idle

LEMMA KeyShape ==
  ASSUME NEW row \in KeyRow, row.used
  PROVE  row \in [batch : Batches, answer : Answer, used : {TRUE}]
         /\ row.answer \in Answer /\ row.batch \in Batches
<1>1. ~NoKey.used
  BY Zenon DEF NoKey
<1>2. row # NoKey
  BY <1>1
<1> QED
  BY <1>2 DEF KeyRow

LEMMA InitInvariant == Init => IngestInvariant
<1> SUFFICES ASSUME Init PROVE IngestInvariant
  OBVIOUS
<1>1. NoProvider \in Provider
  BY DEF NoProvider, Provider, Secret
<1>2. TypeOK
  <2>1. NoKey \in KeyRow /\ Idle \in RequestState /\ 0 \in Secret
    BY DEF KeyRow, RequestState, Secret
  <2> QED
    BY <1>1, <2>1 DEF Init, TypeOK
<1>3. TablesOK /\ MutationsAddUp
  BY DEF Init, TablesOK, MutationsAddUp, Exists, Status, NoProvider, TimelineShowsLedger
<1>4. \A r \in Request : Consistent(request[r])
  BY DEF Init, Consistent, Idle
<1> QED
  BY <1>2, <1>3, <1>4 DEF IngestInvariant

-----------------------------------------------------------------------------
(***************************************************************************)
(* Steps that read.                                                        *)
(***************************************************************************)

\* A request goes on; the tables stay.
LEMMA RequestStep ==
  ASSUME IngestInvariant, UNCHANGED <<tables, history>>, minted' \in Secret,
         NEW r \in Request, NEW q \in RequestState, Consistent(q),
         request' = [request EXCEPT ![r] = q]
  PROVE  IngestInvariant'
<1> USE DEF tables, history, IngestInvariant
<1>1. TypeOK'
  BY DEF TypeOK
<1>2. TablesOK' /\ MutationsAddUp'
  BY DEF TablesOK, MutationsAddUp, Exists, TimelineShowsLedger
<1>3. \A o \in Request : request'[o] = q \/ request'[o] = request[o]
  BY DEF TypeOK
<1>4. ASSUME NEW p, Consistent(p) PROVE Consistent(p)'
  BY <1>4 DEF Consistent, Fresh, Merged, Exists
<1> QED
  BY <1>1, <1>2, <1>3, <1>4

LEMMA ProviderFields ==
  ASSUME IngestInvariant, Exists
  PROVE  /\ provider \in Provider /\ provider.status \in Status
         /\ provider.allowed \in AllowedSets /\ provider.secret \in Secret
         /\ provider.status \notin {"none", "deleted"}
BY DEF IngestInvariant, TypeOK, TablesOK, Provider, Exists, Status

LEMMA MergedFields ==
  ASSUME IngestInvariant, Exists, NEW wish \in Wish
  PROVE  Merged(wish).status \in Status /\ Merged(wish).allowed \in AllowedSets
BY ProviderFields DEF Merged, Wish

LEMMA ResolveUpdateStep ==
  ASSUME IngestInvariant, NEW r \in Request, NEW wish \in Wish, ResolveUpdate(r, wish)
  PROVE  IngestInvariant'
<1> PICK q : q = [op |-> "resolve", wish |-> wish, status |-> Merged(wish).status,
                  allowed |-> Merged(wish).allowed, stale |-> FALSE]
  OBVIOUS
<1>1. q \in RequestState
  BY MergedFields DEF RequestState, ResolveUpdate
<1>2. Consistent(q)
  BY ProviderFields DEF Consistent, Fresh, ResolveUpdate
<1> QED
  BY <1>1, <1>2, RequestStep DEF ResolveUpdate, IngestInvariant, TypeOK

LEMMA LoadUpdateStep ==
  ASSUME IngestInvariant, NEW r \in Request, LoadUpdate(r)
  PROVE  IngestInvariant'
<1>1. request[r] \in RequestState /\ Consistent(request[r]) /\ minted \in Secret
  BY DEF IngestInvariant, TypeOK
<1>2. CASE Exists
  <2> PICK record : record = [provider EXCEPT !.status = request[r].status,
                                              !.allowed = request[r].allowed]
    OBVIOUS
  <2> PICK q : q = [op |-> "save", wish |-> request[r].wish, rotates |-> FALSE,
                    record |-> record, stale |-> request[r].stale]
    OBVIOUS
  <2>1. /\ request[r].wish \in Wish /\ request[r].status \in Status
        /\ request[r].allowed \in AllowedSets /\ request[r].stale \in BOOLEAN
        /\ request[r].op = "resolve"
    BY <1>1, RequestShape DEF LoadUpdate
  <2>2. /\ record \in Provider /\ record.status = request[r].status
        /\ record.allowed = request[r].allowed /\ record.secret = provider.secret
    BY <1>2, <2>1, ProviderFields DEF Provider
  <2>3. q \in RequestState
    BY <2>1, <2>2 DEF RequestState
  <2>4. Consistent(q)
    BY <1>1, <1>2, <2>1, <2>2, ProviderFields DEF Consistent, Fresh
  <2>5. request' = [request EXCEPT ![r] = q]
    BY <1>1, <1>2 DEF LoadUpdate
  <2> QED
    BY <1>1, <2>3, <2>4, <2>5, RequestStep DEF LoadUpdate
<1>3. CASE ~Exists
  <2>1. Idle \in RequestState /\ Consistent(Idle)
    BY DEF RequestState, Consistent, Idle
  <2> QED
    BY <1>1, <1>3, <2>1, RequestStep DEF LoadUpdate
<1> QED
  BY <1>2, <1>3

LEMMA RotateStep ==
  ASSUME IngestInvariant, NEW r \in Request, Rotate(r)
  PROVE  IngestInvariant'
<1>1. Exists /\ minted' \in Secret
  BY DEF Rotate, Secret, IngestInvariant, TypeOK
<1> PICK new \in Secret : new = minted'
  BY <1>1
<1> PICK record : record = [provider EXCEPT !.secret = new]
  OBVIOUS
<1> PICK wish : wish = [status |-> "keep", allowed |-> NoValue]
  OBVIOUS
<1> PICK q : q = [op |-> "save", wish |-> wish, rotates |-> TRUE, record |-> record,
                  stale |-> FALSE]
  OBVIOUS
<1>2. /\ record \in Provider /\ record.status = provider.status
      /\ record.allowed = provider.allowed
  BY <1>1, ProviderFields DEF Provider
<1>3. wish \in Wish /\ wish.status = "keep" /\ wish.allowed = NoValue
  BY DEF Wish
<1>4. q \in RequestState
  BY <1>2, <1>3 DEF RequestState
<1>5. Consistent(q)
  BY <1>1, <1>2, <1>3, ProviderFields DEF Consistent, Fresh, Merged
<1>6. request' = [request EXCEPT ![r] = q]
  BY DEF Rotate
<1> QED
  BY <1>1, <1>4, <1>5, <1>6, RequestStep DEF Rotate

LEMMA PushStep ==
  ASSUME IngestInvariant, NEW r \in Request, NEW k \in Key, NEW batch \in Batches,
         NEW secret \in Secret, Push(r, k, batch, secret)
  PROVE  IngestInvariant'
<1> PICK q : q = [op |-> "ingest", key |-> k, batch |-> batch, secret |-> secret]
  OBVIOUS
<1>1. q \in RequestState /\ Consistent(q)
  BY DEF RequestState, Consistent, Push
<1> QED
  BY <1>1, RequestStep DEF Push, IngestInvariant, TypeOK

LEMMA IdleStep ==
  ASSUME IngestInvariant, NEW r \in Request, Refuse(r) \/ Fail(r) \/ Finish(r)
  PROVE  IngestInvariant'
<1>1. Idle \in RequestState /\ Consistent(Idle) /\ minted \in Secret
  BY DEF RequestState, Consistent, Idle, IngestInvariant, TypeOK
<1> QED
  BY <1>1, RequestStep DEF Refuse, Fail, Finish

LEMMA ReplayStep ==
  ASSUME IngestInvariant, NEW r \in Request, Replay(r)
  PROVE  IngestInvariant'
<1>1. /\ request[r].key \in Key /\ request[r].batch \in Batches
      /\ provider.status = "active" /\ minted \in Secret
  BY RequestShape DEF IngestInvariant, TypeOK, Replay, Admitted
<1>2. keys[request[r].key].answer \in Answer
  BY <1>1, KeyShape DEF IngestInvariant, TypeOK, Replay
<1> PICK q : q = [op |-> "answer", key |-> request[r].key, batch |-> request[r].batch,
                  answer |-> keys[request[r].key].answer]
  OBVIOUS
<1>3. q \in RequestState /\ Consistent(q)
  BY <1>1, <1>2 DEF RequestState, Consistent
<1> QED
  BY <1>1, <1>3, RequestStep DEF Replay

-----------------------------------------------------------------------------
(***************************************************************************)
(* Steps that write.                                                       *)
(***************************************************************************)

LEMMA CreateStep ==
  ASSUME IngestInvariant, NEW allowed \in AllowedSets, Create(allowed)
  PROVE  IngestInvariant'
<1> USE DEF IngestInvariant
<1>1. minted' \in Secret
  BY DEF Create, TypeOK, Secret
<1> PICK new \in Secret : new = minted'
  BY <1>1
<1>2. /\ provider' = [status |-> "active", allowed |-> allowed, secret |-> new]
      /\ provider' \in Provider
  BY DEF Create, Provider, Status
<1>3. provider'.status = "active" /\ provider'.allowed = allowed
  BY <1>2
<1>4. TypeOK'
  BY <1>1, <1>2 DEF Create, TypeOK
<1>5. TablesOK' /\ MutationsAddUp'
  BY <1>3 DEF Create, TablesOK, MutationsAddUp, TimelineShowsLedger
<1>6. ASSUME NEW r \in Request PROVE Consistent(request[r])'
  <2>1. request[r] = Idle /\ request'[r] = Idle
    BY DEF Create, Consistent
  <2> QED
    BY <1>3, <2>1 DEF Consistent, Idle
<1> QED
  BY <1>4, <1>5, <1>6

\* A save of a deleted provider changes nothing but the request.
LEMMA LostSaveStep ==
  ASSUME IngestInvariant, NEW r \in Request, Save(r), ~Exists
  PROVE  IngestInvariant'
<1>1. /\ provider' = provider /\ UNCHANGED <<ledger, facts, keys, history>>
      /\ minted' \in Secret
  BY DEF Save, Updated, history, IngestInvariant, TypeOK
<1>2. Idle \in RequestState /\ Consistent(Idle)
  BY DEF RequestState, Consistent, Idle
<1>3. request' = [request EXCEPT ![r] = Idle]
  BY DEF Save, IngestInvariant, TypeOK
<1> QED
  BY <1>1, <1>2, <1>3, RequestStep DEF tables

\* The requests that a save leaves behind.
LEMMA StaleRequest ==
  ASSUME NEW q \in RequestState, q.op \in {"resolve", "save"}
  PROVE  LET p == [q EXCEPT !.stale = TRUE] IN
         /\ p \in RequestState /\ p.op = q.op /\ p.stale
         /\ p.op = "save" => p.record = q.record
<1>1. CASE q.op = "resolve"
  BY <1>1, RequestShape DEF RequestState
<1>2. CASE q.op = "save"
  BY <1>2, RequestShape DEF RequestState
<1> QED
  BY <1>1, <1>2

LEMMA SaveStep ==
  ASSUME IngestInvariant, NEW r \in Request, Save(r), Exists
  PROVE  IngestInvariant'
<1> USE DEF IngestInvariant
<1> PICK q \in RequestState : q = request[r]
  BY DEF TypeOK
<1>1. /\ q.op = "save" /\ Consistent(q)
      /\ q.wish \in Wish /\ q.record \in Provider
      /\ q.rotates \in BOOLEAN /\ q.stale \in BOOLEAN
      /\ q.record.status \in Status /\ q.record.allowed \in AllowedSets
  BY RequestShape DEF Save, Consistent
<1>2. provider' = q.record /\ UNCHANGED <<ledger, facts, keys, minted, counted, answered>>
  BY DEF Save, Updated
<1>3. raced' = (raced \/ q.stale)
      /\ intended' = IF raced' THEN NoProvider ELSE Wished(q)
  BY DEF Save
<1>4. Wished(q) \in Provider /\ NoProvider \in Provider
  BY <1>1 DEF TypeOK, Wished, Wish, Provider, NoProvider, Secret
<1>5. ASSUME NEW o \in Request
      PROVE  /\ request'[o] \in RequestState
             /\ \/ request'[o] = Idle
                \/ request'[o] = request[o] /\ request[o].op \notin {"resolve", "save"}
                \/ /\ request'[o].op = request[o].op /\ request'[o].stale
                   /\ request'[o].op = "save" => request'[o].record = request[o].record
  <2>1. CASE o = r
    BY <2>1 DEF Save, RequestState
  <2>2. CASE o # r /\ request[o].op \in {"resolve", "save"}
    <3>1. request'[o] = [request[o] EXCEPT !.stale = TRUE]
      BY <2>2 DEF Save
    <3> QED
      BY <2>2, <3>1, StaleRequest DEF TypeOK
  <2>3. CASE o # r /\ request[o].op \notin {"resolve", "save"}
    BY <2>3 DEF Save, TypeOK
  <2> QED
    BY <2>1, <2>2, <2>3
<1>6. request' \in [Request -> RequestState]
  BY <1>5 DEF Save
<1>7. TypeOK'
  BY <1>1, <1>2, <1>3, <1>4, <1>6 DEF TypeOK
<1>8. Exists' /\ provider'.status \notin {"none", "deleted"}
  BY <1>1, <1>2 DEF Exists, Status
<1>9. TablesOK'
  BY <1>1, <1>2, <1>8 DEF TablesOK, TimelineShowsLedger
<1>10. MutationsAddUp'
  <2>1. CASE raced'
    BY <2>1 DEF MutationsAddUp
  <2>2. CASE ~raced'
    <3>1. ~raced /\ ~q.stale /\ provider = intended /\ Fresh(q)
      BY <1>1, <1>3, <2>2 DEF MutationsAddUp, Consistent
    <3>2. q.record = [status |-> q.record.status, allowed |-> q.record.allowed,
                      secret |-> q.record.secret]
      BY <1>1 DEF Provider
    <3>3. /\ q.record.status = Merged(q.wish).status
          /\ q.record.allowed = Merged(q.wish).allowed
          /\ ~q.rotates => q.record.secret = provider.secret
      BY <1>1, <3>1 DEF Fresh
    <3>4. q.record = Wished(q)
      BY <3>1, <3>2, <3>3 DEF Wished, Merged
    <3> QED
      BY <1>2, <1>3, <2>2, <3>4 DEF MutationsAddUp
  <2> QED
    BY <2>1, <2>2
<1>11. ASSUME NEW o \in Request PROVE Consistent(request[o])'
  <2>1. Consistent(request[o])
    OBVIOUS
  <2>2. CASE request'[o] = Idle
    BY <1>8, <2>2 DEF Consistent, Idle
  <2>3. CASE request'[o] # Idle
    BY <1>5, <1>8, <2>1, <2>3 DEF Consistent
  <2> QED
    BY <2>2, <2>3
<1> QED
  BY <1>7, <1>9, <1>10, <1>11

LEMMA DeleteStep ==
  ASSUME IngestInvariant, Delete
  PROVE  IngestInvariant'
<1> USE DEF IngestInvariant
<1>1. provider' = [NoProvider EXCEPT !.status = "deleted"]
      /\ provider' \in Provider /\ provider'.status = "deleted" /\ ~Exists'
  BY DEF Delete, NoProvider, Provider, Secret, Exists, Status
<1>2. NoKey \in KeyRow /\ ~NoKey.used
  <2>1. ~NoKey.used
    BY Zenon DEF NoKey
  <2> QED
    BY <2>1 DEF KeyRow
<1>3. TypeOK'
  BY <1>1, <1>2 DEF Delete, TypeOK
<1>4. TablesOK' /\ MutationsAddUp'
  BY <1>1, <1>2 DEF Delete, TablesOK, MutationsAddUp, TimelineShowsLedger
<1>5. ASSUME NEW r \in Request PROVE Consistent(request[r])'
  BY <1>1 DEF Delete, Consistent
<1> QED
  BY <1>3, <1>4, <1>5

\* What a batch writes to the tables.
LEMMA RecordedShape ==
  ASSUME TypeOK, TimelineShowsLedger, NEW batch \in Batches
  PROVE  /\ Recorded(batch) \in [Event -> Value \cup {NoValue}]
         /\ Projected(batch, Recorded(batch)) = Recorded(batch)
         /\ \A e \in Event :
              /\ e \in New(batch) => ledger[e] = NoValue /\ Recorded(batch)[e] \in Value
              /\ e \notin New(batch) => Recorded(batch)[e] = ledger[e]
<1>1. New(batch) \subseteq Event /\ New(batch) \subseteq Requested(batch)
  BY BatchItems
<1>2. \A e \in New(batch) : First(batch, e) \in Value
  BY <1>1, FirstValue
<1>3. Recorded(batch) \in [Event -> Value \cup {NoValue}]
  BY <1>1, <1>2 DEF Recorded, TypeOK
<1>4. \A e \in Event :
        /\ e \in New(batch) => ledger[e] = NoValue /\ Recorded(batch)[e] \in Value
        /\ e \notin New(batch) => Recorded(batch)[e] = ledger[e]
  BY <1>2 DEF Recorded, New
<1>5. Projected(batch, Recorded(batch)) = Recorded(batch)
  <2>1. \A e \in Event \ Requested(batch) : Recorded(batch)[e] = facts[e]
    BY <1>1, <1>4 DEF TimelineShowsLedger
  <2> QED
    BY <1>3, <2>1 DEF Projected
<1> QED
  BY <1>3, <1>4, <1>5

\* What Ingest does, in terms of its batch.
Ingested(r, batch, k, row, q) ==
  /\ row.batch = batch /\ row.answer = Outcome(batch) /\ row.used
  /\ q = [op |-> "answer", key |-> k, batch |-> batch, answer |-> Outcome(batch)]
  /\ request[r].key = k /\ request[r].batch = batch
  /\ ledger' = Recorded(batch) /\ facts' = Recorded(batch)
  /\ keys' = [keys EXCEPT ![k] = row] /\ answered' = [answered EXCEPT ![k] = row]
  /\ request' = [request EXCEPT ![r] = q]
  /\ counted' = counted + Cardinality(New(batch)) /\ counted' \in Nat

LEMMA CompletedRow ==
  ASSUME NEW batch \in Batches, NEW answer \in Answer
  PROVE  LET row == Completed(Reserved(batch), answer) IN
         /\ row \in KeyRow /\ row.batch = batch /\ row.answer = answer /\ row.used
         /\ row = [batch |-> batch, answer |-> answer, used |-> TRUE]
<1> PICK x : x = Reserved(batch)
  OBVIOUS
<1>1. x \in [batch : Batches, answer : {Pending}, used : {TRUE}] /\ x.batch = batch
  BY DEF Reserved
<1>2. LET y == [x EXCEPT !.answer = answer] IN
      /\ y \in [batch : Batches, answer : Answer, used : {TRUE}]
      /\ y.batch = batch /\ y.answer = answer
  BY <1>1
<1>3. Completed(x, answer) = [x EXCEPT !.answer = answer]
  BY <1>1 DEF Completed
<1>4. ASSUME NEW y \in [batch : Batches, answer : Answer, used : {TRUE}],
             y.batch = batch, y.answer = answer
      PROVE  y = [batch |-> batch, answer |-> answer, used |-> TRUE]
  BY <1>4
<1> QED
  BY <1>2, <1>3, <1>4 DEF KeyRow

LEMMA IngestShape ==
  ASSUME IngestInvariant, NEW r \in Request, Ingest(r)
  PROVE  \E batch \in Batches, k \in Key, row \in KeyRow, q \in RequestState :
           Ingested(r, batch, k, row, q)
<1>1. request[r].key \in Key /\ request[r].batch \in Batches
  BY RequestShape DEF IngestInvariant, TypeOK, Ingest
<1> PICK batch \in Batches, k \in Key : request[r].key = k /\ request[r].batch = batch
  BY <1>1
<1>2. /\ Outcome(batch) \in Answer /\ Outcome(batch) # Pending
      /\ Outcome(batch).accepted = Cardinality(New(batch))
      /\ Outcome(batch).accepted \in Nat
  BY OutcomeType
<1> PICK row : row = Completed(Reserved(batch), Outcome(batch))
  OBVIOUS
<1> PICK q : q = [op |-> "answer", key |-> k, batch |-> batch, answer |-> Outcome(batch)]
  OBVIOUS
<1>3. row \in KeyRow /\ q \in RequestState
  BY <1>2, CompletedRow DEF RequestState
<1>4. row.batch = batch /\ row.answer = Outcome(batch) /\ row.used
  BY <1>2, CompletedRow
<1>5. ledger' = Recorded(batch) /\ facts' = Recorded(batch)
  BY RecordedShape DEF Ingest, IngestInvariant, TablesOK
<1>6. keys' = [keys EXCEPT ![k] = row] /\ answered' = [answered EXCEPT ![k] = row]
      /\ request' = [request EXCEPT ![r] = q]
      /\ counted' = counted + Outcome(batch).accepted
  <2>1. row = [batch |-> batch, answer |-> Outcome(batch), used |-> TRUE]
    BY <1>2, CompletedRow
  <2> QED
    BY <2>1, Zenon DEF Ingest
<1>7. counted' = counted + Cardinality(New(batch)) /\ counted' \in Nat
  BY <1>2, <1>6 DEF IngestInvariant, TypeOK
<1>8. Ingested(r, batch, k, row, q)
  BY <1>4, <1>5, <1>6, <1>7 DEF Ingested
<1> QED
  BY <1>3, <1>8

LEMMA IngestStep ==
  ASSUME IngestInvariant, NEW r \in Request, Ingest(r)
  PROVE  IngestInvariant'
<1> USE DEF IngestInvariant
<1> PICK batch \in Batches, k \in Key, row \in KeyRow, q \in RequestState :
       Ingested(r, batch, k, row, q)
  BY IngestShape
<1>0. /\ ledger' = Recorded(batch) /\ facts' = Recorded(batch)
      /\ keys' = [keys EXCEPT ![k] = row] /\ answered' = [answered EXCEPT ![k] = row]
      /\ request' = [request EXCEPT ![r] = q] /\ q.op = "answer"
      /\ counted' \in Nat
  BY DEF Ingested
<1>1. UNCHANGED <<provider, minted, intended, raced>> /\ provider.status = "active"
  BY DEF Ingest, Admitted
<1>2. Recorded(batch) \in [Event -> Value \cup {NoValue}]
  BY RecordedShape DEF TablesOK
<1>3. TypeOK'
  BY <1>0, <1>1, <1>2 DEF TypeOK
<1>4. TablesOK' /\ MutationsAddUp'
  BY <1>0, <1>1 DEF TablesOK, MutationsAddUp, TimelineShowsLedger, Exists
<1>5. \A o \in Request : request'[o] = q \/ request'[o] = request[o]
  BY <1>0 DEF TypeOK
<1>6. ASSUME NEW p, Consistent(p) \/ p = q PROVE Consistent(p)'
  BY <1>0, <1>1, <1>6 DEF Consistent, Fresh, Merged, Exists
<1> QED
  BY <1>3, <1>4, <1>5, <1>6

LEMMA ExpireStep ==
  ASSUME IngestInvariant, NEW k \in Key, Expire(k)
  PROVE  IngestInvariant'
<1> USE DEF IngestInvariant
<1>1. NoKey \in KeyRow /\ ~NoKey.used
  <2>1. ~NoKey.used
    BY Zenon DEF NoKey
  <2> QED
    BY <2>1 DEF KeyRow
<1>2. keys' \in [Key -> KeyRow] /\ answered' = keys'
      /\ \A o \in Key : keys'[o].used => keys[o].used
  BY <1>1 DEF Expire, TypeOK, TablesOK
<1>3. TypeOK'
  BY <1>2 DEF Expire, TypeOK
<1>4. TablesOK' /\ MutationsAddUp'
  BY <1>2 DEF Expire, TablesOK, MutationsAddUp, TimelineShowsLedger, Exists
<1>5. ASSUME NEW r \in Request PROVE Consistent(request[r])'
  BY DEF Expire, Consistent, Fresh, Merged, Exists
<1> QED
  BY <1>3, <1>4, <1>5

LEMMA StutterStep ==
  ASSUME IngestInvariant, UNCHANGED vars
  PROVE  IngestInvariant'
<1> USE DEF IngestInvariant, vars, tables, history
<1>1. TypeOK' /\ TablesOK' /\ MutationsAddUp'
  BY DEF TypeOK, TablesOK, MutationsAddUp, TimelineShowsLedger, Exists
<1>2. ASSUME NEW r \in Request PROVE Consistent(request[r])'
  BY DEF Consistent, Fresh, Merged, Exists
<1> QED
  BY <1>1, <1>2

LEMMA NextStep ==
  ASSUME IngestInvariant, [Next]_vars
  PROVE  IngestInvariant'
<1>1. CASE \E allowed \in AllowedSets : Create(allowed)
  BY <1>1, CreateStep
<1>2. CASE Delete
  BY <1>2, DeleteStep
<1>3. ASSUME NEW r \in Request, RequestNext(r) PROVE IngestInvariant'
  <2>1. CASE \E wish \in Wish : ResolveUpdate(r, wish)
    BY <2>1, ResolveUpdateStep
  <2>2. CASE \E k \in Key, batch \in Batches, secret \in Secret : Push(r, k, batch, secret)
    BY <2>2, PushStep
  <2>3. CASE LoadUpdate(r) \/ Rotate(r) \/ Save(r)
    BY <2>3, LoadUpdateStep, RotateStep, SaveStep, LostSaveStep
  <2>4. CASE Ingest(r) \/ Replay(r) \/ Refuse(r) \/ Fail(r) \/ Finish(r)
    BY <2>4, IngestStep, ReplayStep, IdleStep
  <2> QED
    BY <1>3, <2>1, <2>2, <2>3, <2>4 DEF RequestNext
<1>4. CASE \E k \in Key : Expire(k)
  BY <1>4, ExpireStep
<1>5. CASE UNCHANGED vars
  BY <1>5, StutterStep
<1> QED
  BY <1>1, <1>2, <1>3, <1>4, <1>5 DEF Next

-----------------------------------------------------------------------------
(***************************************************************************)
(* The invariants.                                                         *)
(***************************************************************************)

\* Owners and scripts act at the same time on what they have read before;
\* the tables of the integrations package stay consistent.
THEOREM Invariance == Spec => []IngestInvariant
<1>1. Init => IngestInvariant
  BY InitInvariant
<1>2. IngestInvariant /\ [Next]_vars => IngestInvariant'
  BY NextStep
<1> QED
  BY <1>1, <1>2, PTL DEF Spec

\* Tables and requests keep their types; a committed idempotency key has its
\* response (CompleteIngestKey runs in the transaction that reserved it).
THEOREM Typed == Spec => []TypeOK
<1>1. IngestInvariant => TypeOK
  BY DEF IngestInvariant
<1> QED
  BY <1>1, Invariance, PTL

\* The activity facts repeat the ledger of the provider's events
\* (canonicalRequestedActivities), for batches of any shape.
THEOREM TimelineIsLedger == Spec => []TimelineShowsLedger
<1>1. IngestInvariant => TimelineShowsLedger
  BY DEF IngestInvariant, TablesOK
<1> QED
  BY <1>1, Invariance, PTL

\* Until mutations race, the provider is what its owner asked for: updates
\* keep the secret, rotations keep the rest (CustomService.Update, Rotate).
THEOREM MutationsDoAddUp == Spec => []MutationsAddUp
<1>1. IngestInvariant => MutationsAddUp
  BY DEF IngestInvariant
<1> QED
  BY <1>1, Invariance, PTL

-----------------------------------------------------------------------------
(***************************************************************************)
(* The action properties.                                                  *)
(***************************************************************************)

LEMMA DeletedStays ==
  ASSUME IngestInvariant, [Next]_vars, provider.status = "deleted"
  PROVE  provider'.status = "deleted"
<1> USE DEF vars, tables
<1>1. ~Exists /\ provider.status \notin {"none", "active"}
  BY DEF Exists, Status
<1>2. ASSUME NEW r \in Request, RequestNext(r) PROVE provider' = provider
  <2>1. CASE Save(r)
    BY <1>1, <2>1 DEF Save, Updated
  <2>2. CASE ~Save(r)
    BY <1>2, <2>2 DEF RequestNext, ResolveUpdate, Push, LoadUpdate, Rotate, Ingest, Replay,
                      Refuse, Fail, Finish
  <2> QED
    BY <2>1, <2>2
<1> QED
  BY <1>1, <1>2 DEF Next, Create, Delete, Expire

\* A stale update, rotation or push cannot bring back a deleted provider
\* (UpdateCustomProvider is UPDATE-only) or anything of it.
THEOREM DeletionIsFinal == Spec => DeletedLeavesNothing
<1> DEFINE A == provider.status = "deleted" \/ provider'.status = "deleted" =>
                  /\ provider' = [NoProvider EXCEPT !.status = "deleted"]
                  /\ \A e \in Event : ledger'[e] = NoValue /\ facts'[e] = NoValue
                  /\ \A k \in Key : ~keys'[k].used
<1>1. IngestInvariant /\ [Next]_vars => A
  <2> SUFFICES ASSUME IngestInvariant, [Next]_vars,
                      provider.status = "deleted" \/ provider'.status = "deleted"
               PROVE  A
    OBVIOUS
  <2>1. provider'.status = "deleted"
    BY DeletedStays
  <2>2. TablesOK'
    BY NextStep DEF IngestInvariant
  <2> QED
    BY <2>1, <2>2 DEF TablesOK, TimelineShowsLedger
<1> HIDE DEF A
<1>2. Spec => [][A]_vars
  BY <1>1, Invariance, PTL DEF Spec
<1> QED
  BY <1>2 DEF DeletedLeavesNothing, A

\* An answer comes from an ingest or a replay of the same request.
LEMMA AnswerComes ==
  ASSUME IngestInvariant, [Next]_vars, NEW r \in Request, AnsweredNow(r)
  PROVE  Ingest(r) \/ Replay(r)
<1>1. request \in [Request -> RequestState] /\ request'[r].op = "answer"
      /\ request[r].op # "answer"
  BY DEF AnsweredNow, IngestInvariant, TypeOK
<1>2. ASSUME NEW o \in Request, RequestNext(o) PROVE o = r /\ (Ingest(r) \/ Replay(r))
  <2>1. CASE Save(o)
    <3>1. \/ request'[r] = Idle \/ request'[r] = request[r]
          \/ /\ request[r].op \in {"resolve", "save"}
             /\ request'[r] = [request[r] EXCEPT !.stale = TRUE]
      BY <1>1, <2>1 DEF Save
    <3>2. request[r] \in RequestState
      BY <1>1
    <3>3. CASE /\ request[r].op \in {"resolve", "save"}
               /\ request'[r] = [request[r] EXCEPT !.stale = TRUE]
      <4>1. request'[r].op = request[r].op
        BY <3>2, <3>3, StaleRequest
      <4> QED
        BY <1>1, <4>1
    <3>4. CASE request'[r] = Idle \/ request'[r] = request[r]
      BY <1>1, <3>4 DEF Idle
    <3> QED
      BY <3>1, <3>3, <3>4
  <2>2. CASE ~Save(o)
    <3>1. o = r
      BY <1>1, <1>2, <2>2 DEF RequestNext, ResolveUpdate, Push, LoadUpdate, Rotate, Ingest,
                              Replay, Refuse, Fail, Finish
    <3>2. ASSUME ~Ingest(r), ~Replay(r) PROVE request'[r].op # "answer"
      BY <1>1, <1>2, <2>2, <3>1, <3>2
         DEF RequestNext, ResolveUpdate, Push, LoadUpdate, Rotate, Refuse, Fail, Finish, Idle
    <3> QED
      BY <1>1, <3>1, <3>2
  <2> QED
    BY <2>1, <2>2
<1>3. request' # request
  BY <1>1
<1> QED
  BY <1>2, <1>3 DEF Next, Create, Delete, Expire, vars

\* Who gets an answer presents the secret that is current at the commit, and
\* the provider is active (RunAuthenticatedIngest).
THEOREM AnswersAreAuthorized == Spec => OnlyAuthorized
<1> DEFINE A == \A r \in Request : AnsweredNow(r) =>
                  provider.status = "active" /\ request[r].secret = provider.secret
<1>1. IngestInvariant /\ [Next]_vars => A
  <2> SUFFICES ASSUME IngestInvariant, [Next]_vars, NEW r \in Request, AnsweredNow(r)
               PROVE  provider.status = "active" /\ request[r].secret = provider.secret
    OBVIOUS
  <2>1. Ingest(r) \/ Replay(r)
    BY AnswerComes
  <2> QED
    BY <2>1 DEF Ingest, Replay, Admitted
<1> HIDE DEF A
<1>2. Spec => [][A]_vars
  BY <1>1, Invariance, PTL DEF Spec
<1> QED
  BY <1>2 DEF OnlyAuthorized, A

\* All answers under a live idempotency key are the first one
\* (replayIngestIdempotency).
THEOREM ReplaysDoAgree == Spec => ReplaysAgree
<1> DEFINE A == \A r \in Request :
                  AnsweredNow(r) /\ answered[request[r].key].used =>
                    /\ request'[r].answer = answered[request[r].key].answer
                    /\ request'[r].batch = answered[request[r].key].batch
<1>1. IngestInvariant /\ [Next]_vars => A
  <2> SUFFICES ASSUME IngestInvariant, [Next]_vars, NEW r \in Request, AnsweredNow(r),
                      answered[request[r].key].used
               PROVE  /\ request'[r].answer = answered[request[r].key].answer
                      /\ request'[r].batch = answered[request[r].key].batch
    OBVIOUS
  <2>1. answered = keys /\ request \in [Request -> RequestState]
    BY DEF IngestInvariant, TablesOK, TypeOK
  <2>2. Replay(r)
    BY <2>1, AnswerComes DEF Ingest
  <2> QED
    BY <2>1, <2>2 DEF Replay, Same
<1> HIDE DEF A
<1>2. Spec => [][A]_vars
  BY <1>1, Invariance, PTL DEF Spec
<1> QED
  BY <1>2 DEF ReplaysAgree, A

-----------------------------------------------------------------------------
(***************************************************************************)
(* Every step is a step of the timeline, or leaves it alone.               *)
(***************************************************************************)

PhaseNow ==
  CASE provider.status = "none"    -> "none"
    [] provider.status = "deleted" -> "withdrawn"
    [] OTHER                       -> "open"

PromiseVars == <<PhaseNow, facts, counted>>

LEMMA InitTimeline == Init => Promise!Init
BY DEF Init, Promise!Init, NoProvider

LEMMA IngestTimeline ==
  ASSUME IngestInvariant, NEW r \in Request, Ingest(r)
  PROVE  \E new \in SUBSET Event : Promise!Accept(new)
<1> PICK batch \in Batches, k \in Key, row \in KeyRow, q \in RequestState :
       Ingested(r, batch, k, row, q)
  BY IngestShape
<1> PICK new \in SUBSET Event : new = New(batch)
  BY BatchItems
<1>1. /\ facts' = Recorded(batch) /\ counted' = counted + Cardinality(new)
      /\ provider' = provider /\ provider.status = "active"
  BY DEF Ingested, Ingest, Admitted
<1>2. /\ TypeOK /\ facts = ledger
      /\ Recorded(batch) \in [Event -> Value \cup {NoValue}]
      /\ \A e \in Event :
           /\ e \in new => ledger[e] = NoValue /\ Recorded(batch)[e] \in Value
           /\ e \notin new => Recorded(batch)[e] = ledger[e]
  BY RecordedShape DEF IngestInvariant, TablesOK, TimelineShowsLedger
<1> PICK value : value = [e \in new |-> Recorded(batch)[e]]
  OBVIOUS
<1>3. value \in [new -> Value]
  BY <1>2
<1>4. facts' = [e \in Event |-> IF e \in new THEN value[e] ELSE facts[e]]
  BY <1>1, <1>2
<1>5. new \cap Promise!Shown = {}
  BY <1>2 DEF Promise!Shown
<1>6. Promise!Cardinality(new) = Cardinality(new)
  BY DEF Promise!Cardinality, Cardinality
<1>7. Promise!Accept(new)
  BY <1>1, <1>3, <1>4, <1>5, <1>6 DEF Promise!Accept
<1> QED
  BY <1>7

LEMMA NextTimeline ==
  ASSUME IngestInvariant, [Next]_vars
  PROVE  [Promise!Next]_PromiseVars
<1> USE DEF vars, tables, history
<1>1. CASE \E allowed \in AllowedSets : Create(allowed)
  <2>1. Promise!Open
    BY <1>1 DEF Create, Promise!Open
  <2> QED
    BY <2>1 DEF Promise!Next
<1>2. CASE Delete
  <2>1. provider.status \notin {"none", "deleted"} /\ provider'.status = "deleted"
    BY <1>2 DEF Delete, Exists, Status, NoProvider
  <2>2. Promise!Withdraw
    BY <1>2, <2>1 DEF Delete, Promise!Withdraw
  <2> QED
    BY <2>2 DEF Promise!Next
<1>3. ASSUME NEW r \in Request, RequestNext(r) PROVE [Promise!Next]_PromiseVars
  <2>1. CASE Save(r)
    <3>1. CASE Exists
      <4>1. request[r] \in RequestState /\ Consistent(request[r]) /\ request[r].op = "save"
        BY <2>1 DEF IngestInvariant, TypeOK, Save
      <4>2. provider' = request[r].record /\ request[r].record.status \in Status
        BY <2>1, <3>1, <4>1 DEF Save, Updated, Consistent
      <4>3. UNCHANGED PhaseNow
        BY <3>1, <4>2 DEF Exists, Status, PhaseNow
      <4> QED
        BY <2>1, <4>3 DEF Save, PromiseVars
    <3>2. CASE ~Exists
      BY <2>1, <3>2 DEF Save, Updated, PromiseVars, PhaseNow
    <3> QED
      BY <3>1, <3>2
  <2>2. CASE Ingest(r)
    BY <2>2, IngestTimeline DEF Promise!Next
  <2>3. CASE ~Save(r) /\ ~Ingest(r)
    BY <1>3, <2>3 DEF RequestNext, ResolveUpdate, Push, LoadUpdate, Rotate, Replay, Refuse,
                      Fail, Finish, PromiseVars, PhaseNow
  <2> QED
    BY <2>1, <2>2, <2>3
<1>4. CASE \E k \in Key : Expire(k)
  BY <1>4 DEF Expire, PromiseVars, PhaseNow
<1>5. CASE UNCHANGED vars
  BY <1>5 DEF PromiseVars, PhaseNow
<1> QED
  BY <1>1, <1>2, <1>3, <1>4, <1>5 DEF Next

\* Over all batches, keys, retries and expiries an event is counted once and
\* shown with its first value (CustomService.Ingest implements EventTimeline).
THEOREM TimelineImplemented == Spec => ImplementsTimeline
<1>1. Init => Promise!Init
  BY InitTimeline
<1>2. IngestInvariant /\ [Next]_vars => [Promise!Next]_(Promise!timelineVars)
  BY NextTimeline DEF PromiseVars, PhaseNow, Promise!timelineVars
<1> QED
  BY <1>1, <1>2, Invariance, PTL DEF Spec, ImplementsTimeline, Promise!Spec

=============================================================================
