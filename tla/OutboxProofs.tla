---------------------------- MODULE OutboxProofs ----------------------------
(* The outbox keeps an aggregate's events in order for every number of     *)
(* relays, sweeps, rows, attempts, operator actions and failures, whether  *)
(* or not relays outlive their lease.  While they keep it, an aggregate    *)
(* with an open row has a head and every failed publish is counted.        *)
EXTENDS Outbox, SequenceTheorems, TLAPS

\* A function on 1..n is a sequence of length n.
LEMMA FunctionIsSeq ==
    ASSUME NEW S, NEW n \in Nat, NEW f \in [1..n -> S]
    PROVE  f \in Seq(S) /\ Len(f) = n /\ DOMAIN f = 1..n
<1>1. f \in Seq(S)
  BY SeqDef
<1> QED
  BY <1>1, LenProperties

-----------------------------------------------------------------------------
(* The inductive invariant.                                                *)

\* The row a relay works on: every row before it is closed, and once the
\* broker has acknowledged it, the broker has it.
CurrentRow(r) ==
    /\ pc[r] \in {"renew", "publish", "mark", "fail"} =>
         cur[r].row \in DOMAIN rows /\ ClosedBefore(cur[r].row)
    /\ pc[r] = "mark" => Delivered(cur[r].row)

\* A row on its way has not arrived yet.
TransitIsUndelivered == \A i \in transit : ~Delivered(i)

IInv ==
    /\ TypeOK
    /\ \A r \in Relays : CurrentRow(r)
    /\ TransitIsUndelivered
    /\ NothingOvertakes
    /\ DispatchedIsDelivered
    /\ FirstDeliveryInOrder

\* What every step does to the rows: it adds rows at the end, never reopens a
\* closed row, and closes a row as dispatched only when it was delivered.
RowsKept ==
    /\ rows' \in Seq(Row)
    /\ Len(rows) <= Len(rows')
    /\ \A k \in 1..Len(rows) :
         rows[k].status \in Terminal => rows'[k].status = rows[k].status
    /\ \A k \in 1..Len(rows') :
         rows'[k].status = "dispatched" =>
             k \in 1..Len(rows) /\ (rows[k].status = "dispatched" \/ Delivered(k))

\* Rows that are not touched are kept.
LEMMA RowsUnchanged ==
    ASSUME TypeOK, UNCHANGED rows PROVE RowsKept
BY LenProperties DEF TypeOK, RowsKept

LEMMA WriteKeepsRows ==
    ASSUME TypeOK, Write PROVE RowsKept
<1>1. NewRow \in Row
  BY DEF NewRow, Row, Statuses, OpenStatuses, Terminal
<1> QED
  BY <1>1, AppendProperties, LenProperties
     DEF TypeOK, RowsKept, Write, NewRow, Terminal

\* A step that replaces one row by a row that is no worse.
LEMMA OneRowChanged ==
    ASSUME TypeOK, NEW i \in DOMAIN rows, NEW e \in Row,
           rows' = [rows EXCEPT ![i] = e],
           rows[i].status \in Terminal => e.status = rows[i].status,
           e.status = "dispatched" => rows[i].status = "dispatched" \/ Delivered(i)
    PROVE  RowsKept
<1>1. DOMAIN rows = 1..Len(rows) /\ Len(rows) \in Nat
  BY LenProperties DEF TypeOK
<1>2. rows' \in [1..Len(rows) -> Row]
  BY <1>1, LenProperties, ElementOfSeq DEF TypeOK
<1>3. rows' \in Seq(Row) /\ Len(rows') = Len(rows)
  BY <1>1, <1>2, FunctionIsSeq
<1> QED
  BY <1>1, <1>3 DEF RowsKept

\* A step that rewrites every row.
LEMMA EveryRowChanged ==
    ASSUME TypeOK,
           DOMAIN rows' = DOMAIN rows,
           rows' = [i \in DOMAIN rows |-> rows'[i]],
           \A i \in DOMAIN rows :
              /\ rows'[i] \in Row
              /\ rows[i].status \in Terminal => rows'[i].status = rows[i].status
              /\ rows'[i].status = "dispatched" => rows[i].status = "dispatched"
    PROVE  RowsKept
<1>1. DOMAIN rows = 1..Len(rows) /\ Len(rows) \in Nat
  BY LenProperties DEF TypeOK
<1>2. rows' \in [1..Len(rows) -> Row]
  BY <1>1
<1>3. rows' \in Seq(Row) /\ Len(rows') = Len(rows)
  BY <1>1, <1>2, FunctionIsSeq
<1> QED
  BY <1>1, <1>3 DEF RowsKept

LEMMA MarkDispatchedKeepsRows ==
    ASSUME IInv, NEW r \in Relays, MarkDispatched(r) PROVE RowsKept
<1> DEFINE i == cur[r].row
           e == [rows[i] EXCEPT !.status = "dispatched", !.next = "now"]
<1>1. i \in DOMAIN rows /\ Delivered(i) /\ rows[i] \in Row /\ TypeOK
  BY LenProperties, ElementOfSeq DEF IInv, TypeOK, CurrentRow, MarkDispatched
<1>2. CASE rows[i].status \in Retriable
  <2>1. e \in Row /\ e.status = "dispatched"
    BY <1>1 DEF Row, Statuses, Terminal
  <2>2. rows' = [rows EXCEPT ![i] = e]
    BY <1>1, <1>2 DEF MarkDispatched, Row, TypeOK
  <2>3. rows[i].status \notin Terminal
    BY <1>2 DEF Retriable, Terminal
  <2> HIDE DEF e, i
  <2> QED
    BY <1>1, <2>1, <2>2, <2>3, OneRowChanged
<1>3. CASE rows[i].status \notin Retriable
  BY <1>1, <1>3, RowsUnchanged DEF MarkDispatched
<1> QED
  BY <1>2, <1>3

LEMMA MarkFailedKeepsRows ==
    ASSUME IInv, NEW r \in Relays, MarkFailed(r) PROVE RowsKept
<1> DEFINE i == cur[r].row
           n == cur[r].attempts + 1
           e == [status |-> IF n >= MaxAttempts THEN "dead" ELSE "failed",
                 attempts |-> n,
                 next |-> IF n >= MaxAttempts THEN "now" ELSE "later"]
<1>1. i \in DOMAIN rows /\ TypeOK /\ n \in Nat
  BY DEF IInv, TypeOK, CurrentRow, MarkFailed
<1>2. CASE rows[i].status \in Retriable
  <2>1. e \in Row /\ e.status # "dispatched"
    BY <1>1 DEF Row, Statuses, OpenStatuses
  <2>2. rows' = [rows EXCEPT ![i] = e]
    BY <1>2 DEF MarkFailed
  <2>3. rows[i].status \notin Terminal
    BY <1>2 DEF Retriable, Terminal
  <2> HIDE DEF e, i
  <2> QED
    BY <1>1, <2>1, <2>2, <2>3, OneRowChanged
<1>3. CASE rows[i].status \notin Retriable
  BY <1>1, <1>3, RowsUnchanged DEF MarkFailed
<1> QED
  BY <1>2, <1>3

LEMMA RowFallsDueKeepsRows ==
    ASSUME TypeOK, NEW i \in DOMAIN rows, RowFallsDue(i) PROVE RowsKept
<1> DEFINE e == [rows[i] EXCEPT !.next = "now"]
<1>1. rows[i] \in Row
  BY LenProperties, ElementOfSeq DEF TypeOK
<1>2. e \in Row /\ e.status = rows[i].status
  BY <1>1 DEF Row
<1>3. rows' = [rows EXCEPT ![i] = e]
  BY DEF RowFallsDue
<1> HIDE DEF e
<1> QED
  BY <1>2, <1>3, OneRowChanged

LEMMA OpUpdateKeepsRows ==
    ASSUME TypeOK, OpUpdate PROVE RowsKept
<1>1. ASSUME NEW i \in DOMAIN rows
      PROVE  /\ rows'[i] \in Row
             /\ rows[i].status \in Terminal => rows'[i].status = rows[i].status
             /\ rows'[i].status = "dispatched" => rows[i].status = "dispatched"
  <2>1. rows[i] \in Row
    BY LenProperties, ElementOfSeq DEF TypeOK
  <2>2. rows[i].status \in Terminal => i \notin DeadRows
    BY DEF Terminal, DeadRows
  <2> QED
    BY <2>1, <2>2
       DEF OpUpdate, Row, NewRow, Statuses, OpenStatuses, Terminal
<1> QED
  BY <1>1, EveryRowChanged DEF OpUpdate

LEMMA RepairReadKeepsRows ==
    ASSUME TypeOK, NEW p \in Repairers, RepairRead(p) PROVE RowsKept
<1>1. ASSUME NEW i \in DOMAIN rows
      PROVE  /\ rows'[i] \in Row
             /\ rows[i].status \in Terminal => rows'[i].status = rows[i].status
             /\ rows'[i].status = "dispatched" => rows[i].status = "dispatched"
  <2>1. rows[i] \in Row
    BY LenProperties, ElementOfSeq DEF TypeOK
  <2> QED
    BY <2>1 DEF RepairRead, Row, Statuses, OpenStatuses, Terminal
<1> QED
  BY <1>1, EveryRowChanged DEF RepairRead

\* Every step keeps the rows.
LEMMA StepKeepsRows ==
    ASSUME IInv, [Next]_vars PROVE RowsKept
<1>0. TypeOK
  BY DEF IInv
<1>1. CASE UNCHANGED rows
  BY <1>0, <1>1, RowsUnchanged
<1>2. CASE Write
  BY <1>0, <1>2, WriteKeepsRows
<1>3. ASSUME NEW r \in Relays, Relay(r) PROVE RowsKept
  <2>1. CASE MarkDispatched(r)
    BY <2>1, MarkDispatchedKeepsRows
  <2>2. CASE MarkFailed(r)
    BY <2>2, MarkFailedKeepsRows
  <2>3. CASE UNCHANGED rows
    BY <1>1, <2>3
  <2> QED
    BY <1>3, <2>1, <2>2, <2>3
       DEF Relay, SeeDue, Acquire, Held, ReadHead, Renew, Acked, NotAcked,
           SettleReadHead, SettleReadRow, SettleWrite, Release
<1>4. ASSUME NEW i \in DOMAIN rows, RowFallsDue(i) PROVE RowsKept
  BY <1>0, <1>4, RowFallsDueKeepsRows
<1>5. CASE Operator
  BY <1>0, <1>1, <1>5, OpUpdateKeepsRows DEF Operator, OpSelect, OpRequeue
<1>6. ASSUME NEW p \in Repairers, Repair(p) PROVE RowsKept
  BY <1>0, <1>1, <1>6, RepairReadKeepsRows
     DEF Repair, RepairUpsert, RepairFind, RepairDerive, RepairSetDue
<1>7. CASE \/ LeaseExpires \/ HeadFallsDue \/ OpFails
           \/ \E i \in transit : Arrive(i) \/ Lost(i)
           \/ \E r \in Relays : Broken(r)
           \/ \E p \in Repairers : RepairFails(p)
  BY <1>1, <1>7
     DEF LeaseExpires, HeadFallsDue, OpFails, Arrive, Lost, Broken,
         CallFails, Crash, RepairFails
<1>8. CASE UNCHANGED vars
  BY <1>1, <1>8 DEF vars
<1> QED
  BY <1>2, <1>3, <1>4, <1>5, <1>6, <1>7, <1>8 DEF Next

\* A closed prefix stays closed.
LEMMA ClosedBeforeStable ==
    ASSUME RowsKept, rows \in Seq(Row), NEW i \in DOMAIN rows, ClosedBefore(i)
    PROVE  i \in DOMAIN rows' /\ ClosedBefore(i)'
<1>1. /\ DOMAIN rows = 1..Len(rows) /\ Len(rows) \in Nat
      /\ DOMAIN rows' = 1..Len(rows') /\ Len(rows') \in Nat
  BY LenProperties DEF RowsKept
<1> QED
  BY <1>1 DEF RowsKept, ClosedBefore

\* What the head row is: open, with everything before it closed.
LEMMA HeadIsFirstOpen ==
    ASSUME rows \in Seq(Row), NEW i \in DOMAIN rows, IsHead(i)
    PROVE  ClosedBefore(i)
<1>1. DOMAIN rows = 1..Len(rows) /\ Len(rows) \in Nat
  BY LenProperties
<1>2. ASSUME NEW k \in 1..(i - 1) PROVE rows[k].status \in Terminal
  <2>1. k \in DOMAIN rows /\ rows[k] \in Row
    BY <1>1, ElementOfSeq
  <2> QED
    BY <2>1 DEF IsHead, Open, Row, Statuses
<1> QED
  BY <1>2 DEF ClosedBefore

-----------------------------------------------------------------------------
(* The broker: what is on its way and what arrived.                        *)

BrokerOK ==
    /\ transit \in SUBSET (1..Len(rows))
    /\ delivered \in Seq(1..Len(rows))
    /\ TransitIsUndelivered
    /\ NothingOvertakes
    /\ DispatchedIsDelivered
    /\ FirstDeliveryInOrder

\* Delivered rows stay delivered and no order changes when nothing arrives
\* and at most a row with a closed prefix is handed over.
LEMMA NothingArrives ==
    ASSUME IInv, RowsKept, UNCHANGED delivered,
           \A i \in transit' \ transit :
              i \in DOMAIN rows /\ ClosedBefore(i) /\ ~Delivered(i)
    PROVE  BrokerOK'
<1>1. /\ DOMAIN rows = 1..Len(rows) /\ Len(rows) \in Nat
      /\ DOMAIN rows' = 1..Len(rows') /\ Len(rows') \in Nat
      /\ rows \in Seq(Row) /\ Len(rows) <= Len(rows')
  BY LenProperties DEF RowsKept, IInv, TypeOK
<1>2. \A i : Delivered(i)' <=> Delivered(i)
  BY DEF Delivered
<1>3. transit' \in SUBSET (1..Len(rows)) /\ delivered' \in Seq(1..Len(rows))
  BY <1>1 DEF IInv, TypeOK
<1>4. transit' \in SUBSET (1..Len(rows')) /\ delivered' \in Seq(1..Len(rows'))
  <2>1. 1..Len(rows) \subseteq 1..Len(rows')
    BY <1>1
  <2> QED
    BY <1>3, <2>1, SeqMonotonic
<1>5. \A n \in DOMAIN delivered : delivered[n] \in DOMAIN rows
  BY <1>1, LenProperties, ElementOfSeq DEF IInv, TypeOK
<1>6. TransitIsUndelivered'
  BY <1>2 DEF TransitIsUndelivered, IInv
<1>7. NothingOvertakes'
  <2> SUFFICES ASSUME NEW i \in DOMAIN rows', (Delivered(i) \/ i \in transit)'
               PROVE  ClosedBefore(i)'
    BY DEF NothingOvertakes
  <2>1. i \in DOMAIN rows /\ ClosedBefore(i)
    BY <1>1, <1>2, <1>3, <1>5 DEF IInv, NothingOvertakes, Delivered
  <2> QED
    BY <1>1, <2>1, ClosedBeforeStable
<1>8. DispatchedIsDelivered'
  BY <1>1, <1>2 DEF DispatchedIsDelivered, RowsKept, IInv
<1>9. FirstDeliveryInOrder'
  <2> SUFFICES ASSUME NEW m \in DOMAIN delivered, NEW n \in DOMAIN delivered,
                      m < n, ~(delivered[m] < delivered[n])
               PROVE  /\ delivered[n] < delivered[m]
                      /\ rows'[delivered[n]].status = "skipped"
    BY DEF FirstDeliveryInOrder
  <2>1. /\ delivered[n] < delivered[m]
        /\ rows[delivered[n]].status = "skipped"
    BY DEF IInv, FirstDeliveryInOrder
  <2> QED
    BY <1>1, <1>5, <2>1 DEF RowsKept, Terminal
<1> QED
  BY <1>4, <1>6, <1>7, <1>8, <1>9 DEF BrokerOK

\* An arrival: the row was handed over with everything before it closed, so a
\* row before it that is not delivered can only have been skipped.
LEMMA ArrivalInOrder ==
    ASSUME IInv, NEW i \in transit, Arrive(i)
    PROVE  BrokerOK'
<1>1. /\ DOMAIN rows = 1..Len(rows) /\ Len(rows) \in Nat /\ rows' = rows
      /\ i \in DOMAIN rows
      /\ delivered \in Seq(1..Len(rows))
  BY LenProperties DEF IInv, TypeOK, Arrive
<1> DEFINE d == Len(delivered)
<1>2. /\ DOMAIN delivered = 1..d /\ d \in Nat
      /\ delivered' \in Seq(1..Len(rows))
      /\ DOMAIN delivered' = 1..(d + 1)
      /\ \A n \in 1..d : delivered'[n] = delivered[n]
      /\ delivered'[d + 1] = i
  BY <1>1, LenProperties, AppendProperties DEF Arrive
<1>3. \A j : Delivered(j)' <=> Delivered(j) \/ j = i
  BY <1>2 DEF Delivered
<1>4. \A n \in 1..d : delivered[n] \in DOMAIN rows /\ Delivered(delivered[n])
  BY <1>1, <1>2, ElementOfSeq DEF Delivered
<1>5. transit' \in SUBSET (1..Len(rows')) /\ TransitIsUndelivered'
  BY <1>1, <1>3 DEF Arrive, IInv, TypeOK, TransitIsUndelivered
<1>6. NothingOvertakes'
  BY <1>1, <1>3 DEF NothingOvertakes, ClosedBefore, IInv, Arrive
<1>7. DispatchedIsDelivered'
  BY <1>1, <1>3 DEF DispatchedIsDelivered, IInv
<1>8. FirstDeliveryInOrder'
  <2> SUFFICES ASSUME NEW m \in 1..(d + 1), NEW n \in 1..(d + 1), m < n
               PROVE  \/ delivered'[m] < delivered'[n]
                      \/ /\ delivered'[n] < delivered'[m]
                         /\ rows[delivered'[n]].status = "skipped"
    BY <1>1, <1>2 DEF FirstDeliveryInOrder
  <2>1. CASE n \in 1..d
    <3>1. m \in 1..d
      BY <1>2, <2>1
    <3>2. /\ m \in DOMAIN delivered /\ n \in DOMAIN delivered
          /\ delivered'[m] = delivered[m] /\ delivered'[n] = delivered[n]
      BY <1>2, <2>1, <3>1
    <3> QED
      BY <3>2 DEF IInv, FirstDeliveryInOrder
  <2>2. CASE n = d + 1
    <3> DEFINE j == delivered[m]
    <3>1. m \in 1..d /\ delivered'[m] = j /\ delivered'[n] = i
      BY <1>2, <2>2
    <3>2. j \in DOMAIN rows /\ Delivered(j) /\ j # i
      BY <1>4, <3>1 DEF IInv, TransitIsUndelivered
    <3>3. CASE i < j
      <4>1. ClosedBefore(j)
        BY <3>2 DEF IInv, NothingOvertakes
      <4>2. rows[i].status \in Terminal
        BY <1>1, <3>2, <3>3, <4>1 DEF ClosedBefore
      <4>3. rows[i].status # "dispatched"
        BY <1>1 DEF IInv, DispatchedIsDelivered, TransitIsUndelivered
      <4> QED
        BY <3>1, <3>3, <4>2, <4>3 DEF Terminal
    <3> QED
      BY <1>1, <3>1, <3>2, <3>3
  <2> QED
    BY <1>2, <2>1, <2>2
<1> QED
  BY <1>1, <1>2, <1>5, <1>6, <1>7, <1>8 DEF BrokerOK

LEMMA StepKeepsBroker ==
    ASSUME IInv, [Next]_vars PROVE BrokerOK'
<1>0. RowsKept
  BY StepKeepsRows
<1>1. CASE UNCHANGED brokerVars
  BY <1>0, <1>1, NothingArrives DEF brokerVars
<1>2. ASSUME NEW i \in transit, Arrive(i) PROVE BrokerOK'
  BY <1>2, ArrivalInOrder
<1>3. ASSUME NEW i \in transit, Lost(i) PROVE BrokerOK'
  BY <1>0, <1>3, NothingArrives DEF Lost
<1>4. ASSUME NEW r \in Relays, Renew(r) PROVE BrokerOK'
  <2>1. cur[r].row \in DOMAIN rows /\ ClosedBefore(cur[r].row)
    BY <1>4 DEF Renew, IInv, CurrentRow
  <2> QED
    BY <1>0, <1>4, <2>1, NothingArrives DEF Renew
<1>5. CASE \E r \in Relays : Relay(r) \/ Broken(r)
  BY <1>1, <1>4, <1>5
     DEF Relay, SeeDue, Acquire, Held, ReadHead, Acked, NotAcked,
         MarkDispatched, MarkFailed, SettleReadHead, SettleReadRow,
         SettleWrite, Release, Broken, CallFails, Crash
<1>6. CASE \/ Write \/ Operator \/ OpFails \/ HeadFallsDue
           \/ LeaseExpires
           \/ \E i \in DOMAIN rows : RowFallsDue(i)
  BY <1>1, <1>6
     DEF Write, Operator, OpSelect, OpUpdate, OpRequeue, OpFails,
         HeadFallsDue, LeaseExpires, RowFallsDue
<1>7. CASE \E p \in Repairers : Repair(p) \/ RepairFails(p)
  BY <1>1, <1>7
     DEF Repair, RepairRead, RepairUpsert, RepairFind, RepairDerive,
         RepairSetDue, RepairFails, repairUnchanged
<1>8. CASE UNCHANGED vars
  BY <1>1, <1>8 DEF vars, brokerVars
<1> QED
  BY <1>2, <1>3, <1>5, <1>6, <1>7, <1>8 DEF Next

-----------------------------------------------------------------------------
(* The relays.                                                             *)

\* What arrived stays.
LEMMA StillDelivered ==
    ASSUME IInv, [Next]_vars, NEW i, Delivered(i) PROVE Delivered(i)'
<1>1. CASE UNCHANGED delivered
  BY <1>1 DEF Delivered
<1>2. ASSUME NEW j \in transit, Arrive(j) PROVE Delivered(i)'
  <2>1. delivered \in Seq(1..Len(rows)) /\ j \in 1..Len(rows)
    BY DEF IInv, TypeOK
  <2> QED
    BY <1>2, <2>1, AppendProperties, LenProperties DEF Delivered, Arrive
<1>3. ASSUME NEW r \in Relays, Relay(r) \/ Broken(r) PROVE UNCHANGED delivered
  BY <1>3
     DEF Relay, SeeDue, Acquire, Held, ReadHead, Renew, Acked, NotAcked,
         MarkDispatched, MarkFailed, SettleReadHead, SettleReadRow,
         SettleWrite, Release, Broken, CallFails, Crash, brokerVars
<1>4. CASE \/ Write \/ Operator \/ OpFails \/ HeadFallsDue
           \/ LeaseExpires
           \/ \E k \in DOMAIN rows : RowFallsDue(k)
           \/ \E k \in transit : Lost(k)
  BY <1>1, <1>4
     DEF Write, Operator, OpSelect, OpUpdate, OpRequeue, OpFails,
         HeadFallsDue, LeaseExpires, RowFallsDue, Lost, brokerVars
<1>5. CASE \E p \in Repairers : Repair(p) \/ RepairFails(p)
  BY <1>1, <1>5
     DEF Repair, RepairRead, RepairUpsert, RepairFind, RepairDerive,
         RepairSetDue, RepairFails, repairUnchanged, brokerVars
<1>6. CASE UNCHANGED vars
  BY <1>1, <1>6 DEF vars
<1> QED
  BY <1>1, <1>2, <1>3, <1>4, <1>5, <1>6 DEF Next

\* A relay that works on row k afterwards has it right, if it worked on it
\* before, or has just read it as the head row, or has just been acknowledged.
LEMMA WorksOn ==
    ASSUME IInv, [Next]_vars, NEW r \in Relays, NEW k \in DOMAIN rows,
           ClosedBefore(k), cur'[r].row = k,
           pc'[r] = "mark" => Delivered(k)
    PROVE  CurrentRow(r)'
<1>1. k \in DOMAIN rows' /\ ClosedBefore(k)'
  BY StepKeepsRows, ClosedBeforeStable DEF IInv, TypeOK
<1>2. Delivered(k) => Delivered(k)'
  BY StillDelivered
<1> QED
  BY <1>1, <1>2 DEF CurrentRow, ClosedBefore, Delivered

LEMMA SameWork ==
    ASSUME IInv, [Next]_vars, NEW r \in Relays,
           cur'[r] = cur[r],
           pc'[r] \in {"renew", "publish", "mark", "fail"} =>
               pc[r] \in {"renew", "publish", "mark", "fail"},
           pc'[r] = "mark" => pc[r] = "mark" \/ Delivered(cur[r].row)
    PROVE  CurrentRow(r)'
<1>1. CASE pc'[r] \notin {"renew", "publish", "mark", "fail"}
  BY <1>1 DEF CurrentRow
<1>2. CASE pc'[r] \in {"renew", "publish", "mark", "fail"}
  <2> PICK k \in DOMAIN rows : k = cur[r].row
    BY <1>2 DEF IInv, CurrentRow
  <2>1. ClosedBefore(k) /\ (pc'[r] = "mark" => Delivered(k))
    BY <1>2 DEF IInv, CurrentRow
  <2>2. cur'[r].row = k
    OBVIOUS
  <2> QED
    BY <2>1, <2>2, WorksOn
<1> QED
  BY <1>1, <1>2

LEMMA StepKeepsCurrentRow ==
    ASSUME IInv, [Next]_vars, NEW r \in Relays PROVE CurrentRow(r)'
<1>0. /\ pc \in [Relays -> Places]
      /\ cur \in [Relays -> [row : Nat, attempts : Nat]]
      /\ rows \in Seq(Row)
  BY DEF IInv, TypeOK
<1>1. CASE UNCHANGED <<pc, cur>>
  BY <1>1, SameWork
<1>2. ASSUME NEW s \in Relays, ReadHead(s) PROVE CurrentRow(r)'
  <2>1. CASE r = s /\ pc'[r] = "renew"
    <3> PICK k \in DOMAIN rows :
           IsHead(k) /\ cur' = [cur EXCEPT ![s] =
                                  [row |-> k, attempts |-> rows[k].attempts]]
      BY <1>0, <1>2, <2>1 DEF ReadHead, Go
    <3>1. cur'[r].row = k
      BY <1>0, <2>1
    <3> QED
      BY <1>0, <2>1, <3>1, HeadIsFirstOpen, WorksOn
  <2>2. CASE r = s /\ pc'[r] # "renew"
    BY <1>0, <1>2, <2>2 DEF ReadHead, Go, CurrentRow
  <2>3. CASE r # s
    BY <1>0, <1>2, <2>3, SameWork DEF ReadHead, Go
  <2> QED
    BY <2>1, <2>2, <2>3
<1>3. ASSUME NEW s \in Relays,
             Relay(s) \/ Broken(s), ~ReadHead(s) PROVE CurrentRow(r)'
  <2>1. CASE r = s
    <3>1. CASE Release(s) \/ Crash(s) \/ CallFails(s)
      BY <1>0, <2>1, <3>1 DEF Release, Crash, CallFails, AfterFailure, Go, CurrentRow
    <3>2. CASE \/ SeeDue(s) \/ Acquire(s) \/ Held(s) \/ Renew(s) \/ Acked(s)
               \/ NotAcked(s) \/ MarkDispatched(s) \/ MarkFailed(s)
               \/ SettleReadHead(s) \/ SettleReadRow(s) \/ SettleWrite(s)
      <4>1. UNCHANGED cur
        BY <3>2
           DEF SeeDue, Acquire, Held, Renew, Acked, NotAcked, MarkDispatched,
               MarkFailed, SettleReadHead, SettleReadRow, SettleWrite
      <4>2. pc'[r] \in {"renew", "publish", "mark", "fail"} =>
              pc[r] \in {"renew", "publish", "mark", "fail"}
        BY <1>0, <2>1, <3>2
           DEF SeeDue, Acquire, Held, Renew, Acked, NotAcked, MarkDispatched,
               MarkFailed, SettleReadHead, SettleReadRow, SettleWrite, Go
      <4>3. pc'[r] = "mark" => Delivered(cur[r].row)
        BY <1>0, <2>1, <3>2
           DEF SeeDue, Acquire, Held, Renew, Acked, NotAcked, MarkDispatched,
               MarkFailed, SettleReadHead, SettleReadRow, SettleWrite, Go
      <4> QED
        BY <4>1, <4>2, <4>3, SameWork
    <3> QED
      BY <1>3, <3>1, <3>2 DEF Relay, Broken
  <2>2. CASE r # s
    <3>1. pc'[r] = pc[r] /\ cur'[r] = cur[r]
      BY <1>0, <1>3, <2>2
         DEF Relay, SeeDue, Acquire, Held, Renew, Acked, NotAcked,
             MarkDispatched, MarkFailed, SettleReadHead, SettleReadRow,
             SettleWrite, Release, Broken, CallFails, Crash, Go
    <3> QED
      BY <3>1, SameWork
  <2> QED
    BY <2>1, <2>2
<1>4. CASE \/ Write \/ Operator \/ OpFails \/ HeadFallsDue
           \/ LeaseExpires
           \/ \E i \in DOMAIN rows : RowFallsDue(i)
           \/ \E i \in transit : Arrive(i) \/ Lost(i)
  BY <1>1, <1>4
     DEF Write, Operator, OpSelect, OpUpdate, OpRequeue, OpFails, Arrive,
         HeadFallsDue, LeaseExpires, RowFallsDue, Lost, relayVars
<1>5. CASE \E p \in Repairers : Repair(p) \/ RepairFails(p)
  BY <1>1, <1>5
     DEF Repair, RepairRead, RepairUpsert, RepairFind, RepairDerive,
         RepairSetDue, RepairFails, repairUnchanged, relayVars
<1>6. CASE UNCHANGED vars
  BY <1>1, <1>6 DEF vars
<1> QED
  BY <1>2, <1>3, <1>4, <1>5, <1>6 DEF Next

-----------------------------------------------------------------------------
(* The types of everything else.                                           *)

ControlOK ==
    /\ head \in [v : Nat \cup {NoVersion}, due : {"now", "later", "never"}]
    /\ lease \in Relays \cup {None}
    /\ pc \in [Relays -> Places]
    /\ cur \in [Relays -> [row : Nat, attempts : Nat]]
    /\ sent \in [Relays -> Nat]
    /\ seen \in [Relays -> Nat \cup {NoVersion}]
    /\ found \in [Relays -> {"none", "now", "later", "never"}]
    /\ repair \in [Repairers -> {"idle", "upsert", "waiting", "derive", "setDue"}]
    /\ op \in [at : {"idle", "update", "requeue"},
               to : {"none", "pending", "skipped"},
               rows : SUBSET Nat, requeue : BOOLEAN]
    /\ ops \in Nat
    /\ faults \in Nat

\* dueAtOf gives one of the three due times.
LEMMA DueTimes ==
    ASSUME rows \in Seq(Row), NEW i \in DOMAIN rows
    PROVE  DueAtOf(i) \in {"now", "later", "never"}
<1>1. rows[i] \in Row
  BY LenProperties, ElementOfSeq
<1> QED
  BY <1>1 DEF DueAtOf, Row

LEMMA RelayKeepsControl ==
    ASSUME TypeOK, ControlOK, NEW r \in Relays, Relay(r) \/ Broken(r)
    PROVE  ControlOK'
<1>0. rows \in Seq(Row)
  BY DEF TypeOK
<1> USE DEF ControlOK, Go, Places
<1>1. CASE SeeDue(r) \/ Acquire(r) \/ Held(r)
  BY <1>1 DEF SeeDue, Acquire, Held
<1>2. CASE ReadHead(r)
  <2>1. \A i \in DOMAIN rows : i \in Nat /\ rows[i].attempts \in Nat
    <3> TAKE i \in DOMAIN rows
    <3>1. i \in 1..Len(rows) /\ Len(rows) \in Nat /\ rows[i] \in Row
      BY <1>0, LenProperties, ElementOfSeq
    <3> QED
      BY <3>1 DEF Row
  <2> QED
    BY <1>2, <2>1 DEF ReadHead
<1>3. CASE Renew(r) \/ Acked(r) \/ NotAcked(r)
  BY <1>3 DEF Renew, Acked, NotAcked
<1>4. CASE MarkDispatched(r)
  BY <1>4 DEF MarkDispatched
<1>5. CASE MarkFailed(r)
  BY <1>5 DEF MarkFailed
<1>6. CASE SettleReadHead(r)
  BY <1>6 DEF SettleReadHead
<1>7. CASE SettleReadRow(r)
  <2>1. \A i \in DOMAIN rows : DueAtOf(i) \in {"now", "later", "never"}
    BY <1>0, DueTimes
  <2>2. PICK due \in {"none", "now", "later", "never"} :
           found' = [found EXCEPT ![r] = due]
    BY <1>7, <2>1 DEF SettleReadRow
  <2> QED
    BY <1>7, <2>2 DEF SettleReadRow
<1>8. CASE SettleWrite(r)
  <2>1. head' \in [v : Nat \cup {NoVersion}, due : {"now", "later", "never"}]
    BY <1>8 DEF SettleWrite, RetireHead, SetDue, NoHead
  <2> QED
    BY <1>8, <2>1 DEF SettleWrite
<1>9. CASE Release(r)
  BY <1>9 DEF Release
<1>10. CASE Broken(r)
  <2>1. faults' \in Nat
    BY <1>10 DEF Broken, CallFails, Crash, Fault
  <2>2. CASE CallFails(r)
    BY <2>1, <2>2 DEF CallFails, AfterFailure
  <2>3. CASE Crash(r)
    BY <2>1, <2>3 DEF Crash
  <2> QED
    BY <1>10, <2>2, <2>3 DEF Broken
<1> QED
  BY <1>1, <1>2, <1>3, <1>4, <1>5, <1>6, <1>7, <1>8, <1>9, <1>10 DEF Relay

LEMMA OperatorKeepsControl ==
    ASSUME TypeOK, ControlOK, Operator \/ OpFails PROVE ControlOK'
<1> USE DEF ControlOK
<1>1. CASE OpSelect
  <2> PICK to \in {"pending", "skipped"},
           filter \in {{i} : i \in DOMAIN rows} \cup {1..MaxRows} :
           op' = [at |-> "update", to |-> to, rows |-> filter,
                  requeue |-> DeadRows \cap filter # {}]
    BY <1>1 DEF OpSelect
  <2>1. DOMAIN rows \subseteq Nat
    BY LenProperties DEF TypeOK
  <2>2. filter \in SUBSET Nat
    <3>1. CASE filter = 1..MaxRows
      BY <3>1, BoundsAssumption DEF BoundsAssumption
    <3>2. ASSUME NEW i \in DOMAIN rows, filter = {i} PROVE filter \in SUBSET Nat
      BY <2>1, <3>2
    <3> QED
      BY <3>1, <3>2
  <2>3. (DeadRows \cap filter # {}) \in BOOLEAN
    OBVIOUS
  <2> HIDE DEF DeadRows
  <2>4. op' \in [at : {"idle", "update", "requeue"},
                 to : {"none", "pending", "skipped"},
                 rows : SUBSET Nat, requeue : BOOLEAN]
    BY <2>2, <2>3
  <2> QED
    BY <1>1, <2>4 DEF OpSelect, relayVars
<1>2. CASE OpUpdate
  BY <1>2 DEF OpUpdate, relayVars
<1>3. CASE OpRequeue
  <2>1. op' \in [at : {"idle", "update", "requeue"},
                 to : {"none", "pending", "skipped"},
                 rows : SUBSET Nat, requeue : BOOLEAN]
    BY <1>3 DEF OpRequeue, IdleOp
  <2>2. head' \in [v : Nat \cup {NoVersion}, due : {"now", "later", "never"}]
    BY <1>3 DEF OpRequeue, NoHead, NoVersion
  <2> QED
    BY <1>3, <2>1, <2>2 DEF OpRequeue, relayVars
<1>4. CASE OpFails
  BY <1>4 DEF OpFails, IdleOp, Fault, relayVars
<1> QED
  BY <1>1, <1>2, <1>3, <1>4 DEF Operator

LEMMA StepKeepsControl ==
    ASSUME TypeOK, ControlOK, [Next]_vars PROVE ControlOK'
<1>1. ASSUME NEW r \in Relays, Relay(r) \/ Broken(r) PROVE ControlOK'
  BY <1>1, RelayKeepsControl
<1>2. CASE Operator \/ OpFails
  BY <1>2, OperatorKeepsControl
<1> USE DEF ControlOK
<1>3. CASE Write
  <2>1. head' \in [v : Nat \cup {NoVersion}, due : {"now", "later", "never"}]
    <3>1. CASE head = NoHead
      BY <1>3, <3>1 DEF Write
    <3>2. CASE head # NoHead
      <4>1. head.v \in Nat \cup {-1} /\ head.v + 1 \in Nat
        BY DEF NoVersion
      <4>2. head' = [head EXCEPT !.v = head.v + 1]
        BY <1>3, <3>2 DEF Write
      <4> QED
        BY <4>1, <4>2
    <3> QED
      BY <3>1, <3>2
  <2> QED
    BY <1>3, <2>1 DEF Write, relayVars
<1>4. CASE LeaseExpires
  BY <1>4 DEF LeaseExpires, Fault, relayVars
<1>5. CASE \/ HeadFallsDue
           \/ \E i \in DOMAIN rows : RowFallsDue(i)
           \/ \E i \in transit : Arrive(i) \/ Lost(i)
  BY <1>5 DEF HeadFallsDue, RowFallsDue, Arrive, Lost, relayVars
<1>6. ASSUME NEW p \in Repairers, Repair(p) \/ RepairFails(p) PROVE ControlOK'
  <2> USE DEF RepairGo, repairUnchanged, relayVars
  <2>1. CASE RepairRead(p) \/ RepairFind(p) \/ RepairDerive(p)
    BY <2>1 DEF RepairRead, RepairFind, RepairDerive
  <2>2. CASE RepairUpsert(p)
    BY <2>2 DEF RepairUpsert
  <2>3. CASE RepairSetDue(p)
    BY <2>3 DEF RepairSetDue
  <2>4. CASE RepairFails(p)
    BY <2>4 DEF RepairFails, Fault
  <2> QED
    BY <1>6, <2>1, <2>2, <2>3, <2>4 DEF Repair
<1>7. CASE UNCHANGED vars
  BY <1>7 DEF vars
<1> QED
  BY <1>1, <1>2, <1>3, <1>4, <1>5, <1>6, <1>7 DEF Next

-----------------------------------------------------------------------------
(* The theorems.                                                           *)

LEMMA InitIInv == Init => IInv
<1> SUFFICES ASSUME Init PROVE IInv
  OBVIOUS
<1>1. TypeOK
  <2>1. rows \in Seq(Row) /\ delivered \in Seq(1..Len(rows))
    BY EmptySeq DEF Init
  <2>2. op \in [at : {"idle", "update", "requeue"},
                to : {"none", "pending", "skipped"},
                rows : SUBSET Nat, requeue : BOOLEAN]
    BY DEF Init
  <2> QED
    BY <2>1, <2>2 DEF Init, TypeOK, NoHead, NoVersion, Places
<1>2. DOMAIN rows = {} /\ DOMAIN delivered = {}
  BY EmptySeq, LenProperties DEF Init
<1> QED
  BY <1>1, <1>2
     DEF Init, IInv, CurrentRow, TransitIsUndelivered, NothingOvertakes,
         DispatchedIsDelivered, FirstDeliveryInOrder

LEMMA StepIInv == IInv /\ [Next]_vars => IInv'
<1> SUFFICES ASSUME IInv, [Next]_vars PROVE IInv'
  OBVIOUS
<1>1. RowsKept /\ BrokerOK'
  BY StepKeepsRows, StepKeepsBroker
<1>2. ControlOK'
  BY StepKeepsControl DEF IInv, TypeOK, ControlOK
<1>3. TypeOK'
  BY <1>1, <1>2 DEF RowsKept, BrokerOK, ControlOK, TypeOK
<1>4. \A r \in Relays : CurrentRow(r)'
  BY StepKeepsCurrentRow
<1> QED
  BY <1>1, <1>3, <1>4 DEF IInv, BrokerOK

LEMMA Invariance == Spec => []IInv
BY InitIInv, StepIInv, PTL DEF Spec

\* Every variable of the outbox keeps its type.
THEOREM TypeCorrect == Spec => []TypeOK
<1>1. IInv => TypeOK
  BY DEF IInv
<1> QED
  BY <1>1, Invariance, PTL

\* The relays publish an aggregate's events in order: a first delivery out of
\* order is of a row an operator skipped.
THEOREM DeliveryOrder == Spec => []FirstDeliveryInOrder
<1>1. IInv => FirstDeliveryInOrder
  BY DEF IInv
<1> QED
  BY <1>1, Invariance, PTL

\* headOf under the lease lets nothing overtake an open row.
THEOREM OpenRowsBlock == Spec => []NothingOvertakes
<1>1. IInv => NothingOvertakes
  BY DEF IInv
<1> QED
  BY <1>1, Invariance, PTL

\* The mark that closes a row as DISPATCHED follows its delivery.
THEOREM MarkedWasDelivered == Spec => []DispatchedIsDelivered
<1>1. IInv => DispatchedIsDelivered
  BY DEF IInv
<1> QED
  BY <1>1, Invariance, PTL

\* No mark, redrive, skip or sweep reopens or re-closes a closed row.
THEOREM ClosedForGood == Spec => TerminalIsFinal
<1>1. IInv /\ [Next]_vars =>
        [\A i \in DOMAIN rows : rows[i].status \in Terminal =>
            rows'[i].status = rows[i].status]_vars
  <2> SUFFICES ASSUME IInv, [Next]_vars, NEW i \in DOMAIN rows,
                      rows[i].status \in Terminal
               PROVE  rows'[i].status = rows[i].status
    OBVIOUS
  <2>1. i \in 1..Len(rows)
    BY LenProperties DEF IInv, TypeOK
  <2> QED
    BY <2>1, StepKeepsRows DEF RowsKept
<1> QED
  BY <1>1, Invariance, PTL DEF Spec, TerminalIsFinal

-----------------------------------------------------------------------------
(* What relays that keep their lease add: the head and the attempts.       *)

\* A working relay has the lease, so no two are at work.
LeaseKept == \A r \in Relays : Working(r) => lease = r

\* Between its reads and its write, a settleHead knows the head by its
\* version: while that is what it read, no row is open that it did not find.
SettleInView(r) ==
    pc[r] \in {"settleRow", "settleWrite"} /\ seen[r] # NoVersion =>
        /\ seen[r] <= head.v
        /\ pc[r] = "settleWrite" /\ found[r] = "none" /\ head.v = seen[r] => NoneOpen

\* The row a relay works on is as it read it.
Counted(r) ==
    pc[r] \in {"renew", "publish", "mark", "fail"} =>
        /\ rows[cur[r].row].status \in Retriable
        /\ rows[cur[r].row].attempts = cur[r].attempts

FailedMayRetry ==
    \A i \in DOMAIN rows : rows[i].status = "failed" => rows[i].attempts < MaxAttempts

Steady ==
    /\ LeaseKept
    /\ head.v = NoVersion => head = NoHead
    /\ OpenHasHead
    /\ FailedMayRetry
    /\ \A r \in Relays : SettleInView(r) /\ Counted(r)

LEMMA StepKeepsLease ==
    ASSUME IInv, LeaseKept, ~Pauses, [Next]_vars PROVE LeaseKept'
<1> SUFFICES ASSUME NEW r \in Relays, Working(r)' PROVE lease' = r
  BY DEF LeaseKept
<1>0. /\ pc \in [Relays -> Places] /\ lease \in Relays \cup {None}
      /\ None \notin Relays
      /\ Working(r) => lease = r
  BY NamesAssumption DEF IInv, TypeOK, LeaseKept
<1>1. CASE UNCHANGED <<pc, lease>>
  BY <1>0, <1>1 DEF Working
<1>2. ASSUME NEW s \in Relays, Relay(s) \/ Broken(s) PROVE lease' = r
  <2>1. CASE Acquire(s)
    BY <1>0, <2>1 DEF Acquire, Go, Working
  <2>2. CASE Release(s)
    BY <1>0, <2>2 DEF Release, Go, Working
  <2>3. CASE SeeDue(s) \/ Held(s)
    BY <1>0, <2>3 DEF SeeDue, Held, Go, Working
  <2>4. CASE CallFails(s) \/ Crash(s)
    BY <1>0, <2>4 DEF CallFails, Crash, AfterFailure, Go, Working
  <2>5. CASE \/ ReadHead(s) \/ Renew(s) \/ Acked(s) \/ NotAcked(s)
             \/ MarkDispatched(s) \/ MarkFailed(s)
             \/ SettleReadHead(s) \/ SettleReadRow(s) \/ SettleWrite(s)
    <3>1. lease' = lease /\ Working(s) /\ \A q \in Relays : q # s => pc'[q] = pc[q]
      BY <1>0, <2>5
         DEF ReadHead, Renew, Acked, NotAcked, MarkDispatched, MarkFailed,
             SettleReadHead, SettleReadRow, SettleWrite, Go, Working
    <3> QED
      BY <1>0, <3>1 DEF LeaseKept, Working
  <2> QED
    BY <1>2, <2>1, <2>2, <2>3, <2>4, <2>5 DEF Relay, Broken
<1>3. CASE LeaseExpires
  BY <1>0, <1>3 DEF LeaseExpires, relayVars, Working
<1>4. CASE \/ Write \/ Operator \/ OpFails \/ HeadFallsDue
           \/ \E i \in DOMAIN rows : RowFallsDue(i)
           \/ \E i \in transit : Arrive(i) \/ Lost(i)
           \/ \E p \in Repairers : Repair(p) \/ RepairFails(p)
  BY <1>1, <1>4
     DEF Write, Operator, OpSelect, OpUpdate, OpRequeue, OpFails, HeadFallsDue,
         RowFallsDue, Arrive, Lost, Repair, RepairRead, RepairUpsert, RepairFind,
         RepairDerive, RepairSetDue, RepairFails, repairUnchanged, relayVars
<1>5. CASE UNCHANGED vars
  BY <1>1, <1>5 DEF vars
<1> QED
  BY <1>2, <1>3, <1>4, <1>5 DEF Next

\* Only a command opens a row.
LEMMA OnlyWriteOpens ==
    ASSUME IInv, [Next]_vars, ~Write
    PROVE  /\ DOMAIN rows' = DOMAIN rows
           /\ \A i \in DOMAIN rows : Open(i)' => Open(i)
           /\ NoneOpen => NoneOpen'
<1>1. DOMAIN rows' = DOMAIN rows
  <2>1. CASE UNCHANGED rows
    BY <2>1
  <2>2. ASSUME NEW r \in Relays, Relay(r) PROVE DOMAIN rows' = DOMAIN rows
    BY <2>2
       DEF Relay, SeeDue, Acquire, Held, ReadHead, Renew, Acked, NotAcked,
           MarkDispatched, MarkFailed, SettleReadHead, SettleReadRow,
           SettleWrite, Release
  <2>3. CASE Operator \/ \E i \in DOMAIN rows : RowFallsDue(i)
    BY <2>3 DEF Operator, OpSelect, OpUpdate, OpRequeue, RowFallsDue
  <2>4. ASSUME NEW p \in Repairers, Repair(p) \/ RepairFails(p)
        PROVE  DOMAIN rows' = DOMAIN rows
    BY <2>4
       DEF Repair, RepairRead, RepairUpsert, RepairFind, RepairDerive,
           RepairSetDue, RepairFails
  <2>5. CASE \/ LeaseExpires \/ HeadFallsDue \/ OpFails
             \/ \E i \in transit : Arrive(i) \/ Lost(i)
             \/ \E r \in Relays : Broken(r)
    BY <2>1, <2>5
       DEF LeaseExpires, HeadFallsDue, OpFails, Arrive, Lost, Broken,
           CallFails, Crash
  <2> QED
    BY <2>1, <2>2, <2>3, <2>4, <2>5 DEF Next, vars
<1>2. /\ DOMAIN rows = 1..Len(rows)
      /\ \A i \in DOMAIN rows : rows[i] \in Row
  BY LenProperties, ElementOfSeq DEF IInv, TypeOK
<1>3. ASSUME NEW i \in DOMAIN rows, Open(i)' PROVE Open(i)
  <2>1. rows[i].status \notin Terminal
    BY <1>2, <1>3, StepKeepsRows DEF RowsKept, Open, OpenStatuses, Terminal
  <2> QED
    BY <1>2, <2>1 DEF Open, Row, Statuses
<1> QED
  BY <1>1, <1>3 DEF NoneOpen

\* The head gets a new version or keeps the one it has, but for a SettleWrite.
LEMMA VersionsGrow ==
    ASSUME IInv, Steady, [Next]_vars
    PROVE  /\ head.v <= head'.v \/ \E r \in Relays : SettleWrite(r)
           /\ Write => head.v < head'.v
           /\ head'.v = NoVersion => head' = NoHead
<1>0. /\ head \in [v : Nat \cup {-1}, due : {"now", "later", "never"}]
      /\ head.v = -1 => head = NoHead
      /\ NoHead = [v |-> -1, due |-> "never"]
  BY DEF IInv, TypeOK, Steady, NoHead, NoVersion
<1> USE DEF NoVersion
<1>1. CASE UNCHANGED head
  <2>1. ~Write
    BY <1>0, <1>1 DEF Write
  <2> QED
    BY <1>0, <1>1, <2>1
<1>2. CASE Write
  BY <1>0, <1>2 DEF Write
<1>3. CASE OpRequeue
  BY <1>0, <1>3, <1>1 DEF OpRequeue, Write
<1>4. ASSUME NEW p \in Repairers, RepairUpsert(p) \/ RepairSetDue(p)
      PROVE  head.v <= head'.v /\ ~Write /\ (head'.v = -1 => head' = NoHead)
  <2>1. ~Write
    BY <1>4 DEF RepairUpsert, RepairSetDue, Write, RepairGo, repairUnchanged
  <2> QED
    BY <1>0, <1>4, <2>1 DEF RepairUpsert, RepairSetDue
<1>5. CASE HeadFallsDue
  BY <1>0, <1>5 DEF HeadFallsDue, Write
<1>6. ASSUME NEW r \in Relays, SettleWrite(r)
      PROVE  ~Write /\ (head'.v = -1 => head' = NoHead)
  BY <1>0, <1>6 DEF SettleWrite, RetireHead, SetDue, Write, relayVars
<1>7. ASSUME NEW r \in Relays, Relay(r) \/ Broken(r), ~SettleWrite(r)
      PROVE  UNCHANGED head
  BY <1>7
     DEF Relay, SeeDue, Acquire, Held, ReadHead, Renew, Acked, NotAcked,
         MarkDispatched, MarkFailed, SettleReadHead, SettleReadRow, Release,
         Broken, CallFails, Crash
<1>8. ASSUME NEW p \in Repairers, Repair(p) \/ RepairFails(p),
             ~(RepairUpsert(p) \/ RepairSetDue(p))
      PROVE  UNCHANGED head
  BY <1>8 DEF Repair, RepairRead, RepairFind, RepairDerive, RepairFails
<1>9. CASE \/ OpSelect \/ OpUpdate \/ OpFails \/ LeaseExpires
           \/ \E i \in DOMAIN rows : RowFallsDue(i)
           \/ \E i \in transit : Arrive(i) \/ Lost(i)
  BY <1>1, <1>9
     DEF OpSelect, OpUpdate, OpFails, LeaseExpires, RowFallsDue,
         Arrive, Lost
<1>10. CASE UNCHANGED vars
  BY <1>1, <1>10 DEF vars
<1> QED
  BY <1>1, <1>2, <1>3, <1>4, <1>5, <1>6, <1>7, <1>8, <1>9, <1>10 DEF Next, Operator

\* What a relay's own step is when another relay has nothing to do with it.
LEMMA OthersIdle ==
    ASSUME IInv, LeaseKept, NEW r \in Relays, NEW s \in Relays, r # s, Working(r)
    PROVE  /\ ~Working(s)
           /\ Relay(s) \/ Broken(s) => UNCHANGED <<rows, head>>
<1>1. ~Working(s)
  BY DEF LeaseKept
<1> QED
  BY <1>1
     DEF Working, Relay, SeeDue, Acquire, Held, ReadHead, Renew, Acked, NotAcked,
         MarkDispatched, MarkFailed, SettleReadHead, SettleReadRow, SettleWrite,
         Release, Broken, CallFails, Crash

\* A step in which a relay does not take part leaves its own state alone.
LEMMA OwnState ==
    ASSUME IInv, [Next]_vars, NEW r \in Relays, ~Relay(r), ~Broken(r)
    PROVE  /\ pc'[r] = pc[r] /\ seen'[r] = seen[r] /\ found'[r] = found[r]
           /\ cur'[r] = cur[r]
<1>1. CASE UNCHANGED relayVars
  BY <1>1 DEF relayVars
<1>2. ASSUME NEW s \in Relays, Relay(s) \/ Broken(s)
      PROVE  /\ pc'[r] = pc[r] /\ seen'[r] = seen[r] /\ found'[r] = found[r]
             /\ cur'[r] = cur[r]
  <2>1. r # s
    BY <1>2
  <2>2. /\ pc \in [Relays -> Places]
        /\ cur \in [Relays -> [row : Nat, attempts : Nat]]
        /\ seen \in [Relays -> Nat \cup {NoVersion}]
        /\ found \in [Relays -> {"none", "now", "later", "never"}]
    BY DEF IInv, TypeOK
  <2> QED
    BY <1>2, <2>1, <2>2
       DEF Relay, SeeDue, Acquire, Held, ReadHead, Renew, Acked, NotAcked,
           MarkDispatched, MarkFailed, SettleReadHead, SettleReadRow,
           SettleWrite, Release, Broken, CallFails, Crash, Go
<1>3. CASE \/ Write \/ Operator \/ OpFails \/ HeadFallsDue
           \/ LeaseExpires
           \/ \E i \in DOMAIN rows : RowFallsDue(i)
           \/ \E i \in transit : Arrive(i) \/ Lost(i)
  BY <1>1, <1>3
     DEF Write, Operator, OpSelect, OpUpdate, OpRequeue, OpFails, Arrive,
         HeadFallsDue, LeaseExpires, RowFallsDue, Lost
<1>4. CASE \E p \in Repairers : Repair(p) \/ RepairFails(p)
  BY <1>1, <1>4
     DEF Repair, RepairRead, RepairUpsert, RepairFind, RepairDerive,
         RepairSetDue, RepairFails, repairUnchanged
<1>5. CASE UNCHANGED vars
  BY <1>1, <1>5 DEF vars, relayVars
<1> QED
  BY <1>2, <1>3, <1>4, <1>5 DEF Next

LEMMA StepKeepsView ==
    ASSUME IInv, Steady, [Next]_vars, NEW r \in Relays
    PROVE  SettleInView(r)'
<1>0. /\ pc \in [Relays -> Places]
      /\ head.v \in Nat \cup {-1} /\ head'.v \in Nat \cup {-1}
      /\ seen \in [Relays -> Nat \cup {-1}]
      /\ found \in [Relays -> {"none", "now", "later", "never"}]
      /\ SettleInView(r) /\ LeaseKept
  BY StepIInv DEF IInv, TypeOK, Steady, NoVersion
<1> USE DEF NoVersion
<1>1. CASE Relay(r) \/ Broken(r)
  <2>1. CASE SettleReadHead(r)
    BY <1>0, <2>1 DEF SettleReadHead, Go, SettleInView
  <2>2. CASE SettleReadRow(r)
    <3>1. /\ pc[r] = "settleRow" /\ seen' = seen /\ head' = head /\ rows' = rows
          /\ found'[r] = "none" => NoneOpen
      <4>1. \A i \in DOMAIN rows : DueAtOf(i) # "none"
        BY DueTimes DEF IInv, TypeOK
      <4> QED
        BY <1>0, <2>2, <4>1 DEF SettleReadRow
    <3> QED
      BY <1>0, <3>1 DEF SettleInView, NoneOpen, Open
  <2>3. CASE ~SettleReadHead(r) /\ ~SettleReadRow(r)
    <3>1. pc'[r] \notin {"settleRow", "settleWrite"} \/ seen'[r] = -1
      BY <1>0, <1>1, <2>3
         DEF Relay, SeeDue, Acquire, Held, ReadHead, Renew, Acked, NotAcked,
             MarkDispatched, MarkFailed, SettleWrite, Release, Broken,
             CallFails, Crash, Go
    <3> QED
      BY <3>1 DEF SettleInView
  <2> QED
    BY <2>1, <2>2, <2>3
<1>2. CASE ~Relay(r) /\ ~Broken(r)
  <2> SUFFICES ASSUME pc[r] \in {"settleRow", "settleWrite"}, seen[r] # -1
               PROVE  SettleInView(r)'
    BY <1>2, OwnState DEF SettleInView
  <2>1. \A s \in Relays : ~SettleWrite(s)
    <3> SUFFICES ASSUME NEW s \in Relays, SettleWrite(s) PROVE FALSE
      OBVIOUS
    <3>1. s # r
      BY <1>2 DEF Relay
    <3> QED
      BY <1>0, <3>1, OthersIdle DEF Working, SettleWrite
  <2>2. seen[r] <= head.v /\ head.v <= head'.v /\ (Write => head.v < head'.v)
    BY <1>0, <2>1, VersionsGrow DEF SettleInView
  <2>3. NoneOpen => Write \/ NoneOpen'
    BY OnlyWriteOpens
  <2> QED
    BY <1>0, <1>2, <2>2, <2>3, OwnState DEF SettleInView
<1> QED
  BY <1>1, <1>2

LEMMA StepKeepsOpenHasHead ==
    ASSUME IInv, Steady, [Next]_vars PROVE OpenHasHead'
<1>0. /\ head \in [v : Nat \cup {-1}, due : {"now", "later", "never"}]
      /\ head'.v \in Nat \cup {-1}
      /\ head.v = -1 => head = NoHead
      /\ NoHead.v = -1
      /\ OpenHasHead
  BY StepIInv DEF IInv, TypeOK, Steady, NoHead, NoVersion
<1>1. CASE Write
  BY <1>0, <1>1, VersionsGrow
     DEF OpenHasHead
<1>2. CASE ~Write /\ NoneOpen
  <2>1. NoneOpen'
    BY <1>2, OnlyWriteOpens
  <2> QED
    BY <2>1 DEF NoneOpen, OpenHasHead
<1>3. CASE ~Write /\ ~NoneOpen
  <2>1. head.v \in Nat
    BY <1>0, <1>3 DEF NoneOpen, OpenHasHead
  <2>2. ASSUME NEW r \in Relays, SettleWrite(r) PROVE head'.v # -1
    <3>1. /\ pc[r] = "settleWrite"
          /\ found[r] = "none" /\ seen[r] # NoVersion /\ head.v = seen[r] => NoneOpen
      BY <2>2 DEF SettleWrite, Steady, SettleInView
    <3> QED
      BY <1>0, <1>3, <2>1, <2>2, <3>1 DEF SettleWrite, RetireHead, SetDue
  <2>3. head'.v # -1
    BY <1>0, <2>1, <2>2, VersionsGrow
  <2> QED
    BY <1>0, <2>3 DEF OpenHasHead
<1> QED
  BY <1>1, <1>2, <1>3

\* What a step may do to a row: a relay marks it, an operator takes it out of
\* DEAD, and the rest leaves its status and its attempts alone.
LEMMA RowSteps ==
    ASSUME IInv, Steady, [Next]_vars, NEW i \in DOMAIN rows,
           \A r \in Relays : ~MarkDispatched(r) /\ ~MarkFailed(r)
    PROVE  \/ /\ rows'[i].status = rows[i].status
              /\ rows'[i].attempts = rows[i].attempts
           \/ rows[i].status = "dead" /\ rows'[i].status # "failed"
<1>0. /\ rows \in Seq(Row) /\ rows[i] \in Row /\ i \in 1..Len(rows)
      /\ rows[i].status = "failed" => rows[i].attempts < MaxAttempts
      /\ MaxAttempts \in Nat
  BY LenProperties, ElementOfSeq, MaxAttemptsAssumption
     DEF IInv, TypeOK, Steady, FailedMayRetry
<1>1. CASE UNCHANGED rows
  BY <1>1
<1>2. CASE Write
  <2>1. NewRow \in Row
    BY DEF NewRow, Row, Statuses, OpenStatuses
  <2> QED
    BY <1>0, <1>2, <2>1, AppendProperties DEF Write
<1>3. ASSUME NEW k \in DOMAIN rows, RowFallsDue(k)
      PROVE  rows'[i].status = rows[i].status /\ rows'[i].attempts = rows[i].attempts
  BY <1>0, <1>3 DEF RowFallsDue, Row
<1>4. CASE OpUpdate
  BY <1>0, <1>4 DEF OpUpdate, DeadRows, NewRow, Row
<1>5. ASSUME NEW p \in Repairers, RepairRead(p) PROVE rows'[i] = rows[i]
  <2>1. ~(rows[i].status = "failed" /\ rows[i].attempts >= MaxAttempts)
    BY <1>0 DEF Row
  <2>2. rows' = [k \in DOMAIN rows |->
                   IF rows[k].status = "failed" /\ rows[k].attempts >= MaxAttempts
                   THEN [rows[k] EXCEPT !.status = "dead", !.next = "now"]
                   ELSE rows[k]]
    BY <1>5 DEF RepairRead
  <2> QED
    BY <2>1, <2>2, Zenon
<1>6. ASSUME NEW r \in Relays, Relay(r) \/ Broken(r) PROVE UNCHANGED rows
  BY <1>6
     DEF Relay, SeeDue, Acquire, Held, ReadHead, Renew, Acked, NotAcked,
         SettleReadHead, SettleReadRow, SettleWrite, Release, Broken, CallFails,
         Crash
<1>7. ASSUME NEW p \in Repairers, Repair(p) \/ RepairFails(p), ~RepairRead(p)
      PROVE  UNCHANGED rows
  BY <1>7
     DEF Repair, RepairUpsert, RepairFind, RepairDerive, RepairSetDue, RepairFails
<1>8. CASE \/ OpSelect \/ OpRequeue \/ OpFails \/ HeadFallsDue
           \/ LeaseExpires
           \/ \E k \in transit : Arrive(k) \/ Lost(k)
  BY <1>1, <1>8
     DEF OpSelect, OpRequeue, OpFails, HeadFallsDue, LeaseExpires,
         Arrive, Lost
<1>9. CASE UNCHANGED vars
  BY <1>1, <1>9 DEF vars
<1> QED
  BY <1>1, <1>2, <1>3, <1>4, <1>5, <1>6, <1>7, <1>8, <1>9 DEF Next, Operator

LEMMA StepKeepsRetries ==
    ASSUME IInv, Steady, [Next]_vars PROVE FailedMayRetry'
<1>0. /\ rows \in Seq(Row)
      /\ DOMAIN rows = 1..Len(rows) /\ Len(rows) \in Nat
      /\ \A i \in DOMAIN rows : rows[i] \in Row
      /\ FailedMayRetry
  BY LenProperties, ElementOfSeq DEF IInv, TypeOK, Steady
<1>1. ASSUME NEW r \in Relays, MarkFailed(r) PROVE FailedMayRetry'
  <2> DEFINE n == cur[r].attempts + 1
             e == [status |-> IF n >= MaxAttempts THEN "dead" ELSE "failed",
                   attempts |-> n,
                   next |-> IF n >= MaxAttempts THEN "now" ELSE "later"]
  <2>1. n \in Nat /\ MaxAttempts \in Nat
    BY MaxAttemptsAssumption DEF IInv, TypeOK
  <2>2. rows' = rows \/ rows' = [rows EXCEPT ![cur[r].row] = e]
    BY <1>1 DEF MarkFailed
  <2>3. e.status = "failed" => e.attempts < MaxAttempts
    BY <2>1
  <2> HIDE DEF e
  <2> QED
    BY <1>0, <2>2, <2>3 DEF FailedMayRetry
<1>2. ASSUME NEW r \in Relays, MarkDispatched(r) PROVE FailedMayRetry'
  <2> DEFINE e == [rows[cur[r].row] EXCEPT !.status = "dispatched", !.next = "now"]
  <2>1. cur[r].row \in DOMAIN rows
    BY <1>2 DEF MarkDispatched, IInv, CurrentRow
  <2>2. rows' = rows \/ rows' = [rows EXCEPT ![cur[r].row] = e]
    BY <1>0, <1>2, <2>1 DEF MarkDispatched, Row
  <2>3. e.status = "dispatched"
    BY <1>0, <2>1 DEF Row
  <2> HIDE DEF e
  <2> QED
    BY <1>0, <2>2, <2>3 DEF FailedMayRetry
<1>3. CASE \A r \in Relays : ~MarkDispatched(r) /\ ~MarkFailed(r)
  <2>1. ASSUME NEW i \in DOMAIN rows, rows'[i].status = "failed"
        PROVE  rows'[i].attempts < MaxAttempts
    BY <1>0, <1>3, <2>1, RowSteps DEF FailedMayRetry
  <2>2. CASE Write
    <3>1. NewRow \in Row /\ NewRow.status # "failed"
      BY DEF NewRow, Row, Statuses, OpenStatuses
    <3>2. /\ rows' \in Seq(Row) /\ Len(rows') = Len(rows) + 1
          /\ rows'[Len(rows) + 1] = NewRow
      BY <1>0, <2>2, <3>1, AppendProperties DEF Write
    <3>3. DOMAIN rows' = 1..(Len(rows) + 1)
      BY <3>2, LenProperties
    <3> QED
      BY <1>0, <2>1, <3>1, <3>2, <3>3 DEF FailedMayRetry
  <2>3. CASE ~Write
    BY <2>1, <2>3, OnlyWriteOpens DEF FailedMayRetry
  <2> QED
    BY <2>2, <2>3
<1> QED
  BY <1>1, <1>2, <1>3

LEMMA StepKeepsCount ==
    ASSUME IInv, Steady, [Next]_vars, NEW r \in Relays PROVE Counted(r)'
<1>0. /\ pc \in [Relays -> Places]
      /\ cur \in [Relays -> [row : Nat, attempts : Nat]]
      /\ Counted(r) /\ CurrentRow(r) /\ LeaseKept
  BY DEF IInv, TypeOK, Steady
<1>1. CASE ReadHead(r)
  <2> SUFFICES ASSUME pc'[r] = "renew" PROVE Counted(r)'
    BY <1>0, <1>1 DEF ReadHead, Go, Counted
  <2> PICK i \in DOMAIN rows :
         IsDue(i) /\ cur' = [cur EXCEPT ![r] = [row |-> i, attempts |-> rows[i].attempts]]
    BY <1>0, <1>1 DEF ReadHead, Go
  <2> QED
    BY <1>0, <1>1 DEF ReadHead, Counted, IsDue, Retriable
<1>2. CASE (Relay(r) \/ Broken(r)) /\ ~ReadHead(r)
  <2>1. CASE Renew(r) \/ Acked(r) \/ NotAcked(r)
    BY <1>0, <2>1 DEF Renew, Acked, NotAcked, Go, Counted
  <2>2. CASE ~(Renew(r) \/ Acked(r) \/ NotAcked(r))
    BY <1>0, <1>2, <2>2
       DEF Relay, SeeDue, Acquire, Held, MarkDispatched, MarkFailed,
           SettleReadHead, SettleReadRow, SettleWrite, Release, Broken,
           CallFails, AfterFailure, Crash, Go, Counted
  <2> QED
    BY <2>1, <2>2
<1>3. CASE ~Relay(r) /\ ~Broken(r)
  <2> SUFFICES ASSUME pc[r] \in {"renew", "publish", "mark", "fail"}
               PROVE  Counted(r)'
    BY <1>3, OwnState DEF Counted
  <2>1. \A s \in Relays : ~MarkDispatched(s) /\ ~MarkFailed(s)
    <3> SUFFICES ASSUME NEW s \in Relays, MarkDispatched(s) \/ MarkFailed(s)
                 PROVE  FALSE
      OBVIOUS
    <3>1. s # r
      BY <1>3 DEF Relay
    <3> QED
      BY <1>0, <3>1, OthersIdle DEF Working, MarkDispatched, MarkFailed
  <2>2. cur[r].row \in DOMAIN rows /\ rows[cur[r].row].status \in Retriable
    BY <1>0 DEF Counted, CurrentRow
  <2> QED
    BY <1>0, <1>3, <2>1, <2>2, RowSteps, OwnState DEF Counted, Retriable
<1> QED
  BY <1>1, <1>2, <1>3

LEMMA SteadyInvariance == ~Pauses /\ Spec => []Steady
<1>1. Init => Steady
  <2> SUFFICES ASSUME Init PROVE Steady
    OBVIOUS
  <2>1. DOMAIN rows = {}
    BY EmptySeq, LenProperties DEF Init
  <2> QED
    BY <2>1
       DEF Init, Steady, LeaseKept, Working, NoHead, OpenHasHead, FailedMayRetry,
           SettleInView, Counted
<1>2. ~Pauses /\ IInv /\ Steady /\ [Next]_vars => Steady'
  <2> SUFFICES ASSUME ~Pauses, IInv, Steady, [Next]_vars PROVE Steady'
    OBVIOUS
  <2> QED
    BY StepKeepsLease, StepKeepsOpenHasHead, StepKeepsRetries, StepKeepsView,
       StepKeepsCount, VersionsGrow DEF Steady
<1>3. CASE Pauses
  BY <1>3, PTL
<1>4. CASE ~Pauses
  BY <1>1, <1>2, <1>4, Invariance, PTL DEF Spec
<1> QED
  BY <1>3, <1>4

\* While holders keep their lease, an open row always has its head.
THEOREM HeadIsKept == ~Pauses /\ Spec => []OpenHasHead
<1>1. Steady => OpenHasHead
  BY DEF Steady
<1> QED
  BY <1>1, SteadyInvariance, PTL

\* While holders keep their lease, every failure adds one attempt.
THEOREM FailuresCount == ~Pauses /\ Spec => EveryFailureCounts
<1>1. IInv /\ Steady /\ [Next]_vars =>
        [\A r \in Relays :
           pc[r] = "fail" /\ pc'[r] = "settle" /\ UNCHANGED faults =>
               LET i == cur[r].row
               IN  rows[i].status \in Retriable =>
                       rows'[i].attempts = rows[i].attempts + 1]_vars
  <2> SUFFICES ASSUME IInv, Steady, [Next]_vars, NEW r \in Relays,
                      pc[r] = "fail", pc'[r] = "settle", UNCHANGED faults,
                      rows[cur[r].row].status \in Retriable
               PROVE  rows'[cur[r].row].attempts = rows[cur[r].row].attempts + 1
    OBVIOUS
  <2>0. /\ pc \in [Relays -> Places] /\ faults \in Nat
        /\ cur[r].row \in DOMAIN rows
        /\ rows[cur[r].row].attempts = cur[r].attempts
    BY DEF IInv, TypeOK, CurrentRow, Steady, Counted
  <2>1. Relay(r) \/ Broken(r)
    BY OwnState
  <2>2. MarkFailed(r)
    BY <2>0, <2>1
       DEF Relay, SeeDue, Acquire, Held, ReadHead, Renew, Acked, NotAcked,
           MarkDispatched, SettleReadHead, SettleReadRow, SettleWrite, Release,
           Broken, CallFails, Crash, Fault, Go
  <2> QED
    BY <2>0, <2>2 DEF MarkFailed
<1>2. CASE Pauses
  BY <1>2
<1>3. CASE ~Pauses
  BY <1>1, <1>3, Invariance, SteadyInvariance, PTL DEF Spec, EveryFailureCounts
<1> QED
  BY <1>2, <1>3

-----------------------------------------------------------------------------
(* The outbox keeps the promise of OrderedDelivery.                        *)

\* Rows that stay open or closed as they were keep their fate.
LEMMA SameFate ==
    ASSUME DOMAIN rows' = DOMAIN rows,
           \A i \in DOMAIN rows :
              /\ rows[i].status \in Terminal => rows'[i].status = rows[i].status
              /\ rows[i].status \notin Terminal => rows'[i].status \notin Terminal
    PROVE  Fate' = Fate
BY DEF Fate

LEMMA WriteKeepsPromise ==
    ASSUME TypeOK, Write PROVE Promise!Write
<1> DEFINE n == Len(rows)
<1>1. /\ DOMAIN rows = 1..n /\ n \in Nat
      /\ NewRow \in Row /\ NewRow.status \notin Terminal
      /\ rows \in Seq(Row)
  BY LenProperties
     DEF TypeOK, NewRow, Row, Statuses, OpenStatuses, Terminal
<1>2. /\ rows' \in Seq(Row) /\ Len(rows') = n + 1
      /\ DOMAIN rows' = 1..(n + 1)
      /\ \A i \in 1..n : rows'[i] = rows[i]
      /\ rows'[n + 1] = NewRow
  BY <1>1, AppendProperties, LenProperties DEF Write
<1> DEFINE S == {"open", "dispatched", "skipped"}
<1>3. Fate \in [1..n -> S] /\ Fate' \in [1..(n + 1) -> S]
  BY <1>1, <1>2 DEF Fate, Terminal
<1>4. /\ Fate \in Seq(S) /\ Len(Fate) = n /\ DOMAIN Fate = 1..n
      /\ Fate' \in Seq(S) /\ Len(Fate') = n + 1
  BY <1>1, <1>3, FunctionIsSeq
<1>5. /\ Append(Fate, "open") \in Seq(S)
      /\ Len(Append(Fate, "open")) = n + 1
      /\ \A i \in 1..n : Append(Fate, "open")[i] = Fate[i]
      /\ Append(Fate, "open")[n + 1] = "open"
  BY <1>4, AppendProperties
<1>6. /\ \A i \in 1..n : Fate'[i] = Fate[i]
      /\ Fate'[n + 1] = "open"
  BY <1>1, <1>2 DEF Fate
<1>7. \A i \in 1..(n + 1) : Fate'[i] = Append(Fate, "open")[i]
  BY <1>1, <1>5, <1>6
<1>8. Fate' = Append(Fate, "open")
  BY <1>1, <1>4, <1>5, <1>7, SeqEqual
<1> QED
  BY <1>8 DEF Promise!Write, Write, brokerVars

LEMMA MarkDispatchedKeepsPromise ==
    ASSUME IInv, NEW r \in Relays, MarkDispatched(r)
    PROVE  \/ UNCHANGED <<Fate, transit, delivered>>
           \/ \E i \in DOMAIN Fate : Promise!Dispatch(i)
<1> PICK i \in DOMAIN rows : i = cur[r].row /\ Delivered(i)
  BY DEF IInv, CurrentRow, MarkDispatched
<1>1. /\ UNCHANGED <<transit, delivered>> /\ rows[i] \in Row
      /\ DOMAIN rows = 1..Len(rows)
  BY LenProperties, ElementOfSeq DEF MarkDispatched, brokerVars, IInv, TypeOK
<1>2. CASE rows[i].status \in Retriable
  <2> DEFINE e == [rows[i] EXCEPT !.status = "dispatched", !.next = "now"]
  <2>1. rows' = [rows EXCEPT ![i] = e] /\ e.status = "dispatched"
    BY <1>1, <1>2 DEF MarkDispatched, Row
  <2>2. i \in DOMAIN Fate /\ Fate[i] = "open"
    BY <1>2 DEF Fate, Retriable, Terminal
  <2> HIDE DEF e
  <2>3. Fate' = [Fate EXCEPT ![i] = "dispatched"]
    BY <2>1, <2>2 DEF Fate, Terminal
  <2>4. Promise!Delivered(i)
    BY DEF Promise!Delivered, Delivered
  <2> QED
    BY <1>1, <2>2, <2>3, <2>4 DEF Promise!Dispatch
<1>3. CASE rows[i].status \notin Retriable
  <2>1. rows' = rows
    BY <1>3 DEF MarkDispatched
  <2> QED
    BY <1>1, <2>1 DEF Fate
<1> QED
  BY <1>2, <1>3

LEMMA RowStepKeepsFate ==
    ASSUME IInv,
           \/ \E r \in Relays : MarkFailed(r)
           \/ \E i \in DOMAIN rows : RowFallsDue(i)
           \/ \E p \in Repairers : RepairRead(p)
    PROVE  UNCHANGED <<Fate, transit, delivered>>
<1>0. \A i \in DOMAIN rows : rows[i] \in Row
  BY LenProperties, ElementOfSeq DEF IInv, TypeOK
<1>1. ASSUME NEW r \in Relays, MarkFailed(r) PROVE Fate' = Fate
  BY <1>1, SameFate DEF MarkFailed, Retriable, Terminal
<1>2. ASSUME NEW i \in DOMAIN rows, RowFallsDue(i) PROVE Fate' = Fate
  BY <1>0, <1>2, SameFate DEF RowFallsDue, Row
<1>3. ASSUME NEW p \in Repairers, RepairRead(p) PROVE Fate' = Fate
  BY <1>0, <1>3, SameFate DEF RepairRead, Terminal, Row
<1> QED
  BY <1>1, <1>2, <1>3
     DEF MarkFailed, RowFallsDue, RepairRead, repairUnchanged, brokerVars

LEMMA OpUpdateKeepsPromise ==
    ASSUME IInv, OpUpdate
    PROVE  \/ UNCHANGED <<Fate, transit, delivered>>
           \/ \E S \in SUBSET DOMAIN Fate : Promise!Skip(S)
<1>0. UNCHANGED <<transit, delivered>> /\ DOMAIN rows' = DOMAIN rows
  BY DEF OpUpdate, brokerVars
<1>1. CASE op.to = "pending"
  BY <1>0, <1>1, SameFate DEF OpUpdate, DeadRows, NewRow, Terminal
<1>2. CASE op.to # "pending"
  <2> DEFINE S == DeadRows \cap op.rows
  <2>1. S \in SUBSET DOMAIN Fate /\ \A i \in S : Fate[i] = "open"
    BY DEF DeadRows, Fate, Terminal
  <2>2. \A i \in DOMAIN rows : rows[i] \in Row
    BY LenProperties, ElementOfSeq DEF IInv, TypeOK
  <2>3. ASSUME NEW i \in DOMAIN rows
        PROVE  Fate'[i] = IF i \in S THEN "skipped" ELSE Fate[i]
    BY <1>0, <1>2, <2>2, <2>3 DEF OpUpdate, Fate, Terminal, Row
  <2>4. DOMAIN Fate = DOMAIN rows /\ Fate' = [i \in DOMAIN rows |-> Fate'[i]]
    BY <1>0 DEF Fate
  <2>5. Fate' = [i \in DOMAIN Fate |-> IF i \in S THEN "skipped" ELSE Fate[i]]
    BY <2>3, <2>4
  <2> HIDE DEF S
  <2> QED
    BY <1>0, <2>1, <2>5 DEF Promise!Skip
<1> QED
  BY <1>1, <1>2

LEMMA RenewKeepsPromise ==
    ASSUME IInv, NEW r \in Relays, Renew(r)
    PROVE  \/ UNCHANGED <<Fate, transit, delivered>>
           \/ \E i \in DOMAIN Fate : Promise!Hand(i)
<1> PICK i \in DOMAIN rows : i = cur[r].row /\ ClosedBefore(i)
  BY DEF IInv, CurrentRow, Renew
<1>1. UNCHANGED <<Fate, delivered>>
  BY DEF Renew, Fate
<1>2. CASE transit' = transit
  BY <1>1, <1>2
<1>3. CASE transit' # transit
  <2>1. transit' = transit \cup {i} /\ ~Delivered(i)
    BY <1>3 DEF Renew
  <2>2. ~Promise!Delivered(i)
    BY <2>1 DEF Promise!Delivered, Delivered
  <2>3. Promise!AllClosedBefore(i)
    <3>1. DOMAIN rows = 1..Len(rows) /\ Len(rows) \in Nat
      BY LenProperties DEF IInv, TypeOK
    <3>2. \A k \in 1..(i - 1) : k \in DOMAIN rows
      BY <3>1
    <3> QED
      BY <3>2 DEF Promise!AllClosedBefore, ClosedBefore, Fate, Terminal
  <2> QED
    BY <1>1, <2>1, <2>2, <2>3 DEF Promise!Hand, Fate
<1> QED
  BY <1>2, <1>3

LEMMA StepKeepsPromise ==
    IInv /\ [Next]_vars => [Promise!Next]_(Promise!vars)
<1> SUFFICES ASSUME IInv, [Next]_vars
             PROVE  Promise!Next \/ UNCHANGED <<Fate, transit, delivered>>
  BY DEF Promise!vars
<1> USE DEF Promise!Next
<1>1. CASE UNCHANGED <<rows, transit, delivered>>
  BY <1>1 DEF Fate
<1>2. CASE Write
  BY <1>2, WriteKeepsPromise DEF IInv
<1>3. ASSUME NEW r \in Relays, Relay(r) \/ Broken(r)
      PROVE  Promise!Next \/ UNCHANGED <<Fate, transit, delivered>>
  <2>1. CASE MarkDispatched(r) \/ MarkFailed(r) \/ Renew(r)
    BY <2>1, MarkDispatchedKeepsPromise, RowStepKeepsFate, RenewKeepsPromise
  <2>2. CASE ~(MarkDispatched(r) \/ MarkFailed(r) \/ Renew(r))
    BY <1>1, <1>3, <2>2
       DEF Relay, SeeDue, Acquire, Held, ReadHead, Acked, NotAcked,
           SettleReadHead, SettleReadRow, SettleWrite, Release, Broken,
           CallFails, Crash, brokerVars
  <2> QED
    BY <2>1, <2>2
<1>4. ASSUME NEW i \in transit, Arrive(i) \/ Lost(i)
      PROVE  Promise!Next
  <2>1. UNCHANGED Fate
    BY <1>4 DEF Arrive, Lost, Fate
  <2> QED
    BY <1>4, <2>1 DEF Arrive, Lost, Promise!Arrive, Promise!Lose
<1>5. ASSUME NEW i \in DOMAIN rows, RowFallsDue(i)
      PROVE  UNCHANGED <<Fate, transit, delivered>>
  BY <1>5, RowStepKeepsFate
<1>6. CASE Operator
  BY <1>1, <1>6, OpUpdateKeepsPromise
     DEF Operator, OpSelect, OpRequeue, brokerVars
<1>7. ASSUME NEW p \in Repairers, Repair(p) \/ RepairFails(p)
      PROVE  UNCHANGED <<Fate, transit, delivered>>
  <2>1. CASE RepairRead(p)
    BY <2>1, RowStepKeepsFate
  <2>2. CASE UNCHANGED <<rows, transit, delivered>>
    BY <2>2 DEF Fate
  <2> QED
    BY <1>7, <2>1, <2>2
       DEF Repair, RepairUpsert, RepairFind, RepairDerive, RepairSetDue,
           RepairFails, repairUnchanged, brokerVars
<1>8. CASE LeaseExpires \/ HeadFallsDue \/ OpFails
  BY <1>1, <1>8 DEF LeaseExpires, HeadFallsDue, OpFails, brokerVars
<1>9. CASE UNCHANGED vars
  BY <1>1, <1>9 DEF vars
<1> QED
  BY <1>2, <1>3, <1>4, <1>5, <1>6, <1>7, <1>8, <1>9 DEF Next

\* Relays, operator and sweep together, with every failure modelled and with
\* relays that outlive their lease, implement ordered at-least-once delivery.
THEOREM Implementation == Spec => ImplementsOrderedDelivery
<1>1. Init => Promise!Init
  <2> SUFFICES ASSUME Init PROVE Promise!Init
    OBVIOUS
  <2>1. DOMAIN rows = {}
    BY EmptySeq, LenProperties DEF Init
  <2>2. Fate = << >>
    BY <2>1 DEF Fate
  <2> QED
    BY <2>2 DEF Promise!Init, Init
<1> QED
  BY <1>1, StepKeepsPromise, Invariance, PTL
     DEF Spec, ImplementsOrderedDelivery, Promise!Spec

=============================================================================
