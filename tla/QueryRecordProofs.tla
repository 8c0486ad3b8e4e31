------------------------- MODULE QueryRecordProofs -------------------------
(***************************************************************************)
(* The Query Record of QueryRecord.tla for any late writes, any number of   *)
(* polls and any rate: types, what the row shows once a terminal was        *)
(* written, its price, what its seal recorded, and the order of late writes *)
(* behind scheduled ones.                                                   *)
(***************************************************************************)
EXTENDS QueryRecord, TLAPS

LEMMA NoRowIsNone == \A r \in Rows : r # NoRow /\ r.outcome # "absent"
BY DEF Rows, NoRow

\* What a terminal delivers.
Delivered(w) ==
    {p \in Rows : /\ p.outcome # "pending" /\ p.latency = w /\ p.mode = w
                  /\ p.model = p.provider
                  /\ p.price <= p.tokens /\ p.feedback = "none"
                  /\ w = "seal" => p.tokens = 1
                  /\ w = "answer" => p.tokens \in {0, 2}
                  /\ w = "timeout" => p.tokens = 0
                  /\ (p.price # 0 <=> p.status = "complete")
                  /\ (p.price = 0 <=> p.status = "unknown")}

LEMMA DeliverGood ==
    ASSUME NEW w \in Terminals, NEW o \in {"success", "error"}, NEW m \in {w, "none"},
           NEW t \in 0 .. 2, NEW p \in 0 .. 2, p <= t, w = "seal" => t = 1,
           w = "answer" => t \in {0, 2}, w = "timeout" => t = 0
    PROVE  Deliver(w, o, m, t, p) \in Delivered(w)
<1>1. Deliver(w, o, m, t, p) =
        [outcome |-> o, model |-> m, provider |-> m, tokens |-> t, price |-> p,
         status |-> IF p = 0 THEN "unknown" ELSE "complete", latency |-> w,
         mode |-> w, feedback |-> "none"]
  BY DEF Deliver
<1>2. Deliver(w, o, m, t, p) \in Rows
  BY <1>1 DEF Rows
<1>3. /\ Deliver(w, o, m, t, p).outcome = o /\ Deliver(w, o, m, t, p).latency = w
      /\ Deliver(w, o, m, t, p).model = m /\ Deliver(w, o, m, t, p).provider = m
      /\ Deliver(w, o, m, t, p).price = p /\ Deliver(w, o, m, t, p).tokens = t
      /\ Deliver(w, o, m, t, p).feedback = "none" /\ Deliver(w, o, m, t, p).mode = w
      /\ Deliver(w, o, m, t, p).status = IF p = 0 THEN "unknown" ELSE "complete"
  BY <1>1
<1> QED
  BY <1>2, <1>3 DEF Delivered

LEMMA DeliveriesGood ==
    ASSUME NEW w \in Terminals, NEW p \in Deliveries(w)
    PROVE  p \in Delivered(w) /\ p \in Rows
<1>1. CASE w = "seal"
  <2>1. p \in {Deliver(w, "success", w, 1, 1), Deliver(w, "success", w, 1, 0),
               Deliver(w, "success", "none", 1, 0)}
    BY <1>1 DEF Deliveries
  <2> QED
    BY <1>1, <2>1, DeliverGood DEF Delivered
<1>2. CASE w = "answer"
  <2>1. p \in {Deliver(w, "success", m, 2, c) : m \in {w, "none"}, c \in {0, 2}}
              \cup {Deliver(w, "error", w, 2, 2), Deliver(w, "error", "none", 0, 0)}
    BY <1>2 DEF Deliveries
  <2>2. CASE \E m \in {w, "none"}, c \in {0, 2} : p = Deliver(w, "success", m, 2, c)
    BY <1>2, <2>2, DeliverGood DEF Delivered
  <2>3. CASE p \in {Deliver(w, "error", w, 2, 2), Deliver(w, "error", "none", 0, 0)}
    BY <1>2, <2>3, DeliverGood DEF Delivered
  <2> QED
    BY <2>1, <2>2, <2>3
<1>3. CASE w = "timeout"
  <2>1. p = Deliver(w, "error", "none", 0, 0)
    BY <1>3 DEF Deliveries
  <2> QED
    BY <1>3, <2>1, DeliverGood DEF Delivered
<1> QED
  BY <1>1, <1>2, <1>3 DEF Terminals, Tasks

LEMMA RefreshedFields ==
    ASSUME NEW new \in Rows, NEW old, NEW now \in Rows
    PROVE  LET r == Refreshed(new, old, now)
           IN  /\ r \in Rows
               /\ r.outcome = new.outcome /\ r.status = new.status
               /\ r.latency = new.latency
               /\ r.tokens = now.tokens
               /\ r.model = IF new.model = "none" THEN now.model ELSE new.model
               /\ r.provider = IF new.model = "none" THEN now.provider ELSE new.provider
               /\ r.mode = IF old.mode = "none" THEN new.mode ELSE now.mode
<1> DEFINE r1 == [now EXCEPT !.outcome = new.outcome]
           r2 == [r1 EXCEPT !.status = new.status]
           r3 == [r2 EXCEPT !.latency = new.latency]
           r4 == [r3 EXCEPT !.model = IF new.model = "none" THEN now.model ELSE new.model]
           r5 == [r4 EXCEPT !.provider = IF new.model = "none" THEN now.provider ELSE new.provider]
           r6 == [r5 EXCEPT !.mode = IF old.mode = "none" THEN new.mode ELSE now.mode]
<1>1. Refreshed(new, old, now) = r6
  BY DEF Refreshed, Rows
<1>2. /\ r1 \in Rows
      /\ r1.outcome = new.outcome
      /\ r1.tokens = now.tokens
      /\ r1.mode = now.mode
  BY DEF Rows
<1>3. /\ r2 \in Rows
      /\ r2.status = new.status
      /\ r2.mode = r1.mode /\ r2.tokens = r1.tokens /\ r2.outcome = r1.outcome
  <2> HIDE DEF r1
  <2> QED
    BY <1>2 DEF Rows
<1>4. /\ r3 \in Rows
      /\ r3.latency = new.latency
      /\ r3.mode = r2.mode /\ r3.tokens = r2.tokens /\ r3.outcome = r2.outcome /\ r3.status = r2.status
  <2> HIDE DEF r2
  <2> QED
    BY <1>3 DEF Rows
<1>5. /\ r4 \in Rows
      /\ r4.model = IF new.model = "none" THEN now.model ELSE new.model
      /\ r4.mode = r3.mode /\ r4.tokens = r3.tokens /\ r4.outcome = r3.outcome /\ r4.status = r3.status /\ r4.latency = r3.latency
  <2> HIDE DEF r3
  <2> QED
    BY <1>4 DEF Rows
<1>6. /\ r5 \in Rows
      /\ r5.provider = IF new.model = "none" THEN now.provider ELSE new.provider
      /\ r5.mode = r4.mode /\ r5.tokens = r4.tokens /\ r5.outcome = r4.outcome /\ r5.status = r4.status /\ r5.latency = r4.latency /\ r5.model = r4.model
  <2> HIDE DEF r4
  <2> QED
    BY <1>5 DEF Rows
<1>7. /\ r6 \in Rows
      /\ r6.mode = IF old.mode = "none" THEN new.mode ELSE now.mode
      /\ r6.tokens = r5.tokens /\ r6.outcome = r5.outcome /\ r6.status = r5.status /\ r6.latency = r5.latency /\ r6.model = r5.model /\ r6.provider = r5.provider
  <2> HIDE DEF r5
  <2> QED
    BY <1>6 DEF Rows
<1> HIDE DEF r1, r2, r3, r4, r5, r6
<1> QED
  BY <1>1, <1>2, <1>3, <1>4, <1>5, <1>6, <1>7

LEMMA ReconciledFields ==
    ASSUME NEW new \in Rows, NEW old, NEW now \in Rows
    PROVE  LET r == Reconciled(new, old, now)
           IN  /\ r \in Rows
               /\ r.outcome = new.outcome /\ r.latency = new.latency
               /\ r.price = new.price /\ r.status = new.status
               /\ r.tokens = IF new.tokens = 0 THEN now.tokens ELSE new.tokens
               /\ r.model = IF new.model = "none" THEN now.model ELSE new.model
               /\ r.provider = IF new.model = "none" THEN now.provider ELSE new.provider
               /\ r.mode = IF old.mode = "none" THEN new.mode ELSE now.mode
<1> DEFINE f == Refreshed(new, old, now)
<1>1. Reconciled(new, old, now) =
        [f EXCEPT !.tokens = IF new.tokens = 0 THEN f.tokens ELSE new.tokens,
                  !.price = new.price]
  BY DEF Reconciled
<1>2. f \in Rows /\ f.tokens = now.tokens
  BY RefreshedFields
<1>3. /\ f.outcome = new.outcome /\ f.status = new.status /\ f.latency = new.latency
      /\ f.model = IF new.model = "none" THEN now.model ELSE new.model
      /\ f.provider = IF new.model = "none" THEN now.provider ELSE new.provider
      /\ f.mode = IF old.mode = "none" THEN new.mode ELSE now.mode
  BY RefreshedFields
<1> HIDE DEF f
<1> DEFINE g == [f EXCEPT !.tokens = IF new.tokens = 0 THEN f.tokens ELSE new.tokens]
           h == [g EXCEPT !.price = new.price]
<1>4. Reconciled(new, old, now) = h
  BY <1>1, <1>2 DEF Rows
<1>5. /\ g \in Rows /\ g.tokens = IF new.tokens = 0 THEN f.tokens ELSE new.tokens
      /\ g.outcome = f.outcome /\ g.status = f.status /\ g.latency = f.latency
      /\ g.model = f.model /\ g.provider = f.provider /\ g.mode = f.mode
  BY <1>2 DEF Rows
<1> HIDE DEF g
<1>6. /\ h \in Rows /\ h.price = new.price /\ h.tokens = g.tokens
      /\ h.outcome = g.outcome /\ h.status = g.status /\ h.latency = g.latency
      /\ h.model = g.model /\ h.provider = g.provider /\ h.mode = g.mode
  BY <1>5 DEF Rows
<1> HIDE DEF h
<1> QED
  BY <1>2, <1>3, <1>4, <1>5, <1>6

LEMMA LateFields ==
    ASSUME NEW l \in Lates, row \in Rows
    PROVE  /\ LateRow(l) \in Rows
           /\ LateRow(l).outcome = row.outcome /\ LateRow(l).price = row.price
           /\ LateRow(l).status = row.status /\ LateRow(l).tokens = row.tokens
           /\ LateRow(l).model = row.model /\ LateRow(l).provider = row.provider
           /\ LateRow(l).mode = row.mode
           /\ LateRow(l).latency = IF l \in Timings THEN l ELSE row.latency
<1>1. CASE l \in Timings
  <2>1. LateRow(l) = [row EXCEPT !.latency = l]
    BY <1>1 DEF LateRow
  <2> QED
    BY <1>1, <2>1 DEF Rows
<1>2. CASE l \notin Timings
  <2>1. LateRow(l) = [row EXCEPT !.feedback = l] /\ l \in Feedbacks
    BY <1>2 DEF LateRow, Lates
  <2> QED
    BY <1>2, <2>1 DEF Rows
<1> QED
  BY <1>1, <1>2
-----------------------------------------------------------------------------
(* Types, and that a row which was read stays.                              *)

SeenInv ==
    /\ \A w \in Terminals : write[w] # "idle" => payload[w] \in Delivered(w)
    /\ \A w \in Terminals : write[w] \in {"read", "done"} => row \in Rows
    /\ \A l \in Lates : late[l] \in {"found", "committed", "stored"} => row \in Rows

LEMMA TypeStep ==
    ASSUME TypeOK, SeenInv, [Next]_vars
    PROVE  TypeOK' /\ SeenInv' /\ (row \in Rows => row' \in Rows)
<1> USE NoRowIsNone
<1>1. CASE ReserveExecution
  <2>1. row' \in Rows
    <3>1. Pending \in Rows
      BY DEF Pending, Rows
    <3> QED
      BY <1>1, <3>1 DEF ReserveExecution, Reserved, TypeOK
  <2> QED
    BY <1>1, <2>1 DEF ReserveExecution, TypeOK, SeenInv
<1>2. ASSUME NEW w \in Terminals, Schedule(w)
      PROVE  TypeOK' /\ SeenInv' /\ (row \in Rows => row' \in Rows)
  <2>1. PICK p \in Deliveries(w) : payload' = [payload EXCEPT ![w] = p]
    BY <1>2 DEF Schedule
  <2>2. p \in Rows /\ p \in Delivered(w)
    BY DeliveriesGood
  <2>3. TypeOK'
    BY <1>2, <2>1, <2>2 DEF Schedule, TypeOK
  <2>4. \A x \in Terminals : write'[x] # "idle" => payload'[x] \in Delivered(x)
    BY <1>2, <2>1, <2>2 DEF Schedule, TypeOK, SeenInv
  <2> QED
    BY <1>2, <2>3, <2>4 DEF Schedule, TypeOK, SeenInv
<1>3. ASSUME NEW w \in Terminals, Insert(w)
      PROVE  TypeOK' /\ SeenInv' /\ (row \in Rows => row' \in Rows)
  <2>1. payload[w] \in Rows
    BY <1>3 DEF Insert, SeenInv, Delivered
  <2>2. row' \in Rows
    BY <1>3, <2>1 DEF Insert, TypeOK
  <2>3. TypeOK'
    BY <1>3, <2>1, <2>2 DEF Insert, TypeOK
  <2>4. \A x \in Terminals : write'[x] # "idle" => payload'[x] \in Delivered(x)
    BY <1>3 DEF Insert, TypeOK, SeenInv
  <2> QED
    BY <1>3, <2>2, <2>3, <2>4 DEF Insert, SeenInv
<1>4. ASSUME NEW w \in Terminals, Reconcile(w)
      PROVE  TypeOK' /\ SeenInv' /\ (row \in Rows => row' \in Rows)
  <2>1. payload[w] \in Rows /\ row \in Rows
    BY <1>4 DEF Reconcile, SeenInv, Delivered
  <2>2. row' \in Rows
    BY <1>4, <2>1, ReconciledFields DEF Reconcile
  <2>3. TypeOK'
    BY <1>4, <2>2 DEF Reconcile, TypeOK
  <2>4. \A x \in Terminals : write'[x] # "idle" => payload'[x] \in Delivered(x)
    BY <1>4 DEF Reconcile, TypeOK, SeenInv
  <2> QED
    BY <1>4, <2>2, <2>3, <2>4 DEF Reconcile, SeenInv
<1>5. ASSUME NEW w \in Terminals, WriteFails(w)
      PROVE  TypeOK' /\ SeenInv' /\ (row \in Rows => row' \in Rows)
  BY <1>5 DEF WriteFails, InFlight, TypeOK, SeenInv
<1>6. ASSUME NEW l \in Lates, LateArrives(l)
      PROVE  TypeOK' /\ SeenInv' /\ (row \in Rows => row' \in Rows)
  BY <1>6 DEF LateArrives, Gathered, TypeOK, SeenInv
<1>7. ASSUME NEW l \in Lates, LatePolls(l)
      PROVE  TypeOK' /\ SeenInv' /\ (row \in Rows => row' \in Rows)
  <2>1. CASE row = NoRow
    BY <1>7, <2>1 DEF LatePolls, Gathered, TypeOK, SeenInv
  <2>2. CASE row # NoRow
    BY <1>7, <2>2 DEF LatePolls, TypeOK, SeenInv
  <2> QED
    BY <2>1, <2>2
<1>8. ASSUME NEW l \in Lates, LateUpdates(l)
      PROVE  TypeOK' /\ SeenInv' /\ (row \in Rows => row' \in Rows)
  <2>1. row' \in Rows
    BY <1>8, LateFields DEF LateUpdates, SeenInv
  <2> QED
    BY <1>8, <2>1 DEF LateUpdates, TypeOK, SeenInv
<1>9. ASSUME NEW l \in Lates, LateChecks(l) \/ LateFails(l)
      PROVE  TypeOK' /\ SeenInv' /\ (row \in Rows => row' \in Rows)
  BY <1>9 DEF LateChecks, LateFails, TypeOK, SeenInv
<1>10. CASE UNCHANGED vars
  BY <1>10 DEF vars, TypeOK, SeenInv
<1> QED
  BY <1>1, <1>2, <1>3, <1>4, <1>5, <1>6, <1>7, <1>8, <1>9, <1>10
     DEF Next, WriteStep, LateStep
-----------------------------------------------------------------------------
(* What the row shows.                                                      *)

RowInv ==
    row # NoRow =>
        /\ row.model = row.provider
        /\ row.price # 0 <=> row.status = "complete"
        /\ row.price <= row.tokens
        /\ row.model # "none" => \E w \in Written : payload[w].model = row.model
        /\ Written # {} => \E w \in Written : row.outcome = payload[w].outcome

\* A terminal that writes, into an empty table or over a row.
LEMMA RowWritten ==
    ASSUME TypeOK, SeenInv, RowInv, NEW w \in Terminals, write[w] \in {"task", "read"},
           write' = [write EXCEPT ![w] = "done"], payload' = payload,
           \/ row = NoRow /\ row' = payload[w]
           \/ row \in Rows /\ row' = Reconciled(payload[w], existing[w], row)
    PROVE  RowInv'
<1>1. payload[w] \in Delivered(w) /\ payload[w] \in Rows
  BY DEF SeenInv, Delivered
<1>2. Written' = Written \cup {w} /\ w \in Written'
  BY DEF Written, TypeOK
<1>3. CASE row = NoRow /\ row' = payload[w]
  BY <1>1, <1>2, <1>3 DEF RowInv, Delivered
<1>4. CASE row \in Rows /\ row' = Reconciled(payload[w], existing[w], row)
  <2>1. row # NoRow
    BY <1>4, NoRowIsNone
  <2>2. /\ row'.outcome = payload[w].outcome /\ row'.price = payload[w].price
        /\ row'.status = payload[w].status
        /\ row'.tokens = IF payload[w].tokens = 0 THEN row.tokens ELSE payload[w].tokens
        /\ row'.model = IF payload[w].model = "none" THEN row.model ELSE payload[w].model
        /\ row'.provider = IF payload[w].model = "none" THEN row.provider ELSE payload[w].provider
    BY <1>1, <1>4, ReconciledFields
  <2>3. row'.model = row'.provider
    BY <1>1, <2>1, <2>2 DEF RowInv, Delivered
  <2>4. row'.price # 0 <=> row'.status = "complete"
    BY <1>1, <2>2 DEF Delivered
  <2>5. row'.price <= row'.tokens
    <3>1. payload[w].tokens \in 0 .. 2 /\ payload[w].price \in 0 .. 2 /\ row.tokens \in 0 .. 2
          /\ payload[w].price <= payload[w].tokens
      BY <1>1, <1>4 DEF Rows, Delivered
    <3> QED
      BY <2>2, <3>1
  <2>6. row'.model # "none" => \E x \in Written' : payload'[x].model = row'.model
    <3>1. CASE payload[w].model = "none"
      BY <1>2, <2>1, <2>2, <3>1 DEF RowInv
    <3>2. CASE payload[w].model # "none"
      BY <1>2, <2>2, <3>2
    <3> QED
      BY <3>1, <3>2
  <2>7. \E x \in Written' : row'.outcome = payload'[x].outcome
    BY <1>2, <2>2
  <2> QED
    BY <2>3, <2>4, <2>5, <2>6, <2>7 DEF RowInv
<1> QED
  BY <1>3, <1>4

LEMMA RowStep ==
    ASSUME TypeOK, SeenInv, RowInv, [Next]_vars
    PROVE  RowInv'
<1>1. CASE ReserveExecution
  <2>1. Written' = Written /\ payload' = payload
    BY <1>1 DEF ReserveExecution, Written
  <2>2. CASE row = NoRow
    <3>1. Written = {}
      BY <2>2, NoRowIsNone DEF SeenInv, Written
    <3>2. row' = Pending
      BY <1>1, <2>2 DEF ReserveExecution, Reserved
    <3> QED
      BY <2>1, <3>1, <3>2 DEF RowInv, Pending
  <2>3. CASE row # NoRow
    BY <1>1, <2>1, <2>3 DEF ReserveExecution, Reserved, RowInv
  <2> QED
    BY <2>2, <2>3
<1>2. ASSUME NEW w \in Terminals, Schedule(w)
      PROVE  RowInv'
  <2>1. Written' = Written /\ row' = row /\ w \notin Written
    BY <1>2 DEF Schedule, Written, TypeOK
  <2>2. \A x \in Written : payload'[x] = payload[x]
    BY <1>2, <2>1 DEF Schedule, TypeOK, Written
  <2> QED
    BY <2>1, <2>2 DEF RowInv
<1>3. ASSUME NEW w \in Terminals, Insert(w)
      PROVE  RowInv'
  <2>1. CASE row = NoRow
    BY <1>3, <2>1, RowWritten DEF Insert
  <2>2. CASE row # NoRow
    <3>1. Written' = Written /\ row' = row /\ payload' = payload
      BY <1>3, <2>2 DEF Insert, Written, TypeOK
    <3> QED
      BY <3>1 DEF RowInv
  <2> QED
    BY <2>1, <2>2
<1>4. ASSUME NEW w \in Terminals, Reconcile(w)
      PROVE  RowInv'
  BY <1>4, RowWritten DEF Reconcile, SeenInv
<1>5. ASSUME NEW w \in Terminals, WriteFails(w)
      PROVE  RowInv'
  <2>1. Written' = Written /\ row' = row /\ payload' = payload
    BY <1>5 DEF WriteFails, InFlight, Written, TypeOK
  <2> QED
    BY <2>1 DEF RowInv
<1>6. ASSUME NEW l \in Lates, LateUpdates(l)
      PROVE  RowInv'
  <2>1. row \in Rows /\ row # NoRow /\ Written' = Written /\ payload' = payload
    BY <1>6, NoRowIsNone DEF LateUpdates, SeenInv, Written
  <2>2. /\ row'.outcome = row.outcome /\ row'.price = row.price /\ row'.status = row.status
        /\ row'.tokens = row.tokens /\ row'.model = row.model /\ row'.provider = row.provider
    BY <1>6, <2>1, LateFields DEF LateUpdates
  <2> QED
    BY <2>1, <2>2 DEF RowInv
<1>7. ASSUME NEW l \in Lates, LateArrives(l) \/ LatePolls(l) \/ LateChecks(l) \/ LateFails(l)
      PROVE  RowInv'
  <2>1. Written' = Written /\ row' = row /\ payload' = payload
    BY <1>7 DEF LateArrives, LatePolls, LateChecks, LateFails, Written
  <2> QED
    BY <2>1 DEF RowInv
<1>8. CASE UNCHANGED vars
  BY <1>8 DEF vars, RowInv, Written
<1> QED
  BY <1>1, <1>2, <1>3, <1>4, <1>5, <1>6, <1>7, <1>8 DEF Next, WriteStep, LateStep

-----------------------------------------------------------------------------
(* What the row costs.                                                      *)

\* A turn's terminal, which counts all its calls, comes behind its seal.
OrderInv ==
    /\ InFlight("seal") => write["answer"] = "idle"
    /\ write["answer"] = "idle" /\ row # NoRow => row.tokens <= 1

LEMMA TokensWritten ==
    ASSUME TypeOK, SeenInv, NEW w \in Terminals, Insert(w) \/ Reconcile(w), row' # row
    PROVE  /\ payload[w] \in Rows /\ row' \in Rows
           /\ \/ row'.tokens = payload[w].tokens
              \/ payload[w].tokens = 0 /\ row # NoRow /\ row'.tokens = row.tokens
<1>1. payload[w] \in Rows
  BY DEF Insert, Reconcile, SeenInv, Delivered
<1>2. CASE Insert(w)
  BY <1>1, <1>2 DEF Insert
<1>3. CASE Reconcile(w)
  <2>1. row \in Rows /\ row # NoRow
    BY <1>3, NoRowIsNone DEF Reconcile, SeenInv
  <2> QED
    BY <1>1, <1>3, <2>1, ReconciledFields DEF Reconcile
<1> QED
  BY <1>2, <1>3

LEMMA OrderStep ==
    ASSUME TypeOK, SeenInv, OrderInv, [Next]_vars
    PROVE  OrderInv'
<1>1. CASE ReserveExecution
  <2>1. row' = row \/ row'.tokens = 0
    BY <1>1 DEF ReserveExecution, Reserved, Pending
  <2> QED
    BY <1>1, <2>1 DEF ReserveExecution, OrderInv, InFlight
<1>2. ASSUME NEW w \in Terminals, Schedule(w)
      PROVE  OrderInv'
  BY <1>2 DEF Schedule, OrderInv, InFlight, TypeOK, Terminals, Tasks
<1>3. ASSUME NEW w \in Terminals, Insert(w) \/ Reconcile(w)
      PROVE  OrderInv'
  <2>1. \A x \in Terminals : InFlight(x)' => InFlight(x)
    BY <1>3 DEF Insert, Reconcile, InFlight, TypeOK
  <2>2. write'["answer"] = "idle" => write["answer"] = "idle" /\ w # "answer"
    BY <1>3 DEF Insert, Reconcile, TypeOK, Terminals, Tasks
  <2>3. write["answer"] = "idle" => write'["answer"] = "idle" \/ w = "answer"
    BY <1>3 DEF Insert, Reconcile, TypeOK, Terminals, Tasks
  <2>4. InFlight(w)
    BY <1>3 DEF Insert, Reconcile, InFlight
  <2>5. InFlight("seal")' => write'["answer"] = "idle"
    <3>1. CASE w = "answer"
      BY <2>1, <2>4, <3>1 DEF OrderInv, InFlight, Terminals
    <3> QED
      BY <2>1, <2>3, <3>1 DEF OrderInv, Terminals
  <2>6. CASE row' = row
    BY <2>2, <2>5, <2>6 DEF OrderInv
  <2>7. CASE row' # row /\ w # "answer"
    <3>1. payload[w].tokens \in {0, 1}
      BY <2>4, <2>7 DEF InFlight, SeenInv, Delivered, Terminals, Tasks
    <3> QED
      BY <1>3, <2>2, <2>5, <2>7, <3>1, TokensWritten DEF OrderInv
  <2> QED
    BY <2>2, <2>5, <2>6, <2>7 DEF OrderInv
<1>4. ASSUME NEW w \in Terminals, WriteFails(w)
      PROVE  OrderInv'
  BY <1>4 DEF WriteFails, InFlight, OrderInv, TypeOK, Terminals, Tasks
<1>5. ASSUME NEW l \in Lates, LateUpdates(l)
      PROVE  OrderInv'
  <2>1. row # NoRow /\ row'.tokens = row.tokens /\ write' = write
    BY <1>5, LateFields, NoRowIsNone DEF LateUpdates, SeenInv
  <2> QED
    BY <2>1 DEF OrderInv, InFlight
<1>6. ASSUME NEW l \in Lates, LateArrives(l) \/ LatePolls(l) \/ LateChecks(l) \/ LateFails(l)
      PROVE  OrderInv'
  BY <1>6 DEF LateArrives, LatePolls, LateChecks, LateFails, OrderInv, InFlight
<1>7. CASE UNCHANGED vars
  BY <1>7 DEF vars, OrderInv, InFlight
<1> QED
  BY <1>1, <1>2, <1>3, <1>4, <1>5, <1>6, <1>7 DEF Next, WriteStep, LateStep

LEMMA ChargeTokens ==
    ASSUME NEW r \in Rows, r.price = 0, NEW p \in 0 .. 2, p <= r.tokens
    PROVE  Charge(r) >= p
<1>1. Charge(r) = r.tokens * HighestRate
  BY DEF Charge
<1>2. r.tokens \in {0, 1, 2} /\ HighestRate \in Nat /\ HighestRate >= 1
  BY RecordAssumption DEF Rows
<1> QED
  BY <1>1, <1>2

LEMMA WithdrawnStep ==
    ASSUME TypeOK, SeenInv, RowInv, OrderInv, [Next]_vars,
           row # NoRow, row.price # 0, row'.price = 0
    PROVE  Charge(row') >= row.price
<1>1. row \in Rows /\ row.price \in 0 .. 2 /\ row.tokens \in 0 .. 2 /\ row.price <= row.tokens
  BY DEF TypeOK, RowInv, Rows
<1>2. PICK w \in Terminals : Reconcile(w)
  <2>1. row' # row
    OBVIOUS
  <2>2. ASSUME NEW l \in Lates, LateUpdates(l) PROVE FALSE
    BY <1>1, <2>2, LateFields DEF LateUpdates
  <2> QED
    BY <2>1, <2>2 DEF Next, WriteStep, LateStep, vars, ReserveExecution, Reserved, Schedule,
          Insert, WriteFails, LateArrives, LatePolls, LateChecks, LateFails
<1>3. /\ payload[w] \in Rows /\ row' \in Rows
      /\ row'.tokens = IF payload[w].tokens = 0 THEN row.tokens ELSE payload[w].tokens
  BY <1>1, <1>2, ReconciledFields DEF Reconcile, SeenInv, Delivered
<1>4. payload[w] \in Delivered(w) /\ InFlight(w)
  BY <1>2 DEF Reconcile, SeenInv, InFlight
<1>5. row.price <= row'.tokens
  <2>1. CASE w = "seal"
    <3>1. row.tokens <= 1 /\ payload[w].tokens = 1
      BY <1>4, <2>1 DEF OrderInv, Delivered
    <3> QED
      BY <1>1, <1>3, <3>1
  <2>2. CASE w # "seal"
    <3>1. payload[w].tokens \in {0, 2}
      BY <1>4, <2>2 DEF Delivered, Terminals, Tasks
    <3>2. CASE payload[w].tokens = 0
      BY <1>1, <1>3, <3>2
    <3>3. CASE payload[w].tokens = 2
      BY <1>1, <1>3, <3>3
    <3> QED
      BY <3>1, <3>2, <3>3
  <2> QED
    BY <2>1, <2>2
<1> QED
  BY <1>1, <1>3, <1>5, ChargeTokens
-----------------------------------------------------------------------------
(* What a sealed answer recorded.                                           *)

LEMMA SealedTerminals == Terminals = {"seal", "answer", "timeout"} /\ "seal" \notin Tasks
BY DEF Terminals, Tasks

\* A step that moves no terminal write and leaves the column.
LEMMA SealQuiet ==
    ASSUME SealInv, UNCHANGED <<write, existing>>, row = NoRow <=> row' = NoRow,
           row # NoRow => row'.mode = row.mode
    PROVE  SealInv'
BY DEF SealInv, Unset, InFlight

LEMMA ReservationSealed ==
    ASSUME TypeOK, SeenInv, SealInv, ReserveExecution
    PROVE  SealInv'
<1>1. UNCHANGED <<write, existing>>
  BY DEF ReserveExecution
<1>2. CASE row = NoRow
  <2>1. row' # NoRow /\ row'.mode = "none"
    BY <1>2, NoRowIsNone DEF ReserveExecution, Reserved, Pending, NoRow
  <2>2. write["seal"] # "done"
    BY <1>2 DEF SealInv
  <2> QED
    BY <1>1, <2>1, <2>2 DEF SealInv, Unset, InFlight
<1>3. CASE row # NoRow
  BY <1>1, <1>3, SealQuiet DEF ReserveExecution, Reserved
<1> QED
  BY <1>2, <1>3

LEMMA ScheduleSealed ==
    ASSUME TypeOK, SealInv, NEW w \in Terminals, Schedule(w)
    PROVE  SealInv'
<1>1. /\ write' = [write EXCEPT ![w] = "task"] /\ write[w] = "idle" /\ ~InFlight("seal")
      /\ UNCHANGED <<row, existing>>
      /\ w = "seal" => write["answer"] = "idle" /\ write["timeout"] = "idle"
  BY DEF Schedule
<1>2. w \in DOMAIN write /\ "seal" \in DOMAIN write /\ \A x \in Tasks : x \in DOMAIN write
  BY SealedTerminals DEF TypeOK, Tasks
<1>3. CASE w = "seal"
  <2>1. /\ write'["seal"] = "task"
        /\ \A x \in Tasks : write'[x] = write[x] /\ write[x] = "idle"
    BY <1>1, <1>2, <1>3 DEF Tasks
  <2>2. Unset
    BY <1>1, <1>3, <2>1 DEF SealInv
  <2> QED
    BY <1>1, <2>1, <2>2 DEF SealInv, Unset, InFlight
<1>4. CASE w # "seal"
  <2>1. w \in Tasks /\ write'[w] = "task" /\ write'["seal"] = write["seal"]
        /\ \A x \in Tasks : write'[x] = "read" => write[x] = "read"
    BY <1>1, <1>2, <1>4 DEF Terminals
  <2> QED
    BY <1>1, <2>1 DEF SealInv, Unset, InFlight
<1> QED
  BY <1>3, <1>4

\* The seal's own transaction: it writes the column that nobody has.
LEMMA SealWrites ==
    ASSUME TypeOK, SeenInv, SealInv, Insert("seal") \/ Reconcile("seal")
    PROVE  SealInv'
<1>1. InFlight("seal") /\ write["seal"] # "done" /\ "seal" \in Terminals
  BY SealedTerminals DEF Insert, Reconcile, InFlight
<1>2. \A x \in Tasks : write[x] = "idle" /\ write'[x] = "idle"
  BY <1>1 DEF SealInv, Insert, Reconcile, TypeOK, Tasks, Terminals
<1>3. payload["seal"] \in Rows /\ payload["seal"].mode = "seal" /\ Unset
  BY <1>1, <1>2 DEF SeenInv, Delivered, InFlight, SealInv
<1>4. CASE row' # row
  <2>1. write'["seal"] = "done"
    BY <1>1, <1>4 DEF Insert, Reconcile, TypeOK
  <2>2. row' \in Rows /\ row'.mode = "seal"
    <3>1. CASE Insert("seal")
      BY <1>3, <1>4, <3>1 DEF Insert
    <3>2. CASE Reconcile("seal")
      <4>1. row \in Rows /\ existing["seal"].mode = "none"
        BY <1>1, <3>2 DEF Reconcile, SeenInv, SealInv
      <4> QED
        BY <1>3, <3>2, <4>1, ReconciledFields DEF Reconcile
    <3> QED
      BY <3>1, <3>2
  <2> QED
    BY <1>2, <2>1, <2>2, NoRowIsNone DEF SealInv, InFlight
<1>5. CASE row' = row /\ Insert("seal")
  <2>1. row # NoRow /\ existing'["seal"] = row /\ write'["seal"] = "read"
    BY <1>1, <1>3, <1>5, NoRowIsNone DEF Insert, TypeOK
  <2> QED
    BY <1>2, <1>3, <1>5, <2>1 DEF SealInv, Unset, InFlight
<1>6. CASE row' = row /\ Reconcile("seal")
  <2>1. row \in Rows /\ existing["seal"].mode = "none"
    BY <1>1, <1>6 DEF Reconcile, SeenInv, SealInv
  <2>2. row.mode = "seal"
    BY <1>3, <1>6, <2>1, ReconciledFields DEF Reconcile
  <2>3. row.mode = "none"
    BY <1>3, <2>1, NoRowIsNone DEF Unset
  <2> QED
    BY <2>2, <2>3
<1> QED
  BY <1>4, <1>5, <1>6

\* A task's transaction: behind a seal it reads a column that is taken.
LEMMA TaskWrites ==
    ASSUME TypeOK, SeenInv, SealInv, NEW w \in Tasks, Insert(w) \/ Reconcile(w)
    PROVE  SealInv'
<1>1. InFlight(w) /\ write[w] # "idle" /\ write'[w] \in {"read", "done"}
      /\ w \in Terminals /\ w # "seal" /\ "seal" \in Terminals
  BY DEF Insert, Reconcile, InFlight, TypeOK, Tasks, Terminals
<1>2. /\ \A x \in Terminals \ {w} : write'[x] = write[x] /\ existing'[x] = existing[x]
      /\ write'["seal"] = write["seal"] /\ existing'["seal"] = existing["seal"]
  BY <1>1 DEF Insert, Reconcile, TypeOK
<1>3. ~InFlight("seal")
  BY <1>1 DEF SealInv
<1>4. write["seal"] # "done" => SealInv'
  BY <1>1, <1>2, <1>3 DEF SealInv, InFlight
<1>5. ASSUME write["seal"] = "done" PROVE SealInv'
  <2>1. row # NoRow /\ row \in Rows /\ row.mode = "seal"
    BY <1>1, <1>5 DEF SealInv, SeenInv
  <2>2. CASE Insert(w)
    <3>1. row' = row /\ existing'[w] = row
      BY <1>1, <2>1, <2>2 DEF Insert, TypeOK
    <3>2. \A x \in Tasks : write'[x] = "read" => existing'[x].mode = "seal"
      BY <1>2, <1>5, <2>1, <3>1, SealedTerminals DEF SealInv, Terminals
    <3> QED
      BY <1>2, <1>3, <1>5, <2>1, <3>1, <3>2 DEF SealInv, InFlight
  <2>3. CASE Reconcile(w)
    <3>1. existing[w].mode = "seal" /\ payload[w] \in Rows /\ write'[w] = "done"
      BY <1>1, <1>5, <2>3 DEF Reconcile, SealInv, SeenInv, Delivered, TypeOK
    <3>2. row' \in Rows /\ row'.mode = "seal"
      BY <2>1, <2>3, <3>1, ReconciledFields DEF Reconcile
    <3>3. \A x \in Tasks : write'[x] = "read" => existing'[x].mode = "seal"
      BY <1>2, <1>5, <3>1 DEF SealInv, Terminals
    <3> QED
      BY <1>2, <1>3, <1>5, <3>2, <3>3, NoRowIsNone DEF SealInv, InFlight
  <2> QED
    BY <2>2, <2>3
<1> QED
  BY <1>4, <1>5

LEMMA FailureSealed ==
    ASSUME TypeOK, SealInv, NEW w \in Terminals, WriteFails(w)
    PROVE  SealInv'
<1>1. /\ InFlight(w) /\ row' = row /\ write'[w] = "failed" /\ write[w] # "idle"
      /\ write[w] # "done"
      /\ \A x \in Terminals \ {w} : write'[x] = write[x] /\ existing'[x] = existing[x]
  BY DEF WriteFails, InFlight, TypeOK
<1>2. CASE w = "seal"
  BY <1>1, <1>2, SealedTerminals DEF SealInv, Unset, InFlight, Terminals
<1>3. CASE w # "seal"
  <2>1. w \in Tasks /\ "seal" \in Terminals \ {w}
    BY <1>3 DEF Terminals
  <2> QED
    BY <1>1, <2>1 DEF SealInv, InFlight, Terminals
<1> QED
  BY <1>2, <1>3

LEMMA SealStep ==
    ASSUME TypeOK, SeenInv, SealInv, [Next]_vars
    PROVE  SealInv'
<1>1. ASSUME NEW w \in Terminals, WriteStep(w)
      PROVE  SealInv'
  <2>1. w = "seal" \/ w \in Tasks
    BY DEF Terminals
  <2> QED
    BY <1>1, <2>1, ScheduleSealed, SealWrites, TaskWrites, FailureSealed DEF WriteStep
<1>2. ASSUME NEW l \in Lates, LateUpdates(l)
      PROVE  SealInv'
  <2>1. row \in Rows /\ row' \in Rows /\ row'.mode = row.mode
    BY <1>2, LateFields DEF LateUpdates, SeenInv
  <2> QED
    BY <1>2, <2>1, SealQuiet, NoRowIsNone DEF LateUpdates
<1>3. ASSUME NEW l \in Lates, LateArrives(l) \/ LatePolls(l) \/ LateChecks(l) \/ LateFails(l)
      PROVE  SealInv'
  <2>1. UNCHANGED <<row, write, existing>>
    BY <1>3 DEF LateArrives, LatePolls, LateChecks, LateFails
  <2> QED
    BY <2>1, SealQuiet
<1>4. CASE UNCHANGED vars
  BY <1>4, SealQuiet DEF vars
<1> QED
  BY <1>1, <1>2, <1>3, <1>4, ReservationSealed DEF Next, LateStep
-----------------------------------------------------------------------------
(* Late writes behind the tasks that were scheduled before them.            *)

FollowInv ==
    /\ \A l \in Lates : late[l] # "idle" => \A w \in ahead[l] : write[w] # "idle"
    /\ \A l \in Local : late[l] = "polling" => {w \in ahead[l] : InFlight(w)} \subseteq pending[l]
    /\ \A l \in Local : late[l] \in {"found", "committed", "stored", "missed"} =>
                          \A w \in ahead[l] : ~InFlight(w)
    /\ \A l \in Local : late[l] = "missed" => \A w \in ahead[l] : write[w] = "failed"
    /\ \A l \in Local \cap Timings :
          late[l] \in {"committed", "stored"} => row.latency \notin ahead[l]

LEMMA LocalLates == Local \subseteq Lates /\ Tasks \subseteq Terminals
BY RecordAssumption DEF Lates, Tasks, Terminals

\* A terminal's own progress: it leaves the idle state only when it is
\* scheduled, and what is over stays as it ended.
LEMMA FollowWrites ==
    ASSUME TypeOK, SeenInv, FollowInv, NEW w \in Terminals, WriteStep(w)
    PROVE  FollowInv'
<1>1. UNCHANGED <<late, pending, ahead>>
  BY DEF WriteStep, Schedule, Insert, Reconcile, WriteFails
<1>2. \A x \in Terminals \ {w} : write'[x] = write[x]
  BY DEF WriteStep, Schedule, Insert, Reconcile, WriteFails, TypeOK
<1>3. write'[w] # "idle" /\ (write[w] = "idle" \/ InFlight(w))
  BY DEF WriteStep, Schedule, Insert, Reconcile, WriteFails, InFlight, TypeOK
<1>4. \A l \in Lates : ahead[l] \subseteq Terminals
  BY LocalLates DEF TypeOK
<1>5. \A l \in Lates : late[l] # "idle" => \A x \in ahead[l] : write'[x] # "idle"
  BY <1>2, <1>3, <1>4 DEF FollowInv
<1>6. \A l \in Lates : late[l] # "idle" => \A x \in ahead[l] : InFlight(x)' => InFlight(x)
  BY <1>2, <1>3, <1>4 DEF FollowInv, InFlight
<1>7. \A l \in Local : late[l] = "polling" => {x \in ahead[l] : InFlight(x)'} \subseteq pending[l]
  BY <1>6, LocalLates DEF FollowInv
<1>8. \A l \in Local : late[l] \in {"found", "committed", "stored", "missed"} =>
                         w \notin ahead[l] /\ \A x \in ahead[l] : ~InFlight(x)'
  BY <1>3, <1>6, LocalLates DEF FollowInv
<1>9. \A l \in Local : late[l] = "missed" => \A x \in ahead[l] : write'[x] = "failed"
  BY <1>2, <1>4, <1>8, LocalLates DEF FollowInv
<1>10. \A l \in Local \cap Timings :
         late[l] \in {"committed", "stored"} => row'.latency \notin ahead[l]
  <2>1. CASE row' = row
    BY <2>1 DEF FollowInv
  <2>2. CASE row' # row
    <3>1. row'.latency = w
      <4>1. write[w] \in {"task", "read"} /\ (Insert(w) \/ Reconcile(w))
        BY <2>2 DEF WriteStep, Schedule, Insert, Reconcile, WriteFails
      <4>2. payload[w] \in Delivered(w) /\ payload[w] \in Rows
        BY <4>1 DEF SeenInv, Delivered
      <4>3. CASE Insert(w)
        BY <2>2, <4>2, <4>3 DEF Insert, Delivered
      <4>4. CASE Reconcile(w)
        <5>1. row \in Rows
          BY <4>4 DEF Reconcile, SeenInv
        <5> QED
          BY <4>2, <4>4, <5>1, ReconciledFields DEF Reconcile, Delivered
      <4> QED
        BY <4>1, <4>3, <4>4
    <3> QED
      BY <1>8, <3>1
  <2> QED
    BY <2>1, <2>2
<1> QED
  BY <1>1, <1>5, <1>7, <1>8, <1>9, <1>10 DEF FollowInv

LEMMA FollowLates ==
    ASSUME TypeOK, SeenInv, FollowInv, NEW l \in Lates, LateStep(l)
    PROVE  FollowInv'
<1>0. write' = write /\ \A x : InFlight(x)' = InFlight(x)
  BY DEF LateStep, LateArrives, LatePolls, LateUpdates, LateChecks, LateFails, InFlight
<1>1. CASE LateArrives(l)
  BY <1>0, <1>1, LocalLates DEF LateArrives, Gathered, FollowInv, TypeOK, InFlight
<1>2. CASE LatePolls(l)
  <2>1. UNCHANGED <<row, ahead>> /\ late[l] = "polling" /\ \A w \in pending[l] : ~InFlight(w)
    BY <1>2 DEF LatePolls
  <2>2. l \in Local => \A w \in ahead[l] : ~InFlight(w)
    BY <2>1 DEF FollowInv
  <2>3. \A w \in ahead[l] : write[w] # "idle" /\ w \in Tasks /\ w \in Terminals
    BY <2>1, LocalLates DEF FollowInv, TypeOK
  <2>4. CASE row # NoRow
    BY <1>0, <1>2, <2>1, <2>2, <2>4, LocalLates DEF LatePolls, FollowInv, TypeOK
  <2>5. CASE row = NoRow
    <3>1. \A w \in Terminals : write[w] # "done"
      BY <2>5, NoRowIsNone DEF SeenInv
    <3>2. l \in Local => \A w \in ahead[l] : write[w] = "failed"
      BY <2>2, <2>3, <3>1 DEF InFlight, TypeOK
    <3>3. late' = [late EXCEPT ![l] = late'[l]] /\ late'[l] \in {"polling", "missed"}
      BY <1>2, <2>5 DEF LatePolls, TypeOK
    <3>4. pending' = [pending EXCEPT ![l] = Gathered(l)]
      BY <1>2, <2>5 DEF LatePolls
    <3>5. l \in Local => {w \in ahead[l] : InFlight(w)} \subseteq Gathered(l)
      BY <2>3 DEF Gathered
    <3> QED
      BY <1>0, <2>1, <2>2, <2>3, <3>2, <3>3, <3>4, <3>5, LocalLates DEF FollowInv, TypeOK
  <2> QED
    BY <2>4, <2>5
<1>3. CASE LateUpdates(l)
  <2>1. row'.latency = IF l \in Timings THEN l ELSE row.latency
    BY <1>3, LateFields DEF LateUpdates, SeenInv
  <2>2. l \notin Tasks
    BY RecordAssumption DEF Lates, Tasks
  <2>3. \A x \in Lates : ahead[x] \subseteq Tasks
    BY DEF TypeOK
  <2>4. \A x \in Local \cap Timings :
          late'[x] \in {"committed", "stored"} => row'.latency \notin ahead[x]
    <3>1. CASE l \in Timings
      BY <2>1, <2>2, <2>3, <3>1, LocalLates
    <3>2. CASE l \notin Timings
      BY <1>3, <2>1, <3>2, LocalLates DEF LateUpdates, FollowInv, TypeOK
    <3> QED
      BY <3>1, <3>2
  <2> QED
    BY <1>0, <1>3, <2>4, LocalLates DEF LateUpdates, FollowInv, TypeOK
<1>4. CASE LateChecks(l)
  <2>1. late' = [late EXCEPT ![l] = late'[l]] /\ late'[l] \in {"stored", "failed"}
        /\ late[l] = "committed" /\ UNCHANGED <<row, pending, ahead>>
    BY <1>4 DEF LateChecks, TypeOK
  <2> QED
    BY <1>0, <2>1, LocalLates DEF FollowInv, TypeOK
<1>5. CASE LateFails(l)
  BY <1>0, <1>5, LocalLates DEF LateFails, FollowInv, TypeOK
<1> QED
  BY <1>1, <1>2, <1>3, <1>4, <1>5 DEF LateStep

LEMMA FollowStep ==
    ASSUME TypeOK, SeenInv, FollowInv, [Next]_vars
    PROVE  FollowInv'
<1>1. CASE ReserveExecution
  <2>1. row # NoRow => row' = row
    BY <1>1 DEF ReserveExecution, Reserved
  <2>2. \A l \in Local \cap Timings :
          late[l] \in {"committed", "stored"} => row' = row
    BY <2>1, LocalLates, NoRowIsNone DEF SeenInv
  <2> QED
    BY <1>1, <2>2 DEF ReserveExecution, FollowInv, InFlight
<1>2. CASE UNCHANGED vars
  BY <1>2 DEF vars, FollowInv, InFlight
<1> QED
  BY <1>1, <1>2, FollowWrites, FollowLates DEF Next
-----------------------------------------------------------------------------
(* The theorems.                                                            *)

IInv == TypeOK /\ SeenInv /\ RowInv /\ OrderInv /\ SealInv /\ FollowInv

LEMMA Inductive == Spec => []IInv
<1>1. Init => IInv
  <2> SUFFICES ASSUME Init PROVE IInv
    OBVIOUS
  <2>1. TypeOK /\ SeenInv
    BY DEF Init, TypeOK, SeenInv, InFlight
  <2>2. RowInv /\ OrderInv /\ FollowInv
    BY LocalLates DEF Init, RowInv, OrderInv, FollowInv, InFlight, Terminals
  <2>3. SealInv
    BY DEF Init, SealInv, Unset, InFlight, Terminals
  <2> QED
    BY <2>1, <2>2, <2>3 DEF IInv
<1>2. IInv /\ [Next]_vars => IInv'
  BY TypeStep, RowStep, OrderStep, SealStep, FollowStep DEF IInv
<1> QED
  BY <1>1, <1>2, PTL DEF Spec

\* Rows, deliveries and late writes have their types, whatever comes late.
THEOREM TypeCorrect == Spec => []TypeOK
<1>1. IInv => TypeOK
  BY DEF IInv
<1> QED
  BY <1>1, Inductive, PTL

\* insert and _reconcilable_values: the row shows a terminal that was written.
THEOREM SettledSafe == Spec => []Settled
<1>1. IInv => Settled
  <2> SUFFICES ASSUME IInv, Written # {} PROVE Settled
    BY DEF Settled
  <2>1. row # NoRow
    BY NoRowIsNone DEF IInv, SeenInv, Written
  <2> QED
    BY <2>1 DEF IInv, RowInv, Settled
<1> QED
  BY <1>1, Inductive, PTL

\* _reconcilable_values: a price is never paired with "unknown".
THEOREM PriceSafe == Spec => []PriceJudged
<1>1. IInv => PriceJudged
  BY DEF IInv, RowInv, PriceJudged
<1> QED
  BY <1>1, Inductive, PTL

\* AccountBudgetGate.admit charges a turn whose price was withdrawn at least it.
THEOREM WithdrawnSafe == Spec => WithdrawnStillCharged
<1>1. IInv /\ [Next]_vars =>
        [row # NoRow /\ row.price # 0 /\ row'.price = 0 => Charge(row') >= row.price]_vars
  BY WithdrawnStep DEF IInv
<1> QED
  BY <1>1, Inductive, PTL DEF Spec, WithdrawnStillCharged

\* stage_answered_write awaits the seal before the turn schedules another write:
\* whatever comes behind it, the row keeps the context mode the seal recorded.
THEOREM SealSafe == Spec => []SealKept
<1>1. IInv => SealKept
  BY DEF IInv, SealInv, SealKept
<1> QED
  BY <1>1, Inductive, PTL

\* await_pending_writes: a late write on the turn's worker follows its tasks.
THEOREM FollowSafe == Spec => []LateFollowsTasks
<1>1. IInv => LateFollowsTasks
  <2> SUFFICES ASSUME IInv, NEW l \in Local
               PROVE  /\ late[l] = "missed" => ahead[l] \cap Written = {}
                      /\ late[l] = "stored" /\ l \in Timings => row.latency \notin ahead[l]
    BY DEF LateFollowsTasks
  <2> QED
    BY DEF IInv, FollowInv, Written
<1> QED
  BY <1>1, Inductive, PTL
=============================================================================
