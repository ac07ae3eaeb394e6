----------------------- MODULE Recommendations_proofs -----------------------
(***************************************************************************)
(* Proofs about Recommendations, for any users, requests, products, runs,  *)
(* forecasts and stock levels: types, what a recommendation says, what was *)
(* decided about it, that generations never mix, that the dashboard shows  *)
(* the latest activity, and that the screens of Screens agree.             *)
(***************************************************************************)
EXTENDS Screens, ListLemmas

Actions == {"reorder_now", "monitor", "overstock_review", "no_reorder_needed"}
Labels == {"idle", "read", "write", "update"}

Rows == [run : Runs, product : Products, predicted_demand : Nat, current_stock : Nat,
         required_stock : Nat, reorder_quantity : Nat, risk_level : RiskLevels,
         recommended_action : Actions, status : RecommendationStatuses,
         acknowledged : BOOLEAN, dismissed : BOOLEAN, generated : Nat, id : Nat,
         raced : BOOLEAN]

Sessions == [run : Runs \cup {None}, existing : BOOLEAN, refresh : BOOLEAN,
             rows : SUBSET Rows, seen : Rows \cup {None},
             target : RecommendationStatuses \cup {None}]

\* What ActionMatchesQuantity and DecisionsStand say of one row
Advice(r) ==
    /\ r.reorder_quantity > 0 <=> r.recommended_action \in {"reorder_now", "monitor"}
    /\ r.current_stock + r.reorder_quantity >= r.required_stock
    /\ r.reorder_quantity > 0 => r.current_stock + r.reorder_quantity = r.required_stock
    /\ r.recommended_action = "reorder_now" <=> r.current_stock < r.predicted_demand

Story(r) ==
    /\ r.status = "dismissed" <=> r.dismissed
    /\ r.status = "acknowledged" => r.acknowledged
    /\ r.status = "open" => ~r.acknowledged

RowOK(r) ==
    /\ Owner[r.run] = Owner[r.product]
    /\ r.id \in 1 .. clock /\ r.generated < r.id
    /\ Advice(r)
    /\ ~r.raced => Story(r)

\* The rows of one generation, before they are inserted
Drafts(run, rows) ==
    /\ {r.product : r \in rows} = Forecasted(run)
    /\ \A r \in rows : /\ r.run = run /\ Owner[run] = Owner[r.product]
                       /\ r.generated \in 0 .. clock
                       /\ Advice(r) /\ Story(r)
    /\ \A r, s \in rows : /\ r.generated = s.generated
                          /\ r.product = s.product => r = s

\* A recommendation is for all that its run predicts of the product.
OfForecast(r) == r.predicted_demand = DemandOf(Forecasts[r.run], r.product)

\* A decision that was once recorded, and a race, stay in the row.
DecidedSince(r, seen) ==
    /\ seen.acknowledged => r.acknowledged
    /\ seen.dismissed => r.dismissed
    /\ seen.raced => r.raced

\* What a request knows when it takes its next step
Generating(c) ==
    /\ req[c].run \in Runs /\ runs[req[c].run].status = "completed"
    /\ Forecasted(req[c].run) # {}
    /\ MayGenerate(req[c].existing, req[c].refresh)

Updating(c) ==
    /\ req[c].seen \in Rows /\ req[c].seen.id <= clock
    /\ ~req[c].seen.raced => Story(req[c].seen)
    /\ req[c].target \in RecommendationStatuses
    /\ ValidTransition(req[c].seen.status, req[c].target)
    /\ \A r \in recs : SameRow(r, req[c].seen) => DecidedSince(r, req[c].seen)

SessionOK(c) ==
    /\ pc[c] \in {"read", "write"} => Generating(c)
    /\ pc[c] = "write" => Drafts(req[c].run, req[c].rows)
    /\ pc[c] = "update" => Updating(c)

WorldOK ==
    /\ clock \in Nat
    /\ runs \in [Runs -> [status : {"pending", "completed", "failed"}, updated : Nat]]
    /\ items \in [Products -> Levels \cup {None}]
    /\ \A m \in movements : m.product \in Products /\ m.at \in 1 .. clock

IInv ==
    /\ WorldOK
    /\ pc \in [Clients -> Labels] /\ req \in [Clients -> Sessions]
    /\ recs \subseteq Rows /\ \A r \in recs : RowOK(r)
    /\ OneGeneration
    /\ \A c \in Clients : SessionOK(c)

-----------------------------------------------------------------------------
(* Records: what the constructors and updates of rows and sessions leave   *)

LEMMA NoRequestType == NoRequest \in Sessions
  BY DEF NoRequest, Sessions

\* A session that starts to generate, and one that has loaded a row to decide about.
GenerateRequest(run, refresh, existing) ==
    [NoRequest EXCEPT !.run = run, !.refresh = refresh, !.existing = existing]

UpdateRequest(row, target) == [NoRequest EXCEPT !.seen = row, !.target = target]

LEMMA GenerateSession ==
    ASSUME NEW run \in Runs, NEW refresh \in BOOLEAN, NEW existing \in BOOLEAN
    PROVE  /\ GenerateRequest(run, refresh, existing) \in Sessions
           /\ GenerateRequest(run, refresh, existing).run = run
           /\ GenerateRequest(run, refresh, existing).refresh = refresh
           /\ GenerateRequest(run, refresh, existing).existing = existing
  BY Zenon DEF GenerateRequest, NoRequest, Sessions

LEMMA UpdateSession ==
    ASSUME NEW row \in Rows, NEW target \in RecommendationStatuses
    PROVE  /\ UpdateRequest(row, target) \in Sessions
           /\ UpdateRequest(row, target).seen = row
           /\ UpdateRequest(row, target).target = target
  BY Zenon DEF UpdateRequest, NoRequest, Sessions

\* A session that has computed its rows.
LEMMA DraftSession ==
    ASSUME NEW r \in Sessions, NEW rows \in SUBSET Rows, NEW s, s = [r EXCEPT !.rows = rows]
    PROVE  /\ s \in Sessions /\ s.rows = rows
           /\ s.run = r.run /\ s.refresh = r.refresh /\ s.existing = r.existing
  BY Zenon DEF Sessions

\* Inserting gives a row its id and changes nothing else.
LEMMA InsertedRow ==
    ASSUME NEW r \in Rows, NEW i \in Nat, NEW s, s = [r EXCEPT !.id = i]
    PROVE  /\ s \in Rows /\ s.id = i
           /\ s.run = r.run /\ s.product = r.product /\ s.generated = r.generated
           /\ s.predicted_demand = r.predicted_demand /\ s.current_stock = r.current_stock
           /\ s.required_stock = r.required_stock /\ s.reorder_quantity = r.reorder_quantity
           /\ s.recommended_action = r.recommended_action
           /\ s.status = r.status /\ s.acknowledged = r.acknowledged
           /\ s.dismissed = r.dismissed /\ s.raced = r.raced
  BY Zenon DEF Rows

\* Row s is row r after a decision: status and marks are new, what is recommended is not.
DecidedFrom(s, r, seen, target) ==
    /\ s \in Rows
    /\ s.id = r.id /\ s.run = r.run /\ s.product = r.product /\ s.generated = r.generated
    /\ s.predicted_demand = r.predicted_demand /\ s.current_stock = r.current_stock
    /\ s.required_stock = r.required_stock /\ s.reorder_quantity = r.reorder_quantity
    /\ s.recommended_action = r.recommended_action
    /\ s.status = (IF target # seen.status THEN target ELSE r.status)
    /\ s.acknowledged = (r.acknowledged \/ (target = "acknowledged" /\ ~seen.acknowledged))
    /\ s.dismissed = (r.dismissed \/ (target = "dismissed" /\ ~seen.dismissed))
    /\ s.raced = (r.raced \/ r.status # seen.status)

LEMMA DecidedRow ==
    ASSUME NEW r \in Rows, NEW seen \in Rows, NEW target \in RecommendationStatuses,
           NEW s, s = Decided(r, seen, target)
    PROVE  DecidedFrom(s, r, seen, target)
  <1> DEFINE st == IF target # seen.status THEN target ELSE r.status
             ack == r.acknowledged \/ (target = "acknowledged" /\ ~seen.acknowledged)
             dis == r.dismissed \/ (target = "dismissed" /\ ~seen.dismissed)
             rac == r.raced \/ r.status # seen.status
  <1>1. st \in RecommendationStatuses
    BY DEF Rows
  <1>2. ack \in BOOLEAN /\ dis \in BOOLEAN /\ rac \in BOOLEAN
    BY Zenon
  <1>3. s = [r EXCEPT !.status = st, !.acknowledged = ack, !.dismissed = dis, !.raced = rac]
    BY Zenon DEF Decided, Rows
  <1> HIDE DEF st, ack, dis, rac
  <1>4. /\ s \in Rows
        /\ s.id = r.id /\ s.run = r.run /\ s.product = r.product /\ s.generated = r.generated
        /\ s.predicted_demand = r.predicted_demand /\ s.current_stock = r.current_stock
        /\ s.required_stock = r.required_stock /\ s.reorder_quantity = r.reorder_quantity
        /\ s.recommended_action = r.recommended_action
        /\ s.status = st /\ s.acknowledged = ack /\ s.dismissed = dis /\ s.raced = rac
    BY <1>1, <1>2, <1>3, Zenon DEF Rows
  <1>5. QED
    BY <1>4, Zenon DEF DecidedFrom, st, ack, dis, rac

\* The arithmetic of a recommendation says the same as the action it names.
LEMMA NewRowAdvice ==
    ASSUME WorldOK, NEW run \in Runs, NEW p \in Products, NEW level \in Levels,
           PredictedDemand(run, p) \in Nat, NEW s, s = NewRow(run, p, level)
    PROVE  /\ s \in Rows /\ s.run = run /\ s.product = p /\ s.generated = clock
           /\ s.predicted_demand = PredictedDemand(run, p)
           /\ Advice(s) /\ Story(s)
  <1> DEFINE demand == PredictedDemand(run, p)
             required == RequiredStock(demand, level.safety)
             reorder == ReorderQuantity(StockGap(required, level.current))
             risk == RiskLevel(demand, level.current, required, reorder)
             action == RecommendedAction(risk)
  <1>1. demand \in Nat /\ level.current \in Nat /\ level.safety \in Nat /\ clock \in Nat
    BY RecommendationsAssumption DEF WorldOK
  <1>2. s = [run |-> run, product |-> p, predicted_demand |-> demand,
             current_stock |-> level.current, required_stock |-> required,
             reorder_quantity |-> reorder, risk_level |-> risk,
             recommended_action |-> action, status |-> "open",
             acknowledged |-> FALSE, dismissed |-> FALSE, generated |-> clock,
             id |-> 0, raced |-> FALSE]
    BY Zenon DEF NewRow
  <1>3. required \in Nat /\ required = demand + level.safety
    BY <1>1 DEF RequiredStock
  <1> HIDE DEF demand, required
  <1>4. /\ reorder \in Nat
        /\ reorder > 0 <=> level.current < required
        /\ reorder > 0 => level.current + reorder = required
    BY <1>1, <1>3 DEF ReorderQuantity, StockGap
  <1> HIDE DEF reorder
  <1>5. /\ risk \in RiskLevels
        /\ risk \in {"critical", "high"} <=> level.current < demand
        /\ risk = "medium" <=> reorder > 0 /\ level.current >= demand
    BY <1>1, <1>3, <1>4 DEF RiskLevel, RiskLevels
  <1> HIDE DEF risk
  <1>6. /\ action \in Actions
        /\ action = "reorder_now" <=> risk \in {"critical", "high"}
        /\ action = "monitor" <=> risk = "medium"
    BY <1>5 DEF RecommendedAction, RiskLevels, Actions
  <1> HIDE DEF action
  <1>7. /\ s \in Rows /\ s.run = run /\ s.product = p /\ s.generated = clock
        /\ s.predicted_demand = demand /\ s.current_stock = level.current
        /\ s.required_stock = required /\ s.reorder_quantity = reorder
        /\ s.recommended_action = action /\ s.status = "open"
        /\ s.acknowledged = FALSE /\ s.dismissed = FALSE
    BY <1>1, <1>2, <1>3, <1>4, <1>5, <1>6 DEF Rows, RecommendationStatuses
  <1>8. Advice(s)
    BY <1>1, <1>3, <1>4, <1>5, <1>6, <1>7 DEF Advice
  <1>9. Story(s)
    BY <1>7 DEF Story
  <1>10. QED
    BY <1>7, <1>8, <1>9 DEF demand

-----------------------------------------------------------------------------
(* Steps *)

LEMMA DemandIsNatural ==
    ASSUME NEW run \in Runs, NEW p
    PROVE  DemandOf(Forecasts[run], p) \in Nat
  <1>1. PICK S : S = {x \in Forecasts[run] : x.product = p}
    OBVIOUS
  <1>2. PICK d : d = [f \in S |-> f.demand]
    OBVIOUS
  <1>3. IsFiniteSet(S) /\ \A x \in S : d[x] \in Nat
    BY <1>1, <1>2, RecommendationsAssumption, FS_Subset
  <1>4. DOMAIN d = S /\ SumFunctionOnSet(d, S) \in Nat
    BY <1>2, <1>3, SumNatural
  <1>5. QED
    BY <1>1, <1>2, <1>4, Zenon DEF DemandOf, SumFunction

LEMMA InitIInv == Init => IInv
  <1> SUFFICES ASSUME Init PROVE IInv
    OBVIOUS
  <1>1. WorldOK
    BY RecommendationsAssumption DEF Init, WorldOK
  <1>2. pc \in [Clients -> Labels] /\ req \in [Clients -> Sessions]
    BY NoRequestType DEF Init, Labels
  <1>3. recs = {} /\ \A c \in Clients : pc[c] = "idle"
    BY DEF Init
  <1>4. OneGeneration
    BY <1>3 DEF OneGeneration, OfRun
  <1>5. \A c \in Clients : SessionOK(c)
    BY <1>3 DEF SessionOK
  <1>6. QED
    BY <1>1, <1>2, <1>3, <1>4, <1>5 DEF IInv

\* What a step does to control, in the terms of the invariant.
LEMMA OtherSessions ==
    ASSUME IInv, NEW c \in Clients, NEW label \in Labels, NEW s \in Sessions, Goto(c, label, s)
    PROVE  /\ pc' \in [Clients -> Labels] /\ pc'[c] = label
           /\ req' \in [Clients -> Sessions] /\ req'[c] = s
           /\ \A d \in Clients \ {c} : pc'[d] = pc[d] /\ req'[d] = req[d]
  BY DEF IInv, Goto

LEMMA DoneSessions ==
    ASSUME IInv, NEW c \in Clients, Done(c)
    PROVE  /\ pc' \in [Clients -> Labels] /\ pc'[c] = "idle"
           /\ req' \in [Clients -> Sessions]
           /\ \A d \in Clients \ {c} : pc'[d] = pc[d] /\ req'[d] = req[d]
  BY OtherSessions, NoRequestType DEF Done, Labels

\* Time goes on, and a completed run stays completed.
WorldStays ==
    /\ WorldOK' /\ clock' >= clock
    /\ \A run \in Runs : runs[run].status = "completed" => runs'[run].status = "completed"

LEMMA ForecastStays ==
    ASSUME WorldStays, NEW run \in Runs, runs[run].status = "completed"
    PROVE  Forecasted(run)' = Forecasted(run)
  BY DEF WorldStays, Forecasted, Predicted

LEMMA DraftsStay ==
    ASSUME IInv, WorldStays, NEW run \in Runs, NEW rows, runs[run].status = "completed",
           Drafts(run, rows)
    PROVE  Drafts(run, rows)'
  <1>1. clock \in Nat /\ clock' \in Nat /\ clock' >= clock
    BY DEF IInv, WorldOK, WorldStays
  <1>2. Forecasted(run)' = Forecasted(run)
    BY ForecastStays
  <1>3. \A g : g \in 0 .. clock => g \in 0 .. clock'
    BY <1>1
  <1>4. QED
    BY <1>2, <1>3 DEF Drafts, Advice, Story

\* A session that a step leaves alone stays as it should be, if the rows it
\* may have loaded are still there or gone, and changed only forwards.
LEMMA SessionStays ==
    ASSUME IInv, WorldStays, NEW d \in Clients, pc'[d] = pc[d], req'[d] = req[d],
           \A r \in recs' : \/ r.id > clock
                            \/ \E q \in recs : r.run = q.run /\ r.product = q.product
                                              /\ r.id = q.id /\ DecidedSince(r, q)
    PROVE  SessionOK(d)'
  <1>1. SessionOK(d) /\ req[d] \in Sessions
    BY DEF IInv
  <1>2. ASSUME pc[d] \in {"read", "write"} PROVE Generating(d)'
    <2>1. Generating(d)
      BY <1>1, <1>2 DEF SessionOK
    <2>2. Forecasted(req[d].run)' = Forecasted(req[d].run)
      BY <2>1, ForecastStays DEF Generating
    <2>3. QED
      BY <2>1, <2>2 DEF Generating, WorldStays, MayGenerate
  <1>3. ASSUME pc[d] = "write" PROVE Drafts(req[d].run, req[d].rows)'
    <2>1. Generating(d) /\ Drafts(req[d].run, req[d].rows)
      BY <1>1, <1>3 DEF SessionOK
    <2>2. QED
      BY <2>1, DraftsStay DEF Generating
  <1>4. ASSUME pc[d] = "update" PROVE Updating(d)'
    <2> DEFINE seen == req[d].seen
    <2>1. Updating(d)
      BY <1>1, <1>4 DEF SessionOK
    <2>2. seen \in Rows /\ seen.id <= clock /\ seen.id \in Nat
      BY <2>1 DEF Updating, Rows
    <2>3. clock \in Nat /\ clock' \in Nat /\ clock' >= clock
      BY DEF IInv, WorldOK, WorldStays
    <2>4. seen.id <= clock'
      BY <2>2, <2>3
    <2>5. ASSUME NEW r \in recs', SameRow(r, seen) PROVE DecidedSince(r, seen)
      <3>1. r.id = seen.id
        BY <2>5 DEF SameRow
      <3>2. ~(r.id > clock)
        BY <2>2, <2>3, <3>1
      <3>3. PICK q \in recs : r.run = q.run /\ r.product = q.product
                              /\ r.id = q.id /\ DecidedSince(r, q)
        BY <3>2
      <3>4. SameRow(q, seen)
        BY <2>5, <3>3 DEF SameRow
      <3>5. DecidedSince(q, seen)
        BY <2>1, <3>4 DEF Updating
      <3>6. QED
        BY <3>3, <3>5 DEF DecidedSince
    <2>6. QED
      BY <2>1, <2>2, <2>4, <2>5 DEF Updating, SameRow, DecidedSince, Story, ValidTransition
  <1>5. QED
    BY <1>2, <1>3, <1>4 DEF SessionOK

\* Steps that write no recommendation
LEMMA RowsUntouched ==
    ASSUME IInv, WorldStays, recs' = recs,
           pc' \in [Clients -> Labels], req' \in [Clients -> Sessions],
           \A d \in Clients : SessionOK(d)' \/ (pc'[d] = pc[d] /\ req'[d] = req[d])
    PROVE  IInv'
  <1>1. clock \in Nat /\ clock' \in Nat /\ clock' >= clock
    BY DEF IInv, WorldOK, WorldStays
  <1>2. \A r \in recs : r \in Rows /\ r.run \in Runs /\ RowOK(r)
    BY DEF IInv, Rows
  <1>3. \A r \in recs' : RowOK(r)'
    <2>1. \A i : i \in 1 .. clock => i \in 1 .. clock'
      BY <1>1
    <2>2. QED
      BY <1>2, <2>1 DEF RowOK, Advice, Story
  <1>4. OneGeneration'
    <2> SUFFICES ASSUME NEW run \in Runs, OfRun(run)' # {}
                 PROVE  /\ runs'[run].status = "completed"
                        /\ {r.product : r \in OfRun(run)'} = Forecasted(run)'
                        /\ \A r, s \in OfRun(run)' :
                               /\ r.id = s.id /\ r.generated = s.generated
                               /\ r.product = s.product => r = s
      BY DEF OneGeneration
    <2>1. OfRun(run)' = OfRun(run)
      BY DEF OfRun
    <2>2. /\ runs[run].status = "completed"
          /\ {r.product : r \in OfRun(run)} = Forecasted(run)
          /\ \A r, s \in OfRun(run) :
                /\ r.id = s.id /\ r.generated = s.generated
                /\ r.product = s.product => r = s
      BY <2>1 DEF IInv, OneGeneration
    <2>3. Forecasted(run)' = Forecasted(run)
      BY <2>2, ForecastStays
    <2>4. QED
      BY <2>1, <2>2, <2>3 DEF WorldStays
  <1>5. \A d \in Clients : SessionOK(d)'
    BY SessionStays DEF DecidedSince
  <1>6. QED
    BY <1>2, <1>3, <1>4, <1>5 DEF IInv, WorldStays

\* A generation that is written replaces what was counted, and the constraint
\* sees to it that nothing else of the run is there.
LEMMA Written ==
    ASSUME IInv, NEW c \in Clients, GenerateWrite(c)
    PROVE  /\ WorldStays /\ runs' = runs /\ clock' = clock + 1 /\ clock \in Nat
           /\ req[c].run \in Runs /\ runs[req[c].run].status = "completed"
           /\ Forecasted(req[c].run) # {}
           /\ \A run \in Runs : Forecasted(run)' = Forecasted(run)
           /\ Drafts(req[c].run, req[c].rows) /\ req[c].rows \subseteq Rows
           /\ Kept(c) \subseteq recs /\ \A r \in Kept(c) : r.run # req[c].run
           /\ \A r \in recs : r.run # req[c].run => r \in Kept(c)
           /\ recs' = Kept(c) \cup {[r EXCEPT !.id = clock'] : r \in req[c].rows}
  <1>1. /\ pc[c] = "write" /\ clock' = clock + 1 /\ runs' = runs
        /\ items' = items /\ movements' = movements
        /\ recs' = Kept(c) \cup {[r EXCEPT !.id = clock'] : r \in req[c].rows}
    BY DEF GenerateWrite, Committed
  <1>2. /\ clock \in Nat /\ Generating(c) /\ Drafts(req[c].run, req[c].rows)
        /\ req[c].rows \subseteq Rows
    BY <1>1 DEF IInv, WorldOK, SessionOK, Sessions
  <1>3. \A i : i \in 1 .. clock => i \in 1 .. clock'
    BY <1>1, <1>2
  <1>4. WorldStays
    BY <1>1, <1>2, <1>3 DEF WorldStays, IInv, WorldOK
  <1>5. /\ Kept(c) \subseteq recs /\ \A r \in recs : r.run # req[c].run => r \in Kept(c)
    BY DEF Kept, OfRun
  <1>6. \A r \in Kept(c) : r.run # req[c].run
    BY DEF GenerateWrite, ConstraintHolds
  <1>7. QED
    BY <1>1, <1>2, <1>4, <1>5, <1>6 DEF Generating, Forecasted, Predicted

LEMMA GenerateWriteIInv ==
    ASSUME IInv, NEW c \in Clients, GenerateWrite(c) PROVE IInv'
  <1>1. PICK run, rows, new :
          /\ run \in Runs /\ rows \in SUBSET Rows
          /\ WorldStays /\ runs' = runs /\ clock' = clock + 1 /\ clock \in Nat
          /\ runs[run].status = "completed"
          /\ \A other \in Runs : Forecasted(other)' = Forecasted(other)
          /\ Drafts(run, rows)
          /\ Kept(c) \subseteq recs /\ \A r \in Kept(c) : r.run # run
          /\ \A r \in recs : r.run # run => r \in Kept(c)
          /\ new = {[r EXCEPT !.id = clock'] : r \in rows}
          /\ recs' = Kept(c) \cup new
    BY Written
  <1>2. /\ pc' \in [Clients -> Labels] /\ pc'[c] = "idle"
        /\ req' \in [Clients -> Sessions]
        /\ \A d \in Clients \ {c} : pc'[d] = pc[d] /\ req'[d] = req[d]
    BY DoneSessions DEF GenerateWrite
  <1>3. ASSUME NEW s \in new
        PROVE  \E r \in rows :
                 /\ s \in Rows /\ s.id = clock'
                 /\ s.run = r.run /\ s.product = r.product /\ s.generated = r.generated
                 /\ s = [r EXCEPT !.id = clock'] /\ Advice(s) /\ Story(s)
    <2>1. PICK r \in rows : s = [r EXCEPT !.id = clock']
      BY <1>1, <1>3
    <2>2. r \in Rows /\ clock' \in Nat /\ Advice(r) /\ Story(r)
      BY <1>1 DEF Drafts
    <2>3. QED
      BY <2>1, <2>2, InsertedRow DEF Advice, Story
  <1>4. ASSUME NEW r \in rows
        PROVE  \E s \in new : s.product = r.product /\ s.run = run
    <2>1. [r EXCEPT !.id = clock'] \in new
      BY <1>1
    <2>2. r \in Rows /\ clock' \in Nat /\ r.run = run
      BY <1>1 DEF Drafts
    <2>3. QED
      BY <2>1, <2>2, InsertedRow
  <1>5. ASSUME NEW r \in recs' PROVE r \in Rows /\ RowOK(r)'
    <2>1. CASE r \in Kept(c)
      <3>1. r \in Rows /\ RowOK(r)
        BY <1>1, <2>1 DEF IInv
      <3>2. \A i : i \in 1 .. clock => i \in 1 .. clock'
        BY <1>1
      <3>3. QED
        BY <3>1, <3>2 DEF RowOK, Advice, Story
    <2>2. CASE r \in new
      <3>1. PICK q \in rows :
               /\ r \in Rows /\ r.id = clock'
               /\ r.run = q.run /\ r.product = q.product /\ r.generated = q.generated
               /\ Advice(r) /\ Story(r)
        BY <1>3, <2>2
      <3>2. Owner[q.run] = Owner[q.product] /\ q.generated \in 0 .. clock
        BY <1>1 DEF Drafts
      <3>3. r.id \in 1 .. clock' /\ r.generated < r.id
        BY <1>1, <3>1, <3>2
      <3>4. QED
        BY <3>1, <3>2, <3>3 DEF RowOK, Advice, Story
    <2>3. QED
      BY <1>1, <2>1, <2>2
  <1>6. OneGeneration'
    <2> SUFFICES ASSUME NEW other \in Runs, OfRun(other)' # {}
                 PROVE  /\ runs'[other].status = "completed"
                        /\ {r.product : r \in OfRun(other)'} = Forecasted(other)'
                        /\ \A r, s \in OfRun(other)' :
                               /\ r.id = s.id /\ r.generated = s.generated
                               /\ r.product = s.product => r = s
      BY DEF OneGeneration
    <2>1. CASE other # run
      <3>1. \A r \in new : r.run = run
        BY <1>1, <1>3 DEF Drafts
      <3>2. OfRun(other)' = OfRun(other)
        BY <1>1, <2>1, <3>1 DEF OfRun
      <3>3. Forecasted(other)' = Forecasted(other)
        BY <1>1 DEF Forecasted, Predicted
      <3>4. QED
        BY <1>1, <3>2, <3>3 DEF IInv, OneGeneration
    <2>2. CASE other = run
      <3>1. \A r \in new : r.run = run
        BY <1>1, <1>3 DEF Drafts
      <3>2. OfRun(other)' = new
        BY <1>1, <2>2, <3>1 DEF OfRun
      <3>3. {r.product : r \in new} = {r.product : r \in rows}
        BY <1>3, <1>4
      <3>4. {r.product : r \in rows} = Forecasted(run)
        BY <1>1 DEF Drafts
      <3>5. ASSUME NEW r \in new, NEW s \in new
            PROVE  /\ r.id = s.id /\ r.generated = s.generated
                   /\ r.product = s.product => r = s
        BY <1>1, <1>3 DEF Drafts
      <3>6. QED
        BY <1>1, <2>2, <3>2, <3>3, <3>4, <3>5
    <2>3. QED
      BY <2>1, <2>2
  <1>7. ASSUME NEW d \in Clients PROVE SessionOK(d)'
    <2>1. CASE d = c
      BY <1>2, <2>1 DEF SessionOK
    <2>2. CASE d # c
      <3>1. ASSUME NEW r \in recs'
            PROVE  \/ r.id > clock
                   \/ \E q \in recs : r.run = q.run /\ r.product = q.product
                                    /\ r.id = q.id /\ DecidedSince(r, q)
        BY <1>1, <1>3 DEF DecidedSince
      <3>2. QED
        BY <1>1, <1>2, <2>2, <3>1, SessionStays
    <2>3. QED
      BY <2>1, <2>2
  <1>8. QED
    BY <1>1, <1>2, <1>5, <1>6, <1>7 DEF IInv, WorldStays

\* A decision about a row that no other request decided about meanwhile
LEMMA DecisionStory ==
    ASSUME IInv, NEW c \in Clients, pc[c] = "update",
           NEW row \in recs, SameRow(row, req[c].seen),
           NEW s, s = Decided(row, req[c].seen, req[c].target)
    PROVE  /\ s \in Rows /\ SameRow(s, row) /\ s.generated = row.generated
           /\ DecidedSince(s, row) /\ Advice(s)
           /\ ~s.raced => Story(s)
  <1> DEFINE seen == req[c].seen
             target == req[c].target
  <1>1. /\ Updating(c) /\ row \in Rows /\ RowOK(row)
    BY DEF IInv, SessionOK
  <1>2. /\ seen \in Rows /\ target \in RecommendationStatuses
        /\ ValidTransition(seen.status, target) /\ DecidedSince(row, seen)
        /\ ~seen.raced => Story(seen)
    BY <1>1 DEF Updating
  <1> HIDE DEF seen, target
  <1>3. DecidedFrom(s, row, seen, target)
    BY <1>1, <1>2, DecidedRow DEF seen, target
  <1>4. DecidedSince(s, row)
    BY <1>3, Zenon DEF DecidedFrom, DecidedSince
  <1>5. Advice(s)
    BY <1>1, <1>3 DEF DecidedFrom, RowOK, Advice
  <1>6. ASSUME ~s.raced PROVE Story(s)
    <2>1. ~row.raced /\ row.status = seen.status
      BY <1>3, <1>6, Zenon DEF DecidedFrom
    <2>2. Story(row)
      BY <1>1, <2>1 DEF RowOK
    <2>3. s.status = target
      BY <1>3, <2>1 DEF DecidedFrom
    <2>4. target = "acknowledged" => s.acknowledged
      BY <1>2, <1>3, Zenon DEF DecidedFrom, DecidedSince
    <2>5. s.dismissed <=> target = "dismissed"
      <3>1. row.dismissed => target = "dismissed"
        BY <1>2, <2>1, <2>2 DEF Story, ValidTransition
      <3>2. QED
        BY <1>2, <1>3, <3>1, Zenon DEF DecidedFrom, DecidedSince
    <2>6. target = "open" => ~s.acknowledged
      <3>1. target = "open" => ~row.acknowledged
        BY <1>2, <2>1, <2>2 DEF Story, ValidTransition
      <3>2. target = "open" => target # "acknowledged"
        OBVIOUS
      <3>3. QED
        BY <1>3, <3>1, <3>2, Zenon DEF DecidedFrom
    <2>7. QED
      BY <2>3, <2>4, <2>5, <2>6, Zenon DEF Story
  <1>7. QED
    BY <1>3, <1>4, <1>5, <1>6 DEF DecidedFrom, SameRow

LEMMA UpdateWriteIInv ==
    ASSUME IInv, NEW c \in Clients, UpdateWrite(c) PROVE IInv'
  <1>1. PICK row \in recs :
          /\ SameRow(row, req[c].seen) /\ clock' = clock + 1
          /\ recs' = (recs \ {row}) \cup {Decided(row, req[c].seen, req[c].target)}
    BY DEF UpdateWrite, Committed
  <1>2. PICK s : s = Decided(row, req[c].seen, req[c].target)
    OBVIOUS
  <1>3. recs' = (recs \ {row}) \cup {s}
    BY <1>1, <1>2
  <1>4. /\ s \in Rows /\ SameRow(s, row) /\ s.generated = row.generated
        /\ DecidedSince(s, row) /\ Advice(s) /\ (~s.raced => Story(s))
    BY <1>1, <1>2, DecisionStory DEF UpdateWrite
  <1>5. /\ row \in Rows /\ RowOK(row) /\ row.run \in Runs
    BY DEF IInv, Rows
  <1>6. /\ pc' \in [Clients -> Labels] /\ pc'[c] = "idle"
        /\ req' \in [Clients -> Sessions]
        /\ \A d \in Clients \ {c} : pc'[d] = pc[d] /\ req'[d] = req[d]
    BY DoneSessions DEF UpdateWrite
  <1>7. /\ clock \in Nat /\ clock' = clock + 1 /\ runs' = runs
        /\ items' = items /\ movements' = movements
    BY <1>1 DEF UpdateWrite, IInv, WorldOK
  <1>8. \A i : i \in 1 .. clock => i \in 1 .. clock'
    BY <1>7
  <1>9. WorldStays
    BY <1>7, <1>8 DEF WorldStays, IInv, WorldOK
  <1>10. ASSUME NEW r \in recs' PROVE r \in Rows /\ RowOK(r)'
    <2>1. CASE r = s
      BY <1>4, <1>5, <1>8, <2>1 DEF RowOK, SameRow, Advice, Story
    <2>2. CASE r # s
      <3>1. r \in Rows /\ RowOK(r)
        BY <1>3, <2>2 DEF IInv
      <3>2. QED
        BY <1>8, <3>1 DEF RowOK, Advice, Story
    <2>3. QED
      BY <2>1, <2>2
  <1>11. OneGeneration'
    <2> SUFFICES ASSUME NEW run \in Runs, OfRun(run)' # {}
                 PROVE  /\ runs'[run].status = "completed"
                        /\ {r.product : r \in OfRun(run)'} = Forecasted(run)'
                        /\ \A r, q \in OfRun(run)' :
                               /\ r.id = q.id /\ r.generated = q.generated
                               /\ r.product = q.product => r = q
      BY DEF OneGeneration
    <2>1. Forecasted(run)' = Forecasted(run)
      BY <1>7 DEF Forecasted, Predicted
    <2>2. CASE row.run # run
      <3>1. OfRun(run)' = OfRun(run)
        BY <1>3, <1>4, <2>2 DEF OfRun, SameRow
      <3>2. QED
        BY <1>7, <2>1, <3>1 DEF IInv, OneGeneration
    <2>3. CASE row.run = run
      <3>1. OfRun(run)' = (OfRun(run) \ {row}) \cup {s}
        BY <1>3, <1>4, <2>3 DEF OfRun, SameRow
      <3>2. row \in OfRun(run)
        BY <2>3 DEF OfRun
      <3>3. /\ runs[run].status = "completed"
            /\ {r.product : r \in OfRun(run)} = Forecasted(run)
            /\ \A r, q \in OfRun(run) : /\ r.id = q.id /\ r.generated = q.generated
                                        /\ r.product = q.product => r = q
        BY <3>2 DEF IInv, OneGeneration
      <3>4. s.product = row.product /\ s.id = row.id /\ s.generated = row.generated
        BY <1>4 DEF SameRow
      <3>5. {r.product : r \in OfRun(run)'} = {r.product : r \in OfRun(run)}
        BY <3>1, <3>2, <3>4
      <3>6. \A r, q \in OfRun(run)' : /\ r.id = q.id /\ r.generated = q.generated
                                      /\ r.product = q.product => r = q
        <4>1. \A r, q \in OfRun(run) : /\ r.id = q.id /\ r.generated = q.generated
                                       /\ r.product = q.product => r = q
          BY <3>3
        <4>2. QED
          BY <3>1, <3>2, <3>4, <4>1
      <3>7. runs'[run].status = "completed" /\ {r.product : r \in OfRun(run)'} = Forecasted(run)'
        BY <1>7, <2>1, <3>3, <3>5
      <3>8. QED
        BY <3>6, <3>7
    <2>4. QED
      BY <2>2, <2>3
  <1>12. ASSUME NEW d \in Clients PROVE SessionOK(d)'
    <2>1. CASE d = c
      BY <1>6, <2>1 DEF SessionOK
    <2>2. CASE d # c
      <3>1. ASSUME NEW r \in recs'
            PROVE  \E q \in recs : r.run = q.run /\ r.product = q.product
                                  /\ r.id = q.id /\ DecidedSince(r, q)
        BY <1>3, <1>4 DEF SameRow, DecidedSince
      <3>2. QED
        BY <1>6, <1>9, <2>2, <3>1, SessionStays
    <2>3. QED
      BY <2>1, <2>2
  <1>13. QED
    BY <1>6, <1>9, <1>10, <1>11, <1>12 DEF IInv, WorldStays

\* A generation reads the stock of the products that the run predicts.
LEMMA GenerateReadDrafts ==
    ASSUME IInv, NEW c \in Clients, GenerateRead(c)
    PROVE  \E s \in Sessions :
             /\ Goto(c, "write", s) /\ Drafts(req[c].run, s.rows)
             /\ s.run = req[c].run /\ s.refresh = req[c].refresh /\ s.existing = req[c].existing
             /\ \A r \in s.rows : OfForecast(r)
  <1> DEFINE rows == {NewRow(req[c].run, p, items[p]) : p \in Forecasted(req[c].run)}
  <1>1. PICK run \in Runs : run = req[c].run
    BY DEF GenerateRead, IInv, SessionOK, Generating
  <1>2. /\ runs[run].status = "completed" /\ req[c] \in Sessions /\ WorldOK
        /\ \A p \in Forecasted(run) : items[p] # None
    BY <1>1 DEF GenerateRead, IInv, SessionOK, Generating
  <1>3. PICK s : s = [req[c] EXCEPT !.rows = rows]
    OBVIOUS
  <1>4. Goto(c, "write", s)
    BY <1>3 DEF GenerateRead
  <1>5. ASSUME NEW p \in Forecasted(run)
        PROVE  /\ p \in Products /\ Owner[run] = Owner[p]
               /\ items[p] \in Levels /\ PredictedDemand(run, p) \in Nat
    <2>1. Predicted(run) = Forecasts[run]
      BY <1>2 DEF Predicted
    <2>2. p \in Products /\ Owner[run] = Owner[p]
      BY <2>1, RecommendationsAssumption DEF Forecasted
    <2>3. PredictedDemand(run, p) \in Nat
      BY <2>1, DemandIsNatural DEF PredictedDemand
    <2>4. QED
      BY <1>2, <2>2, <2>3 DEF WorldOK
  <1>6. ASSUME NEW r \in rows
        PROVE  \E p \in Forecasted(run) :
                 /\ r = NewRow(run, p, items[p]) /\ Owner[run] = Owner[p]
                 /\ r \in Rows /\ r.run = run /\ r.product = p /\ r.generated = clock
                 /\ Advice(r) /\ Story(r) /\ OfForecast(r)
    <2>1. PICK p \in Forecasted(run) : r = NewRow(run, p, items[p])
      BY <1>1, <1>6
    <2>2. Predicted(run) = Forecasts[run]
      BY <1>2 DEF Predicted
    <2>3. QED
      BY <1>2, <1>5, <2>1, <2>2, NewRowAdvice DEF OfForecast, PredictedDemand
  <1>7. ASSUME NEW p \in Forecasted(run) PROVE \E r \in rows : r.product = p
    <2>1. NewRow(run, p, items[p]) \in rows
      BY <1>1
    <2>2. QED
      BY <1>2, <1>5, <2>1, NewRowAdvice
  <1> HIDE DEF rows
  <1>8. Drafts(run, rows)
    <2>1. clock \in 0 .. clock
      BY <1>2 DEF WorldOK
    <2>2. {r.product : r \in rows} = Forecasted(run)
      BY <1>6, <1>7
    <2>3. \A r, q \in rows : r.generated = q.generated /\ (r.product = q.product => r = q)
      BY <1>6
    <2>4. QED
      BY <1>6, <2>1, <2>2, <2>3 DEF Drafts
  <1>9. rows \in SUBSET Rows
    BY <1>6
  <1>10. /\ s \in Sessions /\ s.rows = rows
         /\ s.run = run /\ s.refresh = req[c].refresh /\ s.existing = req[c].existing
    BY <1>1, <1>2, <1>3, <1>9, DraftSession
  <1>11. QED
    BY <1>1, <1>4, <1>6, <1>8, <1>10

LEMMA NextIInv == IInv /\ [Next]_vars => IInv'
  <1> SUFFICES ASSUME IInv, [Next]_vars PROVE IInv'
    OBVIOUS
  <1>0. WorldOK /\ pc \in [Clients -> Labels] /\ req \in [Clients -> Sessions]
    BY DEF IInv
  <1>1. rowVars' = rowVars => WorldStays
    BY <1>0 DEF WorldStays, WorldOK, rowVars
  <1>2. ASSUME NEW run \in Runs, RunSettles(run) PROVE IInv'
    <2>1. PICK status \in {"completed", "failed"} :
            /\ runs[run].status = "pending" /\ clock' = clock + 1
            /\ runs' = [runs EXCEPT ![run] = [status |-> status, updated |-> clock']]
            /\ UNCHANGED <<items, movements, recs, pc, req>>
      BY <1>2 DEF RunSettles, Committed
    <2>2. clock \in Nat /\ clock' \in Nat /\ clock' >= clock
      BY <1>0, <2>1 DEF WorldOK
    <2>3. \A i : i \in 1 .. clock => i \in 1 .. clock'
      BY <2>2
    <2>4. WorldStays
      BY <1>0, <2>1, <2>2, <2>3 DEF WorldStays, WorldOK
    <2>5. QED
      BY <1>0, <2>1, <2>4, RowsUntouched
  <1>3. ASSUME NEW p \in Products, StockChanges(p) PROVE IInv'
    <2>1. PICK level \in Levels :
            /\ clock' = clock + 1 /\ items' = [items EXCEPT ![p] = level]
            /\ movements' = movements \cup {[product |-> p, at |-> clock']}
            /\ UNCHANGED <<runs, recs, pc, req>>
      BY <1>3 DEF StockChanges, Committed
    <2>2. clock \in Nat /\ clock' \in Nat /\ clock' >= clock /\ clock' \in 1 .. clock'
      BY <1>0, <2>1 DEF WorldOK
    <2>3. \A i : i \in 1 .. clock => i \in 1 .. clock'
      BY <2>2
    <2>4. WorldStays
      BY <1>0, <2>1, <2>2, <2>3 DEF WorldStays, WorldOK
    <2>5. QED
      BY <1>0, <2>1, <2>4, RowsUntouched
  <1>4. ASSUME NEW c \in Clients, GenerateBegin(c) PROVE IInv'
    <2>1. PICK run \in Runs, refresh \in BOOLEAN :
            /\ runs[run].status = "completed" /\ Predicted(run) # {}
            /\ MayGenerate(OfRun(run) # {}, refresh)
            /\ Goto(c, "read", [NoRequest EXCEPT !.run = run, !.refresh = refresh,
                                                 !.existing = OfRun(run) # {}])
            /\ rowVars' = rowVars
      BY <1>4 DEF GenerateBegin
    <2>2. PICK existing \in BOOLEAN : existing = (OfRun(run) # {})
      BY Zenon
    <2>3. PICK s : s = GenerateRequest(run, refresh, existing)
      OBVIOUS
    <2>4. s \in Sessions /\ s.run = run /\ s.refresh = refresh /\ s.existing = existing
      BY <2>3, GenerateSession
    <2>5. Goto(c, "read", s)
      BY <2>1, <2>2, <2>3, Zenon DEF GenerateRequest
    <2>6. /\ pc' \in [Clients -> Labels] /\ pc'[c] = "read"
          /\ req' \in [Clients -> Sessions] /\ req'[c] = s
          /\ \A d \in Clients \ {c} : pc'[d] = pc[d] /\ req'[d] = req[d]
      BY <2>4, <2>5, OtherSessions DEF Labels
    <2>7. MayGenerate(existing, refresh)
      BY <2>1, <2>2, Zenon
    <2>8. Forecasted(run) # {} /\ Forecasted(run)' = Forecasted(run) /\ runs' = runs
      BY <2>1 DEF Forecasted, Predicted, rowVars
    <2>9. SessionOK(c)'
      BY <2>1, <2>4, <2>6, <2>7, <2>8 DEF SessionOK, Generating, MayGenerate
    <2>10. QED
      BY <1>1, <2>1, <2>6, <2>9, RowsUntouched DEF rowVars
  <1>5. ASSUME NEW c \in Clients, GenerateRead(c) PROVE IInv'
    <2>1. PICK s \in Sessions :
            /\ Goto(c, "write", s) /\ Drafts(req[c].run, s.rows)
            /\ s.run = req[c].run /\ s.refresh = req[c].refresh /\ s.existing = req[c].existing
      BY <1>5, GenerateReadDrafts
    <2>2. rowVars' = rowVars /\ Generating(c)
      BY <1>5 DEF GenerateRead, IInv, SessionOK
    <2>3. /\ pc' \in [Clients -> Labels] /\ pc'[c] = "write"
          /\ req' \in [Clients -> Sessions] /\ req'[c] = s
          /\ \A d \in Clients \ {c} : pc'[d] = pc[d] /\ req'[d] = req[d]
      BY <2>1, OtherSessions DEF Labels
    <2>4. PICK run \in Runs : run = req[c].run /\ runs[run].status = "completed"
      BY <2>2 DEF Generating
    <2>5. Drafts(run, s.rows)' /\ Forecasted(run)' = Forecasted(run)
      <3>1. Forecasted(run)' = Forecasted(run) /\ clock' = clock
        BY <2>2 DEF Forecasted, Predicted, rowVars
      <3>2. QED
        BY <2>1, <2>4, <3>1 DEF Drafts, Advice, Story
    <2>6. SessionOK(c)'
      BY <2>1, <2>2, <2>3, <2>4, <2>5 DEF SessionOK, Generating, MayGenerate, rowVars
    <2>7. QED
      BY <1>1, <2>2, <2>3, <2>6, RowsUntouched DEF rowVars
  <1>6. ASSUME NEW c \in Clients, UpdateLoad(c) PROVE IInv'
    <2>1. PICK row \in recs, target \in RecommendationStatuses :
            /\ ValidTransition(row.status, target) /\ rowVars' = rowVars
            /\ Goto(c, "update", UpdateRequest(row, target))
      BY <1>6 DEF UpdateLoad, UpdateRequest
    <2>2. PICK s : s = UpdateRequest(row, target)
      OBVIOUS
    <2>3. row \in Rows /\ RowOK(row) /\ row.id \in Nat /\ row.id <= clock
      BY <1>0 DEF IInv, RowOK, WorldOK
    <2>4. s \in Sessions /\ s.seen = row /\ s.target = target
      BY <2>2, <2>3, UpdateSession
    <2>5. /\ pc' \in [Clients -> Labels] /\ pc'[c] = "update"
          /\ req' \in [Clients -> Sessions] /\ req'[c] = s
          /\ \A d \in Clients \ {c} : pc'[d] = pc[d] /\ req'[d] = req[d]
      BY <2>1, <2>2, <2>4, OtherSessions DEF Labels
    <2>6. ASSUME NEW r \in recs, SameRow(r, row) PROVE DecidedSince(r, row)
      <3>1. r.run \in Runs /\ r \in OfRun(r.run) /\ row \in OfRun(r.run)
        BY <2>6 DEF IInv, Rows, OfRun, SameRow
      <3>2. r = row
        BY <2>6, <3>1 DEF IInv, OneGeneration, SameRow
      <3>3. QED
        BY <3>2 DEF DecidedSince
    <2>7. Updating(c)'
      BY <2>1, <2>3, <2>4, <2>5, <2>6
      DEF Updating, rowVars, RowOK, Story, SameRow, DecidedSince, ValidTransition
    <2>8. SessionOK(c)'
      BY <2>5, <2>7 DEF SessionOK
    <2>9. QED
      BY <1>1, <2>1, <2>5, <2>8, RowsUntouched DEF rowVars
  <1>7. ASSUME NEW c \in Clients,
               InventoryMissing(c) \/ GenerateRefused(c) \/ UpdateLost(c) \/ RequestAborted(c)
        PROVE  IInv'
    <2>1. rowVars' = rowVars /\ Done(c)
      BY <1>7 DEF InventoryMissing, GenerateRefused, UpdateLost, RequestAborted
    <2>2. SessionOK(c)'
      BY <2>1, DoneSessions DEF SessionOK
    <2>3. QED
      BY <1>1, <2>1, <2>2, DoneSessions, RowsUntouched DEF rowVars
  <1>8. CASE UNCHANGED vars
    BY <1>0, <1>1, <1>8, RowsUntouched DEF vars, rowVars
  <1>9. QED
    BY <1>2, <1>3, <1>4, <1>5, <1>6, <1>7, <1>8, GenerateWriteIInv, UpdateWriteIInv DEF Next

-----------------------------------------------------------------------------
(* Theorems *)

\* Rows, stock and movements have their types; nothing is dated after its commit.
THEOREM RecommendationTypes == Spec => []TypeOK
  <1>1. IInv => TypeOK
    <2> SUFFICES ASSUME IInv PROVE TypeOK
      OBVIOUS
    <2>1. ASSUME NEW c \in Clients, pc[c] = "write" PROVE req[c].rows # {}
      BY <2>1 DEF IInv, SessionOK, Generating, Drafts
    <2>2. QED
      BY <2>1 DEF IInv, TypeOK, WorldOK, RowOK, Rows
  <1>2. QED
    BY <1>1, InitIInv, NextIInv, PTL DEF Spec

\* Whatever requests generate, refresh and are cut off together, a run has the
\* rows of one generation.
THEOREM GenerationsNeverMix == Spec => []OneGeneration
  <1>1. IInv => OneGeneration
    BY DEF IInv
  <1>2. QED
    BY <1>1, InitIInv, NextIInv, PTL DEF Spec

\* A decision nobody raced is told by status and marks alike.
THEOREM DecisionsTellOneStory == Spec => []DecisionsStand
  <1>1. IInv => DecisionsStand
    BY DEF IInv, RowOK, Story, DecisionsStand
  <1>2. QED
    BY <1>1, InitIInv, NextIInv, PTL DEF Spec

\* For every stock and every demand, the quantity and the action agree.
THEOREM AdviceIsConsistent == Spec => []ActionMatchesQuantity
  <1>1. IInv => ActionMatchesQuantity
    BY DEF IInv, RowOK, Advice, ActionMatchesQuantity
  <1>2. QED
    BY <1>1, InitIInv, NextIInv, PTL DEF Spec

\* Rows go only when a request that asked for a refresh brings new ones.
THEOREM OnlyRefreshes == Spec => OnlyRefreshReplaces
  <1>1. IInv /\ [Next]_vars => [KeptOrRefreshed]_vars
    <2> SUFFICES ASSUME IInv, Next PROVE KeptOrRefreshed
      BY DEF KeptOrRefreshed
    <2>1. CASE recs' = recs
      BY <2>1 DEF KeptOrRefreshed, SameRow
    <2>2. ASSUME NEW c \in Clients, GenerateWrite(c) PROVE KeptOrRefreshed
      <3> SUFFICES ASSUME NEW r \in recs, \A s \in recs' : ~SameRow(s, r)
                   PROVE  /\ \E s \in recs' : s.run = r.run
                          /\ pc[c] = "write" /\ req[c].refresh /\ req[c].run = r.run
        BY DEF KeptOrRefreshed
      <3>1. r \notin Kept(c)
        BY <2>2, Written DEF SameRow
      <3>2. req[c].run = r.run /\ req[c].existing
        BY <3>1 DEF Kept, OfRun
      <3>3. pc[c] = "write" /\ Generating(c) /\ Drafts(req[c].run, req[c].rows)
        BY <2>2 DEF GenerateWrite, IInv, SessionOK
      <3>4. req[c].refresh
        BY <3>2, <3>3, Zenon DEF Generating, MayGenerate
      <3>5. PICK q \in req[c].rows : q.run = req[c].run
        BY <3>3 DEF Generating, Drafts
      <3>6. [q EXCEPT !.id = clock'] \in recs' /\ q \in Rows /\ clock' \in Nat
        BY <2>2, Written
      <3>7. [q EXCEPT !.id = clock'].run = q.run
        BY <3>6, InsertedRow
      <3>8. QED
        BY <3>2, <3>3, <3>4, <3>5, <3>6, <3>7
    <2>3. ASSUME NEW c \in Clients, UpdateWrite(c) PROVE KeptOrRefreshed
      <3>1. PICK row, s :
              /\ row \in recs
              /\ SameRow(row, req[c].seen) /\ s = Decided(row, req[c].seen, req[c].target)
              /\ recs' = (recs \ {row}) \cup {s}
        BY <2>3 DEF UpdateWrite
      <3>2. SameRow(s, row)
        BY <2>3, <3>1, DecisionStory DEF UpdateWrite
      <3>3. QED
        BY <3>1, <3>2 DEF KeptOrRefreshed, SameRow
    <2>4. QED
      BY <2>1, <2>2, <2>3
      DEF Next, RunSettles, StockChanges, GenerateBegin, GenerateRead, InventoryMissing,
          GenerateRefused, UpdateLoad, UpdateLost, RequestAborted, rowVars
  <1>2. QED
    BY <1>1, InitIInv, NextIInv, PTL DEF Spec, OnlyRefreshReplaces

-----------------------------------------------------------------------------
(* What the screens find in the tables                                     *)

\* A run that completed has predicted something; rows of one commit are of one
\* run; a recommendation, inserted or about to be, is for the demand of its run.
TablesInv ==
    /\ IsFiniteSet(movements)
    /\ \A run \in Runs : /\ runs[run].updated <= clock
                         /\ runs[run].status = "completed" => Forecasts[run] # {}
    /\ \A r \in recs : OfForecast(r)
    /\ \A r, s \in recs : r.id = s.id => r.run = s.run
    /\ \A c \in Clients : pc[c] = "write" => \A r \in req[c].rows : OfForecast(r)

LEMMA InitTables == Init => TablesInv
  BY FS_EmptySet DEF Init, TablesInv

LEMMA NextTables == IInv /\ TablesInv /\ [Next]_vars => TablesInv'
  <1> SUFFICES ASSUME IInv, TablesInv, [Next]_vars PROVE TablesInv'
    OBVIOUS
  <1>1. /\ clock \in Nat /\ pc \in [Clients -> Labels] /\ req \in [Clients -> Sessions]
        /\ runs \in [Runs -> [status : {"pending", "completed", "failed"}, updated : Nat]]
        /\ \A r \in recs : r.id \in Nat /\ r.id <= clock
    BY DEF IInv, WorldOK, RowOK
  <1>2. ASSUME recs' = recs, clock' = clock, runs' = runs, movements' = movements, NEW c \in Clients,
               \A d \in Clients \ {c} : pc'[d] = pc[d] /\ req'[d] = req[d],
               pc'[c] = "write" => \A r \in req'[c].rows : OfForecast(r)
        PROVE  TablesInv'
    BY <1>2 DEF TablesInv, OfForecast
  <1>3. ASSUME NEW run \in Runs, RunSettles(run) PROVE TablesInv'
    <2>1. PICK status \in {"completed", "failed"} :
            /\ status = "completed" => Forecasts[run] # {}
            /\ clock' = clock + 1
            /\ runs' = [runs EXCEPT ![run] = [status |-> status, updated |-> clock']]
            /\ movements' = movements /\ recs' = recs /\ pc' = pc /\ req' = req
      BY <1>3 DEF RunSettles, Committed
    <2>2. \A other \in Runs :
             /\ runs'[other].updated <= clock'
             /\ runs'[other].status = "completed" => Forecasts[other] # {}
      BY <1>1, <2>1 DEF TablesInv
    <2>3. QED
      BY <2>1, <2>2 DEF TablesInv, OfForecast
  <1>4. ASSUME NEW p \in Products, StockChanges(p) PROVE TablesInv'
    <2>1. /\ clock' = clock + 1 /\ movements' = movements \cup {[product |-> p, at |-> clock']}
          /\ runs' = runs /\ recs' = recs /\ pc' = pc /\ req' = req
      BY <1>4 DEF StockChanges, Committed
    <2>2. IsFiniteSet(movements')
      BY <2>1, FS_AddElement DEF TablesInv
    <2>3. \A run \in Runs : runs[run].updated \in Nat /\ runs[run].updated <= clock'
      BY <1>1, <2>1 DEF TablesInv
    <2>4. QED
      BY <2>1, <2>2, <2>3 DEF TablesInv, OfForecast
  <1>5. ASSUME NEW c \in Clients, GenerateBegin(c) PROVE TablesInv'
    <2>1. PICK s : Goto(c, "read", s) /\ rowVars' = rowVars
      BY <1>5 DEF GenerateBegin
    <2>2. pc'[c] = "read" /\ \A d \in Clients \ {c} : pc'[d] = pc[d] /\ req'[d] = req[d]
      BY <1>1, <2>1 DEF Goto
    <2>3. QED
      BY <1>2, <2>1, <2>2 DEF rowVars
  <1>6. ASSUME NEW c \in Clients, GenerateRead(c) PROVE TablesInv'
    <2>1. PICK s \in Sessions : Goto(c, "write", s) /\ \A r \in s.rows : OfForecast(r)
      BY <1>6, GenerateReadDrafts
    <2>2. req'[c] = s /\ \A d \in Clients \ {c} : pc'[d] = pc[d] /\ req'[d] = req[d]
      BY <1>1, <2>1 DEF Goto
    <2>3. QED
      BY <1>2, <1>6, <2>1, <2>2 DEF rowVars, GenerateRead
  <1>7. ASSUME NEW c \in Clients, UpdateLoad(c) PROVE TablesInv'
    <2>1. PICK s : Goto(c, "update", s) /\ rowVars' = rowVars
      BY <1>7 DEF UpdateLoad
    <2>2. pc'[c] = "update" /\ \A d \in Clients \ {c} : pc'[d] = pc[d] /\ req'[d] = req[d]
      BY <1>1, <2>1 DEF Goto
    <2>3. QED
      BY <1>2, <2>1, <2>2 DEF rowVars
  <1>8. ASSUME NEW c \in Clients,
               InventoryMissing(c) \/ GenerateRefused(c) \/ UpdateLost(c) \/ RequestAborted(c)
        PROVE  TablesInv'
    <2>1. rowVars' = rowVars /\ Done(c)
      BY <1>8 DEF InventoryMissing, GenerateRefused, UpdateLost, RequestAborted
    <2>2. pc'[c] = "idle" /\ \A d \in Clients \ {c} : pc'[d] = pc[d] /\ req'[d] = req[d]
      BY <2>1, DoneSessions
    <2>3. QED
      BY <1>2, <2>1, <2>2 DEF rowVars
  <1>9. ASSUME NEW c \in Clients, GenerateWrite(c) PROVE TablesInv'
    <2>1. PICK run, rows, new :
            /\ rows = req[c].rows /\ rows \in SUBSET Rows
            /\ runs' = runs /\ clock' = clock + 1
            /\ Drafts(run, rows)
            /\ Kept(c) \subseteq recs
            /\ new = {[r EXCEPT !.id = clock'] : r \in rows}
            /\ recs' = Kept(c) \cup new
      BY <1>9, Written
    <2>2. /\ pc'[c] = "idle" /\ movements' = movements
          /\ \A d \in Clients \ {c} : pc'[d] = pc[d] /\ req'[d] = req[d]
      BY <1>9, DoneSessions DEF GenerateWrite
    <2>3. \A r \in rows : r \in Rows /\ r.run = run /\ OfForecast(r)
      BY <1>9, <2>1 DEF GenerateWrite, TablesInv, Drafts
    <2>4. ASSUME NEW s \in new PROVE s.id = clock' /\ s.run = run /\ OfForecast(s)
      <3>1. PICK r \in rows : s = [r EXCEPT !.id = clock']
        BY <2>1, <2>4
      <3>2. clock' \in Nat /\ r \in Rows /\ r.run = run /\ OfForecast(r)
        BY <1>1, <2>1, <2>3
      <3>3. QED
        BY <3>1, <3>2, InsertedRow DEF OfForecast
    <2>5. \A r \in Kept(c) : r.id # clock'
      BY <1>1, <2>1
    <2>6. \A r, s \in recs' : r.id = s.id => r.run = s.run
      BY <2>1, <2>4, <2>5 DEF TablesInv
    <2>7. \A r \in recs' : OfForecast(r)
      BY <2>1, <2>4 DEF TablesInv
    <2>8. \A other \in Runs : runs[other].updated \in Nat /\ runs[other].updated <= clock'
      BY <1>1, <2>1 DEF TablesInv
    <2>9. QED
      BY <2>1, <2>2, <2>6, <2>7, <2>8 DEF TablesInv, OfForecast
  <1>10. ASSUME NEW c \in Clients, UpdateWrite(c) PROVE TablesInv'
    <2>1. PICK row \in recs :
            /\ clock' = clock + 1 /\ runs' = runs /\ movements' = movements
            /\ recs' = (recs \ {row}) \cup {Decided(row, req[c].seen, req[c].target)}
      BY <1>10 DEF UpdateWrite, Committed
    <2>2. PICK s : s = Decided(row, req[c].seen, req[c].target)
      OBVIOUS
    <2>3. pc[c] = "update" /\ Updating(c) /\ row \in Rows
      BY <1>10 DEF UpdateWrite, IInv, SessionOK
    <2>4. DecidedFrom(s, row, req[c].seen, req[c].target)
      BY <2>2, <2>3, DecidedRow DEF Updating
    <2>5. s.id = row.id /\ s.run = row.run /\ OfForecast(s)
      BY <2>4 DEF DecidedFrom, OfForecast, TablesInv
    <2>6. \A r, q \in recs' : r.id = q.id => r.run = q.run
      BY <2>1, <2>2, <2>5 DEF TablesInv
    <2>7. pc'[c] = "idle" /\ \A d \in Clients \ {c} : pc'[d] = pc[d] /\ req'[d] = req[d]
      BY <1>10, DoneSessions DEF UpdateWrite
    <2>8. \A other \in Runs : runs[other].updated \in Nat /\ runs[other].updated <= clock'
      BY <1>1, <2>1 DEF TablesInv
    <2>9. QED
      BY <2>1, <2>2, <2>5, <2>6, <2>7, <2>8 DEF TablesInv, OfForecast
  <1>11. CASE UNCHANGED vars
    BY <1>11 DEF vars, rowVars, TablesInv, OfForecast
  <1>12. QED
    BY <1>3, <1>4, <1>5, <1>6, <1>7, <1>8, <1>9, <1>10, <1>11 DEF Next

\* With one row of a run and a product, recommendations are finitely many.
LEMMA RecommendationsAreFinite == ASSUME IInv PROVE IsFiniteSet(recs)
  <1>1. PICK place : place = [r \in recs |-> <<r.run, r.product>>]
    OBVIOUS
  <1>2. place \in Injection(recs, Runs \X Products)
    <2>1. \A r \in recs : r.run \in Runs /\ r.product \in Products
      BY DEF IInv, Rows
    <2>2. ASSUME NEW r \in recs, NEW s \in recs, place[r] = place[s] PROVE r = s
      <3>1. r.run = s.run /\ r.product = s.product
        BY <1>1, <2>2
      <3>2. r \in OfRun(r.run) /\ s \in OfRun(r.run)
        BY <3>1 DEF OfRun
      <3>3. QED
        BY <2>1, <3>1, <3>2 DEF IInv, OneGeneration
    <2>3. place \in [recs -> Runs \X Products]
      BY <1>1, <2>1
    <2>4. QED
      BY <2>2, <2>3 DEF Injection, IsInjective
  <1>3. IsFiniteSet(Runs \X Products)
    BY RecommendationsAssumption, FS_Product
  <1>4. QED
    BY <1>2, <1>3, FS_Injection

LEMMA LatestIsCut ==
    ASSUME NEW events, IsFiniteSet(events), NEW N \in Nat, \A x \in events : x.at \in 0 .. N,
           NEW at, \A x \in events : at[x] = x.at, NEW n \in Nat,
           NEW shown, shown = Latest(events, Later, n)
    PROVE  IsCut(shown, events, at, n)
  <1>1. PICK any : IsCut(any, events, at, n)
    BY CutsExist
  <1>2. shown = CHOOSE s \in SUBSET events :
            /\ Cardinality(s) = IF n < Cardinality(events) THEN n ELSE Cardinality(events)
            /\ \A x \in s, y \in events \ s : ~(y.at > x.at)
    BY Zenon DEF Latest, Later
  <1>3. /\ any \in SUBSET events
        /\ Cardinality(any) = IF n < Cardinality(events) THEN n ELSE Cardinality(events)
        /\ \A x \in any, y \in events \ any : ~(y.at > x.at)
    BY <1>1 DEF IsCut
  <1>4. /\ shown \in SUBSET events
        /\ Cardinality(shown) = IF n < Cardinality(events) THEN n ELSE Cardinality(events)
        /\ \A x \in shown, y \in events \ shown : ~(y.at > x.at)
    BY <1>2, <1>3, Zenon
  <1>5. QED
    BY <1>4 DEF IsCut

\* A source that asks for as many as are shown in the end
LEMMA CutSource ==
    ASSUME NEW S, IsFiniteSet(S), NEW at, \A x \in S : at[x] \in Nat, NEW n \in Nat,
           NEW limit \in Nat, limit <= n, NEW cut, IsCut(cut, S, at, n), NEW y \in S \ cut
    PROVE  Cardinality(cut) >= limit /\ \A e \in cut : ~(at[y] > at[e])
  <1>1. cut \in SUBSET S /\ cut # S
    BY DEF IsCut
  <1>2. IsFiniteSet(cut) /\ Cardinality(cut) # Cardinality(S)
        /\ Cardinality(S) \in Nat /\ Cardinality(cut) \in Nat
    BY <1>1, FS_Subset, FS_CardinalityType
  <1>3. Cardinality(cut) = n
    BY <1>2 DEF IsCut
  <1>4. QED
    BY <1>3 DEF IsCut

LEMMA EventsAreFinite ==
    ASSUME IInv, TablesInv, NEW user
    PROVE  /\ IsFiniteSet(RunEvents(user)) /\ \A x \in RunEvents(user) : x.at \in 0 .. clock
           /\ IsFiniteSet(MovementEvents(user)) /\ \A x \in MovementEvents(user) : x.at \in 0 .. clock
           /\ IsFiniteSet(RecommendationEvents(user))
           /\ \A x \in RecommendationEvents(user) : x.at \in 0 .. clock
  <1>1. IsFiniteSet(RunEvents(user)) /\ \A x \in RunEvents(user) : x.at \in 0 .. clock
    <2>1. PICK S : S = RunsOf(user)
      OBVIOUS
    <2>2. S \subseteq Runs /\ IsFiniteSet(S)
      BY <2>1, RecommendationsAssumption, FS_Subset DEF RunsOf
    <2>3. PICK f : f = [run \in S |-> [kind |-> "forecast_run", of |-> run, at |-> runs[run].updated]]
      OBVIOUS
    <2>4. DOMAIN f = S /\ RunEvents(user) = {f[x] : x \in S}
      BY <2>1, <2>3 DEF RunEvents
    <2>5. \A run \in S : f[run].at = runs[run].updated /\ runs[run].updated \in 0 .. clock
      BY <2>2, <2>3 DEF IInv, WorldOK, TablesInv
    <2>6. QED
      BY <2>2, <2>4, <2>5, FiniteImage
  <1>2. IsFiniteSet(MovementEvents(user)) /\ \A x \in MovementEvents(user) : x.at \in 0 .. clock
    <2>1. PICK S : S = {n \in movements : Owner[n.product] = user}
      OBVIOUS
    <2>2. S \subseteq movements /\ IsFiniteSet(S)
      BY <2>1, FS_Subset DEF TablesInv
    <2>3. PICK f : f = [m \in S |-> [kind |-> "stock_movement", of |-> m, at |-> m.at]]
      OBVIOUS
    <2>4. DOMAIN f = S /\ MovementEvents(user) = {f[x] : x \in S}
      BY <2>1, <2>3, Zenon DEF MovementEvents
    <2>5. \A m \in S : f[m].at = m.at /\ m.at \in 0 .. clock
      BY <2>2, <2>3 DEF IInv, WorldOK
    <2>6. QED
      BY <2>2, <2>4, <2>5, FiniteImage
  <1>3. IsFiniteSet(RecommendationEvents(user))
        /\ \A x \in RecommendationEvents(user) : x.at \in 0 .. clock
    <2>1. PICK S : S = {s \in recs : Owner[s.run] = user}
      OBVIOUS
    <2>2. S \subseteq recs /\ IsFiniteSet(S)
      BY <2>1, RecommendationsAreFinite, FS_Subset
    <2>3. PICK f : f = [r \in S |-> [kind |-> "reorder_recommendation", of |-> r, at |-> r.generated]]
      OBVIOUS
    <2>4. DOMAIN f = S /\ RecommendationEvents(user) = {f[x] : x \in S}
      BY <2>1, <2>3, Zenon DEF RecommendationEvents
    <2>5. ASSUME NEW r \in S PROVE f[r].at = r.generated /\ r.generated \in 0 .. clock
      <3>1. r \in Rows /\ RowOK(r)
        BY <2>2 DEF IInv
      <3>2. r.generated \in Nat /\ r.id \in Nat /\ r.id <= clock /\ r.generated < r.id
        BY <3>1 DEF Rows, RowOK
      <3>3. r.generated \in 0 .. clock
        BY <3>2 DEF IInv, WorldOK
      <3>4. QED
        BY <2>3, <3>3
    <2>6. QED
      BY <2>2, <2>4, <2>5, FiniteImage
  <1>4. QED
    BY <1>1, <1>2, <1>3

LEMMA ActivityIsRecent ==
    ASSUME IInv, TablesInv, NEW user \in Users, NEW limit \in Limits,
           NEW all, all = RunEvents(user) \cup MovementEvents(user) \cup RecommendationEvents(user)
    PROVE  /\ RecentActivity(user, limit) \subseteq all
           /\ Cardinality(RecentActivity(user, limit)) =
                  IF limit < Cardinality(all) THEN limit ELSE Cardinality(all)
           /\ \A x \in RecentActivity(user, limit), y \in all \ RecentActivity(user, limit) : ~Later(y, x)
  <1>0. clock \in Nat /\ limit \in Nat /\ SourceFloor \in Nat
    BY InsightsAssumption DEF IInv, WorldOK
  <1>1. PICK R, M, G : R = RunEvents(user) /\ M = MovementEvents(user) /\ G = RecommendationEvents(user)
    OBVIOUS
  <1>2. /\ IsFiniteSet(R) /\ \A x \in R : x.at \in 0 .. clock
        /\ IsFiniteSet(M) /\ \A x \in M : x.at \in 0 .. clock
        /\ IsFiniteSet(G) /\ \A x \in G : x.at \in 0 .. clock
    BY <1>1, EventsAreFinite
  <1>3. all = R \cup M \cup G /\ IsFiniteSet(all) /\ \A x \in all : x.at \in 0 .. clock
    BY <1>1, <1>2, FS_Union
  <1>4. PICK at : at = [x \in all |-> x.at]
    OBVIOUS
  <1>5. /\ \A x \in all : at[x] = x.at /\ at[x] \in Nat
        /\ R \subseteq all /\ M \subseteq all /\ G \subseteq all
    BY <1>3, <1>4
  <1>6. PICK n \in Nat : n = (IF limit > SourceFloor THEN limit ELSE SourceFloor) /\ limit <= n
    BY <1>0
  <1>7. PICK r, m, g : r = Latest(R, Later, n) /\ m = Latest(M, Later, n) /\ g = Latest(G, Later, n)
    OBVIOUS
  <1>8. IsCut(r, R, at, n) /\ IsCut(m, M, at, n) /\ IsCut(g, G, at, n)
    BY <1>0, <1>2, <1>5, <1>7, LatestIsCut
  <1>9. PICK events : events = r \cup m \cup g
    OBVIOUS
  <1>10. events \in SUBSET all /\ IsFiniteSet(events)
    BY <1>3, <1>8, <1>9, FS_Subset DEF IsCut
  <1>11. PICK shown : shown = Latest(events, Later, limit)
    OBVIOUS
  <1>12. IsCut(shown, events, at, limit)
    BY <1>0, <1>3, <1>5, <1>10, <1>11, LatestIsCut
  <1>13. ASSUME NEW y \in all \ events
         PROVE  \E a \in SUBSET events : Cardinality(a) >= limit /\ \A e \in a : ~(at[y] > at[e])
    <2>1. CASE y \in R
      BY <1>0, <1>2, <1>5, <1>6, <1>8, <1>9, <2>1, CutSource
    <2>2. CASE y \in M
      BY <1>0, <1>2, <1>5, <1>6, <1>8, <1>9, <2>2, CutSource
    <2>3. CASE y \in G
      BY <1>0, <1>2, <1>5, <1>6, <1>8, <1>9, <2>3, CutSource
    <2>4. QED
      BY <1>3, <2>1, <2>2, <2>3
  <1>14. IsCut(shown, all, at, limit)
    BY <1>0, <1>3, <1>5, <1>10, <1>12, <1>13, CutOfCuts
  <1>15. RecentActivity(user, limit) = shown
    BY <1>1, <1>6, <1>7, <1>9, <1>11, Zenon DEF RecentActivity, RecentRuns
  <1>16. QED
    BY <1>5, <1>14, <1>15 DEF IsCut, Later

\* However many activities are asked for, those shown are the latest of all.
THEOREM ActivityIsTheLatest == Spec => []RecentActivityIsRecent
  <1>1. IInv /\ TablesInv => RecentActivityIsRecent
    BY ActivityIsRecent, Zenon DEF RecentActivityIsRecent
  <1>2. QED
    BY <1>1, InitIInv, NextIInv, InitTables, NextTables, PTL DEF Spec

-----------------------------------------------------------------------------
(* Screens: what is common to them                                         *)

LEMMA ListLength ==
    ASSUME NEW rows, IsFiniteSet(rows), NEW s, DOMAIN s = 1 .. Cardinality(rows),
           s = [n \in 1 .. Cardinality(rows) |-> s[n]]
    PROVE  IsList(s) /\ Len(s) = Cardinality(rows)
  BY FS_CardinalityType, FunctionList

\* The first rows of a list
LEMMA FirstRows ==
    ASSUME NEW s, IsList(s), NEW n \in Nat, NEW t, t = Page(s, n, 0)
    PROVE  /\ IsList(t) /\ Len(t) = IF n < Len(s) THEN n ELSE Len(s)
           /\ \A i \in 1 .. Len(t) : i \in 1 .. Len(s) /\ t[i] = s[i]
  <1>1. PICK k \in Nat : k = IF n < Len(s) THEN n ELSE Len(s)
    BY DEF IsList
  <1>2. k <= Len(s) /\ Len(s) \in Nat
    <2>1. Len(s) \in Nat
      BY DEF IsList
    <2>2. QED
      BY <1>1, <2>1
  <1>3. t = SubSeq(s, 1, k)
    BY <1>1 DEF Page
  <1>4. t = [i \in 1 .. k |-> s[i]]
    BY <1>2, <1>3
  <1>5. IsList(t) /\ Len(t) = k
    BY <1>4 DEF IsList
  <1>6. QED
    BY <1>1, <1>2, <1>4, <1>5

\* All that is counted, of any kind
LEMMA AllOfIs ==
    ASSUME NEW K, IsFiniteSet(K), NEW counts, DOMAIN counts = K
    PROVE  AllOf(counts) = SumFunctionOnSet(counts, K)
  <1>1. PICK c : c = [k \in DOMAIN counts |-> counts[k]]
    OBVIOUS
  <1>2. DOMAIN c = K /\ \A k \in K : c[k] = counts[k]
    BY <1>1
  <1>3. AllOf(counts) = SumFunction(c)
    BY <1>1, Zenon DEF AllOf, Total
  <1>4. SumFunction(c) = SumFunctionOnSet(c, K) /\ SumFunctionOnSet(c, K) = SumFunctionOnSet(counts, K)
    BY <1>2, SumIs, SumSame
  <1>5. QED
    BY <1>3, <1>4

-----------------------------------------------------------------------------
(* Stock *)

LEMMA FourStatuses == IsFiniteSet(StockStatuses)
  <1>1. IsFiniteSet({"healthy"})
    BY FS_Singleton
  <1>2. IsFiniteSet({"healthy"} \cup {"low_stock"})
    BY <1>1, FS_AddElement
  <1>3. IsFiniteSet({"healthy"} \cup {"low_stock"} \cup {"out_of_stock"})
    BY <1>2, FS_AddElement
  <1>4. IsFiniteSet({"healthy"} \cup {"low_stock"} \cup {"out_of_stock"} \cup {"inactive"})
    BY <1>3, FS_AddElement
  <1>5. StockStatuses = {"healthy"} \cup {"low_stock"} \cup {"out_of_stock"} \cup {"inactive"}
    BY DEF StockStatuses
  <1>6. QED
    BY <1>4, <1>5

\* Every module spells out the same four statuses.
LEMMA SameConditions ==
    ASSUME NEW level \in Levels
    PROVE  /\ StockStatus(level) \in StockStatuses
           /\ \A status \in StockStatuses :
                  /\ DashboardCondition(status, level) <=> StockStatus(level) = status
                  /\ ReportCondition(status, level) <=> StockStatus(level) = status
  <1>1. level.current \in Nat /\ level.minimum \in Nat /\ level.active \in BOOLEAN
    BY RecommendationsAssumption
  <1>2. PICK current \in Nat, minimum \in Nat :
            current = level.current /\ minimum = level.minimum
    BY <1>1
  <1>3. StockStatus(level) = IF ~level.active THEN "inactive"
                             ELSE IF current = 0 THEN "out_of_stock"
                             ELSE IF current <= minimum THEN "low_stock" ELSE "healthy"
    BY <1>2 DEF StockStatus
  <1>4. ASSUME NEW status \in StockStatuses
        PROVE  /\ DashboardCondition(status, level) <=> StockStatus(level) = status
               /\ ReportCondition(status, level) <=> StockStatus(level) = status
    <2>1. CASE status = "healthy"
      BY <1>2, <1>3, <2>1 DEF DashboardCondition, ReportCondition
    <2>2. CASE status = "low_stock"
      BY <1>2, <1>3, <2>2 DEF DashboardCondition, ReportCondition
    <2>3. CASE status = "out_of_stock"
      BY <1>2, <1>3, <2>3 DEF DashboardCondition, ReportCondition
    <2>4. CASE status = "inactive"
      BY <1>2, <1>3, <2>4 DEF DashboardCondition, ReportCondition
    <2>5. QED
      BY <2>1, <2>2, <2>3, <2>4 DEF StockStatuses
  <1>5. QED
    BY <1>3, <1>4 DEF StockStatuses

LEMMA ItemsAreLevels ==
    ASSUME IInv, NEW user
    PROVE  /\ ItemsOf(user) \subseteq Products /\ IsFiniteSet(ItemsOf(user))
           /\ \A p \in ItemsOf(user) :
                  /\ items[p] \in Levels /\ Owner[p] = user
                  /\ items[p].current \in Nat /\ items[p].minimum \in Nat
                  /\ items[p].active \in BOOLEAN
  <1>1. ItemsOf(user) \subseteq Products
    BY DEF ItemsOf
  <1>2. IsFiniteSet(ItemsOf(user))
    BY <1>1, RecommendationsAssumption, FS_Subset
  <1>3. ASSUME NEW p \in ItemsOf(user) PROVE items[p] \in Levels /\ Owner[p] = user
    BY DEF ItemsOf, IInv, WorldOK
  <1>4. QED
    BY <1>1, <1>2, <1>3, RecommendationsAssumption

\* The counts of a report part its rows.
LEMMA ReportCountsRows ==
    ASSUME IInv, NEW user, NEW category, NEW status
    PROVE  AllOf(StockReportCounts(user, category, status))
               = Cardinality(StockReportRows(user, category, status))
  <1>1. PICK rows, counts : rows = StockReportRows(user, category, status)
                            /\ counts = StockReportCounts(user, category, status)
    OBVIOUS
  <1>2. rows \in SUBSET ItemsOf(user) /\ IsFiniteSet(rows)
    BY <1>1, ItemsAreLevels, FS_Subset DEF StockReportRows
  <1>3. counts = [counted \in StockStatuses |->
                     Cardinality({p \in rows : ReportCondition(counted, items[p])})]
    BY <1>1, Zenon DEF StockReportCounts
  <1>4. PICK kind : kind = [p \in rows |-> StockStatus(items[p])]
    OBVIOUS
  <1>5. ASSUME NEW p \in rows
        PROVE  /\ kind[p] \in StockStatuses
               /\ \A k \in StockStatuses : ReportCondition(k, items[p]) <=> kind[p] = k
    BY <1>2, <1>4, ItemsAreLevels, SameConditions
  <1>10. PICK part : part = [k \in StockStatuses |-> {p \in rows : ReportCondition(k, items[p])}]
    OBVIOUS
  <1>6. \A k \in StockStatuses : /\ part[k] \subseteq rows /\ counts[k] = Cardinality(part[k])
                                 /\ \A p \in rows : p \in part[k] <=> kind[p] = k
    BY <1>3, <1>5, <1>10, Zenon
  <1>7. SumFunctionOnSet(counts, StockStatuses) = Cardinality(rows)
    <2>1. IsFiniteSet(rows) /\ IsFiniteSet(StockStatuses)
      BY <1>2, FourStatuses
    <2>2. \A p \in rows : kind[p] \in StockStatuses
      BY <1>5
    <2>3. QED
      BY ONLY <1>6, <2>1, <2>2, CountByKind
  <1>8. AllOf(counts) = SumFunctionOnSet(counts, StockStatuses)
    BY <1>3, FourStatuses, AllOfIs
  <1>9. QED
    BY <1>1, <1>7, <1>8

LEMMA StockIsOrdered ==
    ASSUME IInv, NEW user, NEW rows \in SUBSET ItemsOf(user), NEW before,
           before = [x \in rows |-> {y \in rows : LeastStockFirst(y, x)}],
           NEW s, s = Ordered(rows, LeastStockFirst)
    PROVE  OrdersRows(before, rows) /\ RanksRows(s, before, rows)
  <1>1. IsFiniteSet(rows)
    BY ItemsAreLevels, FS_Subset
  <1>2. ASSUME NEW x \in rows, NEW y \in rows
        PROVE  /\ items[x].current \in Nat /\ Sku[x] \in Int
               /\ x # y => Sku[x] # Sku[y]
    BY ItemsAreLevels, ScreensAssumption
  <1>3. ASSUME NEW x \in rows, NEW y \in rows
        PROVE  y \in before[x] <=> \/ items[y].current < items[x].current
                                   \/ items[y].current = items[x].current /\ Sku[y] < Sku[x]
    BY Zenon DEF LeastStockFirst
  <1>4. \A x \in rows : before[x] = {y \in rows : LeastStockFirst(y, x)}
    OBVIOUS
  <1>5. \A x \in rows : before[x] \subseteq rows
    BY <1>4
  <1>0. s = [n \in 1 .. Cardinality(rows) |-> CHOOSE x \in rows : Cardinality(before[x]) = n - 1]
    BY DEF Ordered
  <1>6. PICK stock, sku : /\ stock = [x \in rows |-> items[x].current]
                          /\ sku = [x \in rows |-> Sku[x]]
    OBVIOUS
  <1>7. /\ \A x \in rows : stock[x] \in Int /\ sku[x] \in Int
        /\ \A x, y \in rows : x # y => sku[x] # sku[y]
        /\ \A x, y \in rows : y \in before[x] <=> \/ stock[y] < stock[x]
                                                  \/ stock[y] = stock[x] /\ sku[y] < sku[x]
    BY ONLY <1>2, <1>3, <1>6
  <1>8. OrdersRows(before, rows)
    <2>1. \A x \in rows : x \notin before[x]
      BY ONLY <1>7
    <2>2. \A x, y \in rows : x = y \/ x \in before[y] \/ y \in before[x]
      BY ONLY <1>7
    <2>3. \A x, y, z \in rows : y \in before[x] /\ z \in before[y] => z \in before[x]
      BY ONLY <1>7
    <2>4. QED
      BY ONLY <1>5, <2>1, <2>2, <2>3 DEF OrdersRows
  <1>10. QED
    BY ONLY <1>1, <1>0, <1>8, RowsByRank

LEMMA PreviewOf ==
    ASSUME IInv, NEW user, NEW status, NEW rows,
           rows = {p \in ItemsOf(user) : DashboardCondition(status, items[p])},
           NEW shown, shown = StockPreview(user, status, 1)
    PROVE  /\ shown = <<>> <=> Cardinality(rows) = 0
           /\ \A p \in ToSet(shown) :
                 p \in rows /\ \A q \in rows : ~(items[q].current < items[p].current)
  <1>1. rows \in SUBSET ItemsOf(user) /\ IsFiniteSet(rows)
    BY ItemsAreLevels, FS_Subset
  <1>2. PICK s : s = Ordered(rows, LeastStockFirst)
    OBVIOUS
  <1>3. PICK before : before = [x \in rows |-> {y \in rows : LeastStockFirst(y, x)}]
    OBVIOUS
  <1>4. OrdersRows(before, rows) /\ RanksRows(s, before, rows)
    BY <1>1, <1>2, <1>3, StockIsOrdered
  <1>5. shown = Page(s, 1, 0)
    BY <1>2, Zenon DEF StockPreview, First
  <1>6. PICK N \in Nat : N = Len(s) /\ N = Cardinality(rows) /\ IsList(s)
    BY <1>4 DEF RanksRows, IsList
  <1>7. /\ IsList(shown) /\ Len(shown) = IF 1 < N THEN 1 ELSE N
        /\ \A i \in 1 .. Len(shown) : i \in 1 .. N /\ shown[i] = s[i]
    <2>1. 1 \in Nat
      OBVIOUS
    <2>2. /\ IsList(shown) /\ Len(shown) = IF 1 < Len(s) THEN 1 ELSE Len(s)
          /\ \A i \in 1 .. Len(shown) : i \in 1 .. Len(s) /\ shown[i] = s[i]
      BY ONLY <1>5, <1>6, <2>1, FirstRows
    <2>3. QED
      BY <1>6, <2>2
  <1>8. shown = <<>> <=> N = 0
    <2>1. shown = SubSeq(s, 1, IF 1 < N THEN 1 ELSE N)
      BY <1>5, <1>6 DEF Page
    <2>2. CASE N = 0
      BY <2>1, <2>2
    <2>3. CASE N # 0
      BY <1>7, <2>3
    <2>4. QED
      BY <2>2, <2>3
  <1>9. ASSUME NEW p \in ToSet(shown)
        PROVE  p \in rows /\ \A q \in rows : ~(items[q].current < items[p].current)
    <2>1. PICK i \in DOMAIN shown : p = shown[i]
      BY <1>9 DEF ToSet
    <2>2. i = 1 /\ 1 \in 1 .. N /\ p = s[1]
      BY <1>7, <2>1 DEF IsList
    <2>3. p \in rows /\ Cardinality(before[p]) = 0
      BY <1>4, <1>6, <2>2 DEF RanksRows
    <2>4. before[p] = {}
      <3>1. IsFiniteSet(before[p])
        BY <1>1, <1>4, <2>3, FS_Subset DEF OrdersRows
      <3>2. QED
        BY <2>3, <3>1, FS_EmptySet
    <2>5. ASSUME NEW q \in rows, items[q].current < items[p].current PROVE FALSE
      <3>1. LeastStockFirst(q, p)
        BY <2>5 DEF LeastStockFirst
      <3>2. QED
        BY <1>3, <2>3, <2>4, <3>1
    <2>6. QED
      BY <2>3, <2>5
  <1>10. QED
    BY <1>6, <1>8, <1>9

\* A row of a report, with the status that its product has
LEMMA RiskReportRows ==
    ASSUME IInv, NEW user, NEW category, NEW status \in StockStatuses, NEW rows,
           rows = StockReportRows(user, category, status),
           NEW shown, shown = {[product |-> p, status |-> StockStatus(items[p])] : p \in rows}
    PROVE  /\ \A row \in shown : row.status = status
           /\ Cardinality(shown) = Cardinality(rows)
  <1>1. rows \in SUBSET ItemsOf(user) /\ IsFiniteSet(rows)
    BY ItemsAreLevels, FS_Subset DEF StockReportRows
  <1>2. ASSUME NEW p \in rows PROVE StockStatus(items[p]) = status
    <2>1. status = None \/ ReportCondition(status, items[p])
      BY DEF StockReportRows
    <2>2. QED
      BY <1>1, <2>1, ItemsAreLevels, SameConditions, ScreensAssumption
  <1>3. PICK f : f = [p \in rows |-> [product |-> p, status |-> StockStatus(items[p])]]
    OBVIOUS
  <1>4. \A p \in rows : f[p].product = p /\ f[p].status = StockStatus(items[p])
    BY <1>3
  <1>5. shown = {f[p] : p \in rows}
    BY <1>3
  <1>6. f \in Bijection(rows, shown)
    <2>1. f \in [rows -> shown] /\ \A y \in shown : \E p \in rows : f[p] = y
      BY <1>3, <1>5
    <2>2. \A p, q \in rows : f[p] = f[q] => p = q
      BY <1>4
    <2>3. QED
      BY <2>1, <2>2 DEF Bijection, Injection, Surjection, IsInjective
  <1>7. Cardinality(shown) = Cardinality(rows)
    BY <1>1, <1>6, FS_Bijection DEF ExistsBijection
  <1>8. QED
    BY <1>2, <1>4, <1>5, <1>7

LEMMA StockReportAgrees ==
    ASSUME IInv, NEW user, NEW status \in StockStatuses,
           NEW category \in {None} \cup {Category[p] : p \in Products},
           NEW rows, rows = StockReportRows(user, category, status),
           NEW report, report = InventoryRiskReport(user, category, status)
    PROVE  /\ report # NotFound =>
               /\ \A row \in report.rows : row.status = status
               /\ AllOf(report.summary) = Cardinality(report.rows)
           /\ report = NotFound => rows = {}
           /\ status \in {"inactive", "out_of_stock"} => rows = ListedItems(user, category, status)
           /\ status = "healthy" => rows = ListedItems(user, category, "in_stock")
  <1>1. rows = {p \in ItemsOf(user) : category \in {None, Category[p]}
                                      /\ (status = None \/ ReportCondition(status, items[p]))}
    BY DEF StockReportRows
  <1>2. status # None /\ "in_stock" # None
    BY ScreensAssumption
  <1>3. PICK shown, summary :
          /\ shown = {[product |-> p, status |-> StockStatus(items[p])] : p \in rows}
          /\ summary = StockReportCounts(user, category, status)
    OBVIOUS
  <1>4. /\ \A row \in shown : row.status = status
        /\ AllOf(summary) = Cardinality(shown)
    BY <1>3, RiskReportRows, ReportCountsRows
  <1>5. ASSUME Visible(user, None, None, category)
        PROVE  /\ \A row \in report.rows : row.status = status
               /\ AllOf(report.summary) = Cardinality(report.rows)
               /\ report # NotFound
    <2>1. report = [summary |-> summary, rows |-> shown]
      BY <1>3, <1>5, Zenon DEF InventoryRiskReport
    <2>2. report.rows = shown /\ report.summary = summary /\ DOMAIN report = {"summary", "rows"}
      BY <2>1
    <2>3. report # NotFound
      BY <2>2 DEF NotFound
    <2>4. QED
      BY <1>4, <2>2, <2>3
  <1>6. ASSUME ~Visible(user, None, None, category) PROVE report = NotFound /\ rows = {}
    <2>1. report = NotFound
      BY <1>6, Zenon DEF InventoryRiskReport
    <2>2. category # None /\ CategoryOwner[category] # user
      BY <1>6 DEF Visible
    <2>3. ASSUME NEW p \in rows PROVE FALSE
      <3>1. p \in Products /\ Owner[p] = user /\ category = Category[p]
        BY <1>1, <2>2, ItemsAreLevels
      <3>2. QED
        BY <2>2, <3>1, ScreensAssumption
    <2>4. QED
      BY <2>1, <2>3
  <1>7. ASSUME status \in {"inactive", "out_of_stock"} PROVE rows = ListedItems(user, category, status)
    <2>1. CASE status = "inactive"
      BY <1>1, <1>2, <2>1 DEF ListedItems, ReportCondition
    <2>2. CASE status = "out_of_stock"
      BY <1>1, <1>2, <2>2 DEF ListedItems, ReportCondition
    <2>3. QED
      BY <1>7, <2>1, <2>2
  <1>8. ASSUME status = "healthy" PROVE rows = ListedItems(user, category, "in_stock")
    BY <1>1, <1>2, <1>8 DEF ListedItems, ReportCondition
  <1>9. QED
    BY ONLY <1>5, <1>6, <1>7, <1>8, Zenon

LEMMA StockAgrees == ASSUME IInv, NEW user \in Users PROVE StockScreensAgree(user)
  <1>1. PICK I : I = ItemsOf(user)
    OBVIOUS
  <1>2. /\ I \subseteq Products /\ IsFiniteSet(I)
        /\ \A p \in I : /\ items[p] \in Levels /\ Owner[p] = user
                        /\ items[p].current \in Nat /\ items[p].minimum \in Nat
                        /\ items[p].active \in BOOLEAN
    BY <1>1, ItemsAreLevels
  <1>3. PICK counts : counts = DashboardStock(user)
    OBVIOUS
  <1>4. /\ DOMAIN counts = StockStatuses
        /\ \A status \in StockStatuses :
               counts[status] = Cardinality({p \in I : DashboardCondition(status, items[p])})
    BY <1>1, <1>3, Zenon DEF DashboardStock
  <1>5. counts = StockReportCounts(user, None, None) /\ StockReportRows(user, None, None) = I
    <2>1. StockReportRows(user, None, None) = I
      BY <1>1, Zenon DEF StockReportRows
    <2>2. StockReportCounts(user, None, None) = [counted \in StockStatuses |->
              Cardinality({p \in I : ReportCondition(counted, items[p])})]
      BY <2>1, Zenon DEF StockReportCounts
    <2>3. ASSUME NEW status \in StockStatuses
          PROVE  counts[status] = Cardinality({p \in I : ReportCondition(status, items[p])})
      <3>1. {p \in I : DashboardCondition(status, items[p])} = {p \in I : ReportCondition(status, items[p])}
        BY <1>2, SameConditions
      <3>2. QED
        BY <1>4, <3>1
    <2>4. counts = [status \in StockStatuses |-> counts[status]]
      BY <1>3, Zenon DEF DashboardStock
    <2>5. QED
      BY <2>1, <2>2, <2>3, <2>4, Zenon
  <1>6. AllOf(counts) = InventorySummary(user, 0).items
    <2>1. InventorySummary(user, 0).items = Cardinality(I)
      BY <1>1, Zenon DEF InventorySummary
    <2>2. QED
      BY <1>5, <2>1, ReportCountsRows
  <1>7. PICK low, out, both :
          /\ low = {p \in I : DashboardCondition("low_stock", items[p])}
          /\ out = {p \in I : DashboardCondition("out_of_stock", items[p])}
          /\ both = LowStock(user)
    OBVIOUS
  <1>8. ASSUME NEW p \in I
        PROVE  /\ p \in low <=> items[p].active /\ 0 < items[p].current
                                /\ items[p].current <= items[p].minimum
               /\ p \in out <=> items[p].active /\ items[p].current = 0
               /\ p \in both <=> items[p].active /\ items[p].current <= items[p].minimum
    BY <1>1, <1>7 DEF DashboardCondition, LowStock
  <1>9. low \in SUBSET I /\ out \in SUBSET I /\ both \in SUBSET I
    BY <1>1, <1>7 DEF LowStock
  <1>10. both = low \cup out /\ low \cap out = {}
    BY <1>2, <1>8, <1>9
  <1>11. /\ counts["low_stock"] = Cardinality(low) /\ counts["out_of_stock"] = Cardinality(out)
         /\ Cardinality(low) \in Nat /\ Cardinality(out) \in Nat
         /\ Cardinality(both) = Cardinality(low) + Cardinality(out)
    <2>1. IsFiniteSet(low) /\ IsFiniteSet(out)
      BY <1>2, <1>9, FS_Subset
    <2>2. Cardinality(low) \in Nat /\ Cardinality(out) \in Nat /\ Cardinality(low \cap out) = 0
      BY <1>10, <2>1, FS_CardinalityType, FS_EmptySet
    <2>3. Cardinality(low \cup out) = Cardinality(low) + Cardinality(out) - Cardinality(low \cap out)
      BY <2>1, FS_Union
    <2>4. "low_stock" \in StockStatuses /\ "out_of_stock" \in StockStatuses
      BY DEF StockStatuses
    <2>5. QED
      BY <1>4, <1>7, <1>10, <2>2, <2>3, <2>4
  <1>12. InventorySummary(user, 0).out = counts["out_of_stock"]
    <2>1. InventorySummary(user, 0).out = Cardinality({p \in I : items[p].active /\ items[p].current = 0})
      BY <1>1, Zenon DEF InventorySummary
    <2>2. out = {p \in I : items[p].active /\ items[p].current = 0}
      BY <1>8, <1>9
    <2>3. QED
      BY <1>11, <2>1, <2>2
  <1>13. InventorySummary(user, 0).low = counts["low_stock"] + counts["out_of_stock"]
    <2>1. InventorySummary(user, 0).low = Cardinality(both)
      BY <1>7, Zenon DEF InventorySummary
    <2>2. QED
      BY <1>11, <2>1
  <1>14. PICK risk : risk = InventoryRisk(user, 1)
    OBVIOUS
  <1>15. risk.low = StockPreview(user, "low_stock", 1) /\ risk.out = StockPreview(user, "out_of_stock", 1)
    BY <1>14, Zenon DEF InventoryRisk
  <1>16. /\ risk.low = <<>> <=> Cardinality(low) = 0
         /\ \A p \in ToSet(risk.low) :
                p \in low /\ \A q \in low : ~(items[q].current < items[p].current)
         /\ risk.out = <<>> <=> Cardinality(out) = 0
    BY <1>1, <1>7, <1>15, PreviewOf
  <1>17. (counts["low_stock"] > 0 <=> risk.low # <<>>) /\ (counts["out_of_stock"] > 0 <=> risk.out # <<>>)
    BY <1>11, <1>16
  <1>18. ASSUME NEW p \in ToSet(risk.low), NEW q \in LowStock(user),
                items[q].current < items[p].current
         PROVE  StockStatus(items[q]) = "out_of_stock"
    <2>1. q \in out /\ q \in I
      BY <1>7, <1>9, <1>10, <1>16, <1>18
    <2>2. QED
      BY <1>8, <2>1 DEF StockStatus
  <1>19. LowStock(user) = ListedItems(user, None, "low_stock")
    <2>1. "low_stock" # None
      BY ScreensAssumption DEF StockStatuses
    <2>2. QED
      BY <2>1 DEF LowStock, ListedItems
  <1>20. \A status \in StockStatuses, category \in {None} \cup {Category[p] : p \in Products} :
           LET rows == StockReportRows(user, category, status)
               report == InventoryRiskReport(user, category, status)
           IN
           /\ report # NotFound =>
               /\ \A row \in report.rows : row.status = status
               /\ AllOf(report.summary) = Cardinality(report.rows)
           /\ report = NotFound => rows = {}
           /\ status \in {"inactive", "out_of_stock"} => rows = ListedItems(user, category, status)
           /\ status = "healthy" => rows = ListedItems(user, category, "in_stock")
    <2> TAKE status \in StockStatuses, category \in {None} \cup {Category[p] : p \in Products}
    <2> DEFINE rows == StockReportRows(user, category, status)
               report == InventoryRiskReport(user, category, status)
    <2>1. /\ report # NotFound =>
              /\ \A row \in report.rows : row.status = status
              /\ AllOf(report.summary) = Cardinality(report.rows)
          /\ report = NotFound => rows = {}
          /\ status \in {"inactive", "out_of_stock"} => rows = ListedItems(user, category, status)
          /\ status = "healthy" => rows = ListedItems(user, category, "in_stock")
      <3> HIDE DEF rows, report
      <3>1. QED
        BY StockReportAgrees, ZenonT(60) DEF rows, report
    <2>2. QED
      BY ONLY <2>1, Zenon
  <1>21. \A p \in ToSet(risk.low) : \A q \in LowStock(user) :
            items[q].current < items[p].current => StockStatus(items[q]) = "out_of_stock"
    BY <1>18
  <1>22. QED
    BY <1>3, <1>5, <1>6, <1>12, <1>13, <1>14, <1>17, <1>19, <1>20, <1>21, Zenon DEF StockScreensAgree

-----------------------------------------------------------------------------
(* Forecasts                                                               *)

LEMMA RunsAreFinite ==
    ASSUME NEW user
    PROVE  /\ RunsOf(user) \subseteq Runs /\ IsFiniteSet(RunsOf(user))
           /\ CompletedRuns(user) \subseteq RunsOf(user) /\ IsFiniteSet(CompletedRuns(user))
           /\ \A run \in RunsOf(user) : Owner[run] = user /\ run # None
  <1>1. /\ RunsOf(user) \subseteq Runs /\ CompletedRuns(user) \subseteq RunsOf(user)
        /\ \A run \in RunsOf(user) : Owner[run] = user
    BY DEF RunsOf, CompletedRuns
  <1>2. IsFiniteSet(RunsOf(user)) /\ IsFiniteSet(CompletedRuns(user))
    BY <1>1, RecommendationsAssumption, FS_Subset
  <1>3. QED
    BY <1>1, <1>2, InsightsAssumption

\* The run of which the dashboard shows the forecast has one.
LEMMA LatestCompletedIs ==
    ASSUME IInv, TablesInv, NEW user, NEW run, run = LatestCompletedRun(user)
    PROVE  /\ CompletedRuns(user) = {} => run = None
           /\ CompletedRuns(user) # {} =>
                  run \in CompletedRuns(user) /\ run # None /\ ResultsReady(run)
  <1>1. CASE CompletedRuns(user) = {}
    BY <1>1 DEF LatestCompletedRun
  <1>2. CASE CompletedRuns(user) # {}
    <2>1. PICK T : T = {runs[r].updated : r \in CompletedRuns(user)}
      OBVIOUS
    <2>2. \A r \in CompletedRuns(user) : runs[r].updated \in Nat /\ runs[r].updated <= clock
      BY RunsAreFinite DEF IInv, WorldOK, TablesInv
    <2>3. T \subseteq Nat /\ T # {} /\ \A t \in T : t <= clock
      BY <1>2, <2>1, <2>2
    <2>4. PICK m \in T : \A t \in T : m >= t
      BY <2>3, GreatestNatural DEF IInv, WorldOK
    <2>5. PICK r \in CompletedRuns(user) : runs[r].updated = m
      BY <2>1
    <2>6. \A other \in CompletedRuns(user) : runs[other].updated <= runs[r].updated
      BY <2>1, <2>2, <2>3, <2>4, <2>5
    <2>7. run \in CompletedRuns(user)
      BY <1>2, <2>6 DEF LatestCompletedRun
    <2>8. run \in Runs /\ runs[run].status = "completed" /\ run # None
      BY <2>7, RunsAreFinite DEF CompletedRuns
    <2>9. QED
      BY <1>2, <2>7, <2>8 DEF ResultsReady, Predicted, TablesInv
  <1>3. QED
    BY <1>1, <1>2

LEMMA PerformanceRowsAre ==
    ASSUME NEW user, NEW rows, rows = PerformanceRows(user, None)
    PROVE  /\ IsList(rows) /\ Len(rows) = Cardinality(CompletedRuns(user))
           /\ ToSet(rows) = CompletedRuns(user)
  <1>1. PICK shown : shown = CompletedRuns(user)
    OBVIOUS
  <1>2. IsFiniteSet(shown) /\ \A r \in shown : r \in Runs /\ Owner[r] = user
    BY <1>1, RunsAreFinite
  <1>3. shown = {r \in RunsOf(user) : None \in {None, r} /\ RunMetrics(r) # NotFound}
    <2>1. ASSUME NEW r PROVE RunMetrics(r) # NotFound <=> runs[r].status = "completed"
      BY DEF RunMetrics, NotFound
    <2>2. QED
      BY <1>1, <2>1 DEF CompletedRuns
  <1>4. PICK before : before = [x \in shown |-> {y \in shown : RequestedLast(y, x)}]
    OBVIOUS
  <1>5. \A x \in shown : before[x] = {y \in shown : RequestedLast(y, x)}
    BY <1>4
  <1>6. \A x, y \in shown : y \in before[x] <=> Requested[y] > Requested[x]
    BY <1>5, Zenon DEF RequestedLast
  <1>7. \A x \in shown : before[x] \subseteq shown
    BY <1>5
  <1>8. OrdersRows(before, shown)
    <2>1. \A x, y \in shown : Requested[x] \in Int /\ (x # y => Requested[x] # Requested[y])
      BY <1>2, InsightsAssumption
    <2>2. QED
      BY <1>6, <1>7, <2>1 DEF OrdersRows
  <1>9. rows = [n \in 1 .. Cardinality(shown) |-> CHOOSE x \in shown : Cardinality(before[x]) = n - 1]
    <2>1. rows = Ordered(shown, RequestedLast)
      BY <1>3, Zenon DEF PerformanceRows
    <2>2. QED
      BY <1>4, <2>1 DEF Ordered
  <1>10. RanksRows(rows, before, shown)
    BY <1>2, <1>8, <1>9, RowsByRank
  <1>11. \A x \in shown : \E n \in 1 .. Len(rows) : rows[n] = x
    BY <1>2, <1>8, <1>10, RankedRows
  <1>12. IsList(rows) /\ Len(rows) = Cardinality(shown) /\ \A n \in 1 .. Len(rows) : rows[n] \in shown
    BY <1>10 DEF RanksRows, IsList
  <1>13. ToSet(rows) = shown
    BY <1>11, <1>12 DEF ToSet, IsList
  <1>14. QED
    BY <1>1, <1>12, <1>13

\* Runs by status: what the dashboard shows
LEMMA RunsAreCounted ==
    ASSUME NEW user
    PROVE  /\ Kpis(user).runs = Cardinality(RunsOf(user))
           /\ Kpis(user).completed = Cardinality(CompletedRuns(user))
  <1>1. PICK S : S = RunsOf(user)
    OBVIOUS
  <1>2. PICK status : status = [run \in S |-> runs[run].status]
    OBVIOUS
  <1>3. PICK K : K = {status[run] : run \in S}
    OBVIOUS
  <1>4. PICK counts : counts = RunCounts(user)
    OBVIOUS
  <1>5. PICK part : part = [k \in K |-> {run \in S : runs[run].status = k}]
    OBVIOUS
  <1>6. IsFiniteSet(S) /\ IsFiniteSet(K) /\ \A run \in S : status[run] \in K
    BY <1>1, <1>2, <1>3, RunsAreFinite, FiniteImage
  <1>7. counts = [k \in K |-> Cardinality({run \in S : runs[run].status = k})]
    <2>1. K = {runs[run].status : run \in S}
      BY <1>2, <1>3
    <2>2. QED
      BY <1>1, <1>4, <2>1, Zenon DEF RunCounts
  <1>8. DOMAIN counts = K
        /\ \A k \in K : /\ part[k] \subseteq S /\ counts[k] = Cardinality(part[k])
                        /\ \A run \in S : run \in part[k] <=> status[run] = k
    BY <1>2, <1>5, <1>7
  <1>9. AllOf(counts) = Cardinality(S)
    <2>1. SumFunctionOnSet(counts, K) = Cardinality(S)
      BY ONLY <1>6, <1>8, CountByKind
    <2>2. QED
      BY <1>6, <1>8, <2>1, AllOfIs
  <1>10. Kpis(user).runs = AllOf(counts)
    <2>1. Kpis(user).runs = SumFunction([k \in DOMAIN counts |-> counts[k]])
      BY <1>4, Zenon DEF Kpis, Total
    <2>2. AllOf(counts) = SumFunction([k \in DOMAIN counts |-> counts[k]])
      BY Zenon DEF AllOf, Total
    <2>3. QED
      BY <2>1, <2>2
  <1>11. Kpis(user).completed = IF "completed" \in DOMAIN counts THEN counts["completed"] ELSE 0
    BY <1>4, Zenon DEF Kpis
  <1>12. CompletedRuns(user) = {run \in S : runs[run].status = "completed"}
    BY <1>1 DEF CompletedRuns
  <1>13. CASE "completed" \in K
    BY <1>1, <1>7, <1>8, <1>9, <1>10, <1>11, <1>12, <1>13
  <1>14. CASE "completed" \notin K
    <2>1. CompletedRuns(user) = {}
      BY <1>2, <1>3, <1>12, <1>14
    <2>2. QED
      BY <1>1, <1>8, <1>9, <1>10, <1>11, <1>14, <2>1, FS_EmptySet
  <1>15. QED
    BY <1>13, <1>14

\* The best is not worse than the latest.
LEMMA BestOf ==
    ASSUME NEW rows, NEW run \in ToSet(rows), ToSet(rows) \subseteq Runs, Mape[run] # None
    PROVE  BestMape(rows) <= Mape[run]
  <1>1. PICK measured : measured = {Mape[r] : r \in ToSet(rows)} \ {None}
    OBVIOUS
  <1>2. Mape[run] \in measured /\ measured \subseteq Nat
    BY <1>1, ScreensAssumption
  <1>3. PICK m \in measured : \A n \in measured : m <= n
    BY <1>2, LeastNatural
  <1>4. BestMape(rows) = Min(measured)
    BY <1>1, <1>2 DEF BestMape
  <1>5. Min(measured) = CHOOSE x \in measured : \A y \in measured : x <= y
    BY Zenon DEF Min
  <1>6. QED
    BY <1>2, <1>3, <1>4, <1>5

LEMMA ForecastsAgree ==
    ASSUME IInv, TablesInv, NEW user
    PROVE  ForecastScreensAgree(user)
  <1>1. PICK run, kpis, report, rows : /\ run = LatestCompletedRun(user) /\ kpis = Kpis(user)
                                       /\ report = ModelPerformanceReport(user, None)
                                       /\ rows = PerformanceRows(user, None)
    OBVIOUS
  <1>2. PICK done : done = CompletedRuns(user)
    OBVIOUS
  <1>3. /\ IsFiniteSet(done) /\ done \subseteq Runs
        /\ \A r \in done : Owner[r] = user
        /\ done = {} => run = None
        /\ done # {} => run \in done /\ run # None /\ ResultsReady(run)
    BY <1>1, <1>2, RunsAreFinite, LatestCompletedIs
  <1>4. IsList(rows) /\ Len(rows) = Cardinality(done) /\ ToSet(rows) = done
    BY <1>1, <1>2, PerformanceRowsAre
  <1>5. /\ report.summary = PerformanceReport(user, None) /\ report.rows = rows
        /\ report.best = BestMape(rows)
        /\ report.latest = IF rows = <<>> THEN None ELSE Mape[rows[1]]
    <2>1. Visible(user, None, None, None)
      BY DEF Visible
    <2>2. report = [summary |-> PerformanceReport(user, None), rows |-> rows, best |-> BestMape(rows),
                    latest |-> IF rows = <<>> THEN None ELSE Mape[rows[1]]]
      BY <1>1, <2>1, Zenon DEF ModelPerformanceReport
    <2>3. QED
      BY <2>2, Zenon
  <1>6. run = None => ForecastOverview(user) = NothingPredicted
    BY <1>1 DEF ForecastOverview
  <1>7. run # None => ForecastOverview(user) = ResultOf(user, run)
    BY <1>1, <1>3, Zenon DEF ForecastOverview, ResultOf, ReadyRun, ResultOverview
  <1>8. report.summary.total = kpis.runs
    <2>1. PerformanceReport(user, None).total = Cardinality({r \in RunsOf(user) : None \in {None, r}})
      BY Zenon DEF PerformanceReport
    <2>2. {r \in RunsOf(user) : None \in {None, r}} = RunsOf(user)
      OBVIOUS
    <2>3. QED
      BY <1>1, <1>5, <2>1, <2>2, RunsAreCounted
  <1>9. report.summary.completed = kpis.completed /\ Len(rows) = kpis.completed
    <2>1. PICK shown : shown = {r \in RunsOf(user) : None \in {None, r}}
      OBVIOUS
    <2>2. PerformanceReport(user, None).completed
              = Cardinality({r \in shown : runs[r].status = "completed"})
      BY <2>1, Zenon DEF PerformanceReport
    <2>3. {r \in shown : runs[r].status = "completed"} = done
      BY <1>2, <2>1 DEF CompletedRuns
    <2>4. QED
      BY <1>1, <1>2, <1>4, <1>5, <2>2, <2>3, RunsAreCounted
  <1>10. kpis.mape = IF run = None THEN None ELSE RunMetrics(run).mape
    BY <1>1, Zenon DEF Kpis, LatestMape
  <1>11. run # None => RunMetrics(run).mape = Mape[run]
    BY <1>3 DEF ResultsReady, RunMetrics
  <1>12. ASSUME kpis.mape # None PROVE report.best <= kpis.mape
    <2>1. run # None /\ kpis.mape = Mape[run]
      BY <1>10, <1>11, <1>12
    <2>2. run \in ToSet(rows) /\ ToSet(rows) \subseteq Runs
      BY <1>3, <1>4, <2>1
    <2>3. BestMape(rows) <= Mape[run]
      BY <1>12, <2>1, <2>2, BestOf
    <2>4. QED
      BY <1>5, <2>1, <2>3
  <1>13. ASSUME kpis.completed = 1 PROVE report.latest = kpis.mape
    <2>1. Cardinality(done) = 1 /\ Len(rows) = 1
      BY <1>1, <1>2, <1>4, <1>13, RunsAreCounted
    <2>2. PICK r : done = {r}
      BY <1>3, <2>1, FS_Singleton
    <2>3. run = r /\ run # None
      BY <1>3, <2>2
    <2>4. rows[1] = r
      BY <1>4, <2>1, <2>2 DEF ToSet, IsList
    <2>5. rows # <<>>
      BY <2>1
    <2>6. QED
      BY <1>5, <1>10, <1>11, <2>3, <2>4, <2>5
  <1>14. QED
    BY <1>1, <1>5, <1>6, <1>7, <1>8, <1>9, <1>12, <1>13, Zenon DEF ForecastScreensAgree

-----------------------------------------------------------------------------
(* Other users' data                                                       *)

\* A list is of whole rows of the user.
LEMMA ListTotal ==
    ASSUME NEW user, NEW f, NEW n, NEW k, NEW list, list = RecommendationList(user, f, n, k)
    PROVE  list.total = Cardinality(ListedRecommendations(user, f))
  BY Zenon DEF RecommendationList

LEMMA OfRunOnlyIs ==
    ASSUME NEW run, NEW f, f = OfRunOnly(run)
    PROVE  /\ f.run = run /\ f.product = None /\ f.category = None
           /\ f.risk = None /\ f.status = None /\ f.action = None
  BY DEF OfRunOnly

LEMMA StrangersAgree == ASSUME IInv, NEW user PROVE StrangersSeeNothing(user)
  <1>1. ASSUME NEW run \in Runs \ RunsOf(user)
        PROVE  /\ Owner[run] # user /\ run # None
               /\ ~Visible(user, run, None, None)
               /\ ~ReadyRun(user, run)
    BY InsightsAssumption DEF RunsOf, Visible, ReadyRun
  <1>2. ASSUME NEW run \in Runs \ RunsOf(user)
        PROVE  /\ ResultOf(user, run) = NotFound /\ MetricsOf(user, run) = NotFound
               /\ SummaryOf(user, run) = NotFound /\ DashboardSummary(user, run) = NotFound
               /\ ReorderAlerts(user, run, None, None, 1) = NotFound
               /\ ModelPerformanceReport(user, run) = NotFound
               /\ RunRecommendations(user, OfRunOnly(run), 1, 0) = NotFound
               /\ DemandForecastReport(user, run, None, None, {}) = NotFound
    <2>1. ResultOf(user, run) = NotFound /\ MetricsOf(user, run) = NotFound
      BY <1>1 DEF ResultOf, MetricsOf
    <2>2. SummaryOf(user, run) = NotFound
      BY <1>1 DEF SummaryOf
    <2>3. DashboardSummary(user, run) = NotFound
      BY <1>1, Zenon DEF DashboardSummary
    <2>4. ReorderAlerts(user, run, None, None, 1) = NotFound
      BY <1>1, Zenon DEF ReorderAlerts
    <2>5. ModelPerformanceReport(user, run) = NotFound
      BY <1>1, Zenon DEF ModelPerformanceReport
    <2>6. RunRecommendations(user, OfRunOnly(run), 1, 0) = NotFound
      BY <1>1, OfRunOnlyIs, Zenon DEF RunRecommendations
    <2>7. DemandForecastReport(user, run, None, None, {}) = NotFound
      BY <1>1, Zenon DEF DemandForecastReport
    <2>8. QED
      BY <2>1, <2>2, <2>3, <2>4, <2>5, <2>6, <2>7
  <1>3. ASSUME NEW run \in Runs \ RunsOf(user)
        PROVE  RecommendationList(user, OfRunOnly(run), 1, 0).total = 0
    <2>1. ListedRecommendations(user, OfRunOnly(run)) = {}
      <3>1. PICK f : f = OfRunOnly(run)
        OBVIOUS
      <3>2. f.run = run
        BY <3>1, OfRunOnlyIs
      <3>3. QED
        BY <1>1, <3>1, <3>2 DEF ListedRecommendations
    <2>2. QED
      BY <2>1, ListTotal, FS_EmptySet
  <1>4. ASSUME NEW r \in recs
        PROVE  Owner[r.product] = user <=> RecommendationOf(user, r) # NotFound
    <2>1. r \in Rows /\ Owner[r.run] = Owner[r.product]
      BY DEF IInv, RowOK
    <2>2. r # NotFound
      BY <2>1 DEF Rows, NotFound
    <2>3. QED
      BY <2>1, <2>2 DEF RecommendationOf
  <1>5. \A run \in Runs \ RunsOf(user) :
          {ResultOf(user, run), SummaryOf(user, run), ReorderAlerts(user, run, None, None, 1),
           ModelPerformanceReport(user, run), MetricsOf(user, run), DashboardSummary(user, run),
           RunRecommendations(user, OfRunOnly(run), 1, 0),
           DemandForecastReport(user, run, None, None, {})} = {NotFound}
    BY <1>2
  <1>6. QED
    BY <1>3, <1>4, <1>5, Zenon DEF StrangersSeeNothing

-----------------------------------------------------------------------------
(* Summaries of recommendations                                            *)

LEMMA RowsOfRun ==
    ASSUME IInv, NEW user, NEW run \in RunsOf(user),
           NEW rows, rows = {r \in recs : Owner[r.run] = user /\ r.run = run}
    PROVE  /\ IsFiniteSet(rows) /\ rows \subseteq Rows /\ rows = OfRun(run)
           /\ rows = ListedRecommendations(user, OfRunOnly(run))
           /\ rows = ReorderReportRows(user, run, None, None)
  <1>1. run # None /\ Owner[run] = user
    BY RunsAreFinite
  <1>2. IsFiniteSet(rows) /\ rows \subseteq Rows
    BY RecommendationsAreFinite, FS_Subset DEF IInv
  <1>3. \A r \in recs : Owner[r.run] = Owner[r.product]
    BY DEF IInv, RowOK
  <1>4. rows = ListedRecommendations(user, OfRunOnly(run))
    <2>1. PICK f : f = OfRunOnly(run)
      OBVIOUS
    <2>2. /\ f.run = run /\ f.product = None /\ f.category = None
          /\ f.risk = None /\ f.status = None /\ f.action = None
      BY <2>1, OfRunOnlyIs
    <2>3. rows = ListedRecommendations(user, f)
      BY <1>1, <1>3, <2>2 DEF ListedRecommendations
    <2>4. QED
      BY <2>1, <2>3
  <1>5. rows = ReorderReportRows(user, run, None, None)
    BY <1>1 DEF ReorderReportRows
  <1>6. QED
    BY <1>1, <1>2, <1>4, <1>5 DEF OfRun

\* The recommendations of a run are for all that it predicted.
LEMMA DemandOfRun ==
    ASSUME IInv, TablesInv, NEW run \in Runs, NEW rows, rows = OfRun(run), rows # {},
           NEW need, need = [r \in rows |-> r.predicted_demand]
    PROVE  /\ ResultsReady(run)
           /\ SumFunction(need) = Outlook(Predicted(run)).demand
  <1>1. /\ runs[run].status = "completed"
        /\ {r.product : r \in rows} = Forecasted(run)
        /\ \A r, s \in rows : r.product = s.product => r = s
    BY DEF IInv, OneGeneration
  <1>2. PICK P : P = Predicted(run)
    OBVIOUS
  <1>3. P = Forecasts[run] /\ IsFiniteSet(P) /\ \A f \in P : f.demand \in Int
    BY <1>1, <1>2, RecommendationsAssumption DEF Predicted
  <1>4. Forecasted(run) = {f.product : f \in P}
    BY <1>2 DEF Forecasted
  <1>5. ResultsReady(run)
    BY <1>1, <1>2, <1>4 DEF ResultsReady
  <1>6. PICK demand, of, part :
          /\ demand = [f \in P |-> f.demand]
          /\ of = [f \in P |-> CHOOSE r \in rows : r.product = f.product]
          /\ part = [r \in rows |-> {f \in P : f.product = r.product}]
    OBVIOUS
  <1>7. \A f \in P : of[f] \in rows /\ of[f].product = f.product
    <2>1. ASSUME NEW f \in P PROVE \E r \in rows : r.product = f.product
      <3>1. f.product \in {r.product : r \in rows}
        BY <1>1, <1>4
      <3>2. QED
        BY <3>1
    <2>2. \A f \in P : of[f] = CHOOSE r \in rows : r.product = f.product
      BY <1>6
    <2>3. QED
      BY <2>1, <2>2
  <1>8. \A r \in rows : /\ part[r] \subseteq P
                        /\ \A f \in P : f \in part[r] <=> of[f] = r
    BY <1>1, <1>6, <1>7
  <1>9. ASSUME NEW r \in rows PROVE need[r] = SumFunctionOnSet(demand, part[r])
    <2>1. r \in recs /\ r.run = run /\ need[r] = r.predicted_demand
      BY DEF OfRun
    <2>2. need[r] = DemandOf(P, r.product)
      BY <1>3, <2>1 DEF TablesInv, OfForecast
    <2>3. PICK d : d = [f \in part[r] |-> f.demand]
      OBVIOUS
    <2>4. part[r] = {f \in P : f.product = r.product}
      BY <1>6
    <2>5. DemandOf(P, r.product) = SumFunction(d)
      BY <2>3, <2>4, Zenon DEF DemandOf
    <2>6. SumFunction(d) = SumFunctionOnSet(d, part[r])
      BY <2>3, SumIs
    <2>7. IsFiniteSet(part[r]) /\ \A f \in part[r] : d[f] = demand[f]
      BY <1>3, <1>6, <1>8, <2>3, FS_Subset
    <2>8. SumFunctionOnSet(d, part[r]) = SumFunctionOnSet(demand, part[r])
      BY <2>7, SumSame
    <2>9. QED
      BY <2>2, <2>5, <2>6, <2>8
  <1>10. IsFiniteSet(rows)
    BY RecommendationsAreFinite, FS_Subset DEF OfRun
  <1>11. SumFunctionOnSet(need, rows) = SumFunctionOnSet(demand, P)
    <2>1. \A f \in P : demand[f] \in Int /\ of[f] \in rows
      BY <1>3, <1>6, <1>7
    <2>2. \A r \in rows : need[r] = SumFunctionOnSet(demand, part[r])
      BY <1>9
    <2>3. QED
      BY ONLY <1>3, <1>8, <1>10, <2>1, <2>2, SumOfGroups
  <1>12. Outlook(P).demand = SumFunction(demand)
    BY <1>6, Zenon DEF Outlook, Total
  <1>13. SumFunction(demand) = SumFunctionOnSet(demand, P) /\ SumFunction(need) = SumFunctionOnSet(need, rows)
    BY <1>6, SumIs
  <1>14. QED
    BY <1>2, <1>5, <1>11, <1>12, <1>13

LEMMA SummariesAgree ==
    ASSUME IInv, TablesInv, NEW user, NEW run \in RunsOf(user)
    PROVE  SummaryAgrees(user, run)
  <1>1. run \in Runs /\ Owner[run] = user /\ Visible(user, run, None, None)
    BY RunsAreFinite DEF Visible
  <1>2. PICK rows : rows = {r \in recs : Owner[r.run] = user /\ r.run = run}
    OBVIOUS
  <1>3. /\ IsFiniteSet(rows) /\ rows = OfRun(run)
        /\ rows = ListedRecommendations(user, OfRunOnly(run))
        /\ rows = ReorderReportRows(user, run, None, None)
    BY <1>2, RowsOfRun
  <1>4. PICK summary, list, report :
          /\ summary = SummaryOf(user, run)
          /\ list = RunRecommendations(user, OfRunOnly(run), 1, 0)
          /\ report = ReorderSummaryReport(user, run, None, None)
    OBVIOUS
  <1>5. summary = IF rows = {} THEN NotFound
                  ELSE [total |-> Cardinality(rows), reorder |-> ReorderTotal(rows),
                        risks |-> RiskCounts(rows),
                        demand |-> Total(rows, LAMBDA r : r.predicted_demand),
                        stock |-> Total(rows, LAMBDA r : r.current_stock)]
    BY <1>1, <1>2, <1>4, Zenon DEF SummaryOf, RunSummary
  <1>6. PICK all : all = RecommendationList(user, OfRunOnly(run), 1, 0)
    OBVIOUS
  <1>7. all # NotFound /\ all.total = Cardinality(rows)
    <2>1. PICK page : all = [rows |-> page, total |-> Cardinality(rows)]
      BY <1>3, <1>6, Zenon DEF RecommendationList
    <2>2. DOMAIN all = {"rows", "total"} /\ all.total = Cardinality(rows)
      BY <2>1
    <2>3. QED
      BY <2>2 DEF NotFound
  <1>8. list = IF Cardinality(rows) = 0 THEN NotFound ELSE all
    BY <1>1, <1>4, <1>6, <1>7, OfRunOnlyIs, Zenon DEF RunRecommendations
  <1>9. Cardinality(rows) = 0 <=> rows = {}
    BY <1>3, FS_EmptySet
  <1>10. report.counts = ReorderReport(user, run, None, None)
    BY <1>1, <1>4, Zenon DEF ReorderSummaryReport
  <1>11. report.counts.reorder = ReorderTotal(rows) /\ report.counts.risks = RiskCounts(rows)
    <2>1. PICK total, statuses :
            ReorderReport(user, run, None, None)
                = [total |-> total, reorder |-> ReorderTotal(rows), risks |-> RiskCounts(rows),
                   statuses |-> statuses]
      BY <1>3, Zenon DEF ReorderReport
    <2>2. QED
      BY <1>10, <2>1
  <1>12. CASE rows = {}
    <2>1. summary = NotFound /\ list = NotFound
      BY <1>5, <1>8, <1>9, <1>12, Zenon
    <2>2. QED
      BY <1>4, <2>1, Zenon DEF SummaryAgrees
  <1>13. CASE rows # {}
    <2>1. PICK need : need = [r \in rows |-> r.predicted_demand]
      OBVIOUS
    <2>2. PICK demand, stock : /\ demand = Total(rows, LAMBDA r : r.predicted_demand)
                               /\ stock = Total(rows, LAMBDA r : r.current_stock)
      OBVIOUS
    <2>3. demand = SumFunction(need)
      BY <2>1, <2>2, Zenon DEF Total
    <2>4. summary = [total |-> Cardinality(rows), reorder |-> ReorderTotal(rows),
                     risks |-> RiskCounts(rows), demand |-> demand, stock |-> stock]
      BY <1>5, <1>13, <2>2, Zenon
    <2>5. /\ summary.total = Cardinality(rows) /\ summary.reorder = ReorderTotal(rows)
          /\ summary.risks = RiskCounts(rows) /\ summary.demand = demand
          /\ DOMAIN summary = {"total", "reorder", "risks", "demand", "stock"}
      BY <2>4
    <2>6. summary # NotFound
      BY <2>5 DEF NotFound
    <2>7. list = all
      BY <1>8, <1>9, <1>13
    <2>8. ResultsReady(run) /\ SumFunction(need) = Outlook(Predicted(run)).demand
      BY <1>1, <1>3, <1>13, <2>1, DemandOfRun
    <2>9. summary.demand = ResultOf(user, run).demand
      BY <1>1, <2>3, <2>5, <2>8 DEF ResultOf, ReadyRun, ResultOverview
    <2>10. QED
      BY <1>4, <1>7, <1>11, <2>5, <2>6, <2>7, <2>9, Zenon DEF SummaryAgrees
  <1>14. QED
    BY <1>12, <1>13

-----------------------------------------------------------------------------
(* Forecast results, charts and the demand report                          *)

LEMMA PredictedIs ==
    ASSUME IInv, NEW user, NEW run \in RunsOf(user), ResultsReady(run)
    PROVE  /\ Owner[run] = user /\ run # None /\ IsFiniteSet(Predicted(run))
           /\ \A f \in Predicted(run) :
                 f.product \in Products /\ Owner[f.product] = user /\ f.demand \in Int
           /\ \A p \in Forecasted(run) : p \in Products /\ p # None /\ Owner[p] = user
           /\ IsFiniteSet(Forecasted(run))
  <1>1. PICK P : P = Predicted(run)
    OBVIOUS
  <1>2. run \in Runs /\ Owner[run] = user /\ run # None /\ P = Forecasts[run]
    BY <1>1, RunsAreFinite DEF ResultsReady, Predicted
  <1>3. /\ IsFiniteSet(P)
        /\ \A f \in P : f.product \in Products /\ Owner[f.product] = user /\ f.demand \in Int
    BY <1>2, RecommendationsAssumption
  <1>4. Forecasted(run) \subseteq Products /\ \A p \in Forecasted(run) : Owner[p] = user
    BY <1>1, <1>3 DEF Forecasted
  <1>5. QED
    BY <1>1, <1>2, <1>3, <1>4, InsightsAssumption, RecommendationsAssumption, FS_Subset

\* What the demand report has of a product (or of all), of some days
LEMMA ReportRows ==
    ASSUME IInv, NEW user, NEW run \in RunsOf(user), ResultsReady(run),
           NEW p \in {None} \cup Forecasted(run), NEW days,
           NEW rows, rows = DemandReportRows(user, run, p, None, days),
           NEW ordered, ordered = Ordered(rows, PredictionBefore),
           NEW report, report = DemandForecastReport(user, run, p, None, days)
    PROVE  /\ rows = {f \in Predicted(run) : p \in {None, f.product} /\ f.date \in days}
           /\ rows = ListedPredictions(user, run, p, None, days)
           /\ report.summary = Outlook(rows) /\ report.rows = ordered
           /\ Visible(user, run, p, None) /\ Visible(user, None, p, None)
  <1>1. Visible(user, run, p, None) /\ Visible(user, None, p, None)
    BY PredictedIs DEF Visible
  <1>2. rows = {f \in Predicted(run) : p \in {None, f.product} /\ f.date \in days}
    BY PredictedIs DEF DemandReportRows
  <1>3. rows = ListedPredictions(user, run, p, None, days)
    BY Zenon DEF DemandReportRows, ListedPredictions
  <1>4. PICK summary : summary = Outlook(rows)
    OBVIOUS
  <1>5. report = [summary |-> summary, rows |-> ordered]
    BY <1>1, <1>4, Zenon DEF DemandForecastReport, DemandReport
  <1>6. report.summary = summary /\ report.rows = ordered
    BY <1>5
  <1>7. QED
    BY <1>1, <1>2, <1>3, <1>4, <1>6, Zenon

LEMMA OutlookIs ==
    ASSUME NEW rows, NEW demand, demand = [f \in rows |-> f.demand]
    PROVE  /\ Outlook(rows).count = Cardinality(rows)
           /\ Outlook(rows).demand = SumFunctionOnSet(demand, rows)
  <1>1. Outlook(rows).count = Cardinality(rows)
    BY Zenon DEF Outlook
  <1>2. Outlook(rows).demand = SumFunction(demand)
    BY Zenon DEF Outlook, Total
  <1>3. QED
    BY <1>1, <1>2, SumIs

\* The demand for the products is the demand.
LEMMA DemandByProduct ==
    ASSUME IInv, NEW user, NEW run \in RunsOf(user), ResultsReady(run),
           NEW days, days = {f.date : f \in Predicted(run)}
    PROVE  Outlook(Predicted(run)).demand
           = SumFunction([p \in Forecasted(run) |->
                             DemandForecastReport(user, run, p, None, days).summary.demand])
  <1>1. PICK P, K : P = Predicted(run) /\ K = Forecasted(run)
    OBVIOUS
  <1>2. PICK demand, of, part, g :
          /\ demand = [f \in P |-> f.demand]
          /\ of = [f \in P |-> f.product]
          /\ part = [p \in K |-> {f \in P : f.product = p}]
          /\ g = [p \in K |-> DemandForecastReport(user, run, p, None, days).summary.demand]
    OBVIOUS
  <1>3. /\ IsFiniteSet(P) /\ IsFiniteSet(K)
        /\ \A f \in P : demand[f] \in Int
        /\ \A f \in P : of[f] \in K
    BY <1>1, <1>2, PredictedIs DEF Forecasted
  <1>4. \A p \in K : /\ part[p] \subseteq P
                     /\ \A f \in P : f \in part[p] <=> of[f] = p
    BY <1>2
  <1>5. ASSUME NEW p \in K PROVE g[p] = SumFunctionOnSet(demand, part[p])
    <2>1. PICK rows : rows = DemandReportRows(user, run, p, None, days)
      OBVIOUS
    <2>2. /\ rows = {f \in P : p \in {None, f.product} /\ f.date \in days}
          /\ DemandForecastReport(user, run, p, None, days).summary = Outlook(rows)
      BY <1>1, <2>1, ReportRows
    <2>3. rows = part[p] /\ p # None
      BY <1>1, <1>2, <2>2, PredictedIs
    <2>4. PICK d : d = [f \in rows |-> f.demand]
      OBVIOUS
    <2>5. g[p] = SumFunctionOnSet(d, rows)
      BY <1>2, <2>2, <2>4, OutlookIs
    <2>6. IsFiniteSet(rows) /\ \A f \in rows : d[f] = demand[f]
      BY <1>2, <1>3, <2>2, <2>4, FS_Subset
    <2>7. SumFunctionOnSet(d, rows) = SumFunctionOnSet(demand, rows)
      BY <2>6, SumSame
    <2>8. QED
      BY <2>3, <2>5, <2>7
  <1>6. SumFunctionOnSet(g, K) = SumFunctionOnSet(demand, P)
    <2>1. \A p \in K : g[p] = SumFunctionOnSet(demand, part[p])
      BY <1>5
    <2>2. QED
      BY ONLY <1>3, <1>4, <2>1, SumOfGroups
  <1>7. Outlook(P).demand = SumFunctionOnSet(demand, P)
    BY <1>2, OutlookIs
  <1>8. SumFunction(g) = SumFunctionOnSet(g, K)
    BY <1>2, SumIs
  <1>9. QED
    BY <1>1, <1>2, <1>6, <1>7, <1>8, Zenon

\* The bars of a chart are the demand of the days shown.
LEMMA ChartIsDemand ==
    ASSUME IInv, NEW user, NEW run \in RunsOf(user), ResultsReady(run),
           NEW p \in {None} \cup Forecasted(run), NEW days, NEW interval
    PROVE  AllOf(ChartOf(user, run, p, days, interval))
           = DemandForecastReport(user, run, p, None, days).summary.demand
  <1>1. PICK rows : rows = DemandReportRows(user, run, p, None, days)
    OBVIOUS
  <1>2. /\ rows = {f \in Predicted(run) : p \in {None, f.product} /\ f.date \in days}
        /\ DemandForecastReport(user, run, p, None, days).summary = Outlook(rows)
        /\ Visible(user, None, p, None)
    BY <1>1, ReportRows
  <1>3. PICK demand, of : /\ demand = [f \in rows |-> f.demand]
                          /\ of = [f \in rows |-> PeriodStart(interval, f.date)]
    OBVIOUS
  <1>4. PICK K : K = {of[f] : f \in rows}
    OBVIOUS
  <1>5. PICK part : part = [k \in K |-> {f \in rows : of[f] = k}]
    OBVIOUS
  <1>6. /\ IsFiniteSet(rows) /\ IsFiniteSet(K)
        /\ \A f \in rows : demand[f] \in Int
        /\ \A f \in rows : of[f] \in K
    <2>1. IsFiniteSet(rows) /\ \A f \in rows : demand[f] \in Int
      BY <1>2, <1>3, PredictedIs, FS_Subset
    <2>2. IsFiniteSet(K)
      BY <1>3, <1>4, <2>1, FiniteImage
    <2>3. QED
      BY <1>4, <2>1, <2>2
  <1>7. \A k \in K : /\ part[k] \subseteq rows
                     /\ \A f \in rows : f \in part[k] <=> of[f] = k
    BY <1>5
  <1>8. PICK chart : chart = ChartOf(user, run, p, days, interval)
    OBVIOUS
  <1>9. chart = Chart(run, p, days, interval)
    BY <1>2, <1>8, PredictedIs DEF ChartOf, ReadyRun
  <1>10. chart = [period \in {PeriodStart(interval, f.date) : f \in rows} |->
                    Total({f \in rows : PeriodStart(interval, f.date) = period}, LAMBDA f : f.demand)]
    BY <1>2, <1>9, Zenon DEF Chart
  <1>11. K = {PeriodStart(interval, f.date) : f \in rows}
    BY <1>3, <1>4
  <1>12. DOMAIN chart = K
    BY <1>10, <1>11, Zenon
  <1>13. ASSUME NEW k \in K PROVE chart[k] = SumFunctionOnSet(demand, part[k])
    <2>1. PICK d : d = [f \in part[k] |-> f.demand]
      OBVIOUS
    <2>2. {f \in rows : PeriodStart(interval, f.date) = k} = part[k]
      BY <1>3, <1>5
    <2>3. chart[k] = Total(part[k], LAMBDA f : f.demand)
      BY <1>10, <1>11, <2>2, Zenon
    <2>4. chart[k] = SumFunction(d)
      BY <2>1, <2>3, Zenon DEF Total
    <2>5. SumFunction(d) = SumFunctionOnSet(d, part[k])
      BY <2>1, SumIs
    <2>6. IsFiniteSet(part[k]) /\ \A f \in part[k] : d[f] = demand[f]
      BY <1>3, <1>6, <1>7, <2>1, FS_Subset
    <2>7. SumFunctionOnSet(d, part[k]) = SumFunctionOnSet(demand, part[k])
      BY <2>6, SumSame
    <2>8. QED
      BY <2>4, <2>5, <2>7
  <1>14. SumFunctionOnSet(chart, K) = SumFunctionOnSet(demand, rows)
    <2>1. \A k \in K : chart[k] = SumFunctionOnSet(demand, part[k])
      BY <1>13
    <2>2. QED
      BY ONLY <1>6, <1>7, <2>1, SumOfGroups
  <1>15. AllOf(chart) = SumFunctionOnSet(chart, K)
    BY <1>6, <1>12, AllOfIs
  <1>16. QED
    BY <1>2, <1>3, <1>8, <1>14, <1>15, OutlookIs

LEMMA ProductScreensAgree ==
    ASSUME IInv, NEW user, NEW run \in RunsOf(user), ResultsReady(run),
           NEW p \in {None} \cup Forecasted(run),
           NEW days, days = {f.date : f \in Predicted(run)},
           NEW report, report = DemandForecastReport(user, run, p, None, days),
           NEW list, list = PredictionList(user, run, p, None, days, 2, 1)
    PROVE  /\ list.total = report.summary.count
           /\ list.rows = Page(report.rows, 2, 1)
           /\ p \in Forecasted(run) =>
                 /\ ProductForecast(user, run, p).rows = report.rows
                 /\ ProductForecast(user, run, p).demand = report.summary.demand
  <1>1. PICK rows, ordered : /\ rows = DemandReportRows(user, run, p, None, days)
                             /\ ordered = Ordered(rows, PredictionBefore)
    OBVIOUS
  <1>2. /\ rows = {f \in Predicted(run) : p \in {None, f.product} /\ f.date \in days}
        /\ rows = ListedPredictions(user, run, p, None, days)
        /\ report.summary = Outlook(rows) /\ report.rows = ordered
        /\ Visible(user, None, p, None)
    BY <1>1, ReportRows
  <1>3. ReadyRun(user, run)
    BY PredictedIs DEF ReadyRun
  <1>4. PICK page : page = Page(ordered, 2, 1)
    OBVIOUS
  <1>5. list = [rows |-> page, total |-> Cardinality(rows)]
    BY <1>1, <1>2, <1>3, <1>4, Zenon DEF PredictionList
  <1>6. list.rows = page /\ list.total = Cardinality(rows)
    BY <1>5
  <1>7. Outlook(rows).count = Cardinality(rows)
    BY OutlookIs
  <1>8. ASSUME p \in Forecasted(run)
        PROVE  /\ ProductForecast(user, run, p).rows = ordered
               /\ ProductForecast(user, run, p).demand = Outlook(rows).demand
    <2>1. ProductDetail(user, run, p) = rows
      BY <1>2 DEF ProductDetail
    <2>2. rows # {}
      <3>1. PICK f \in Predicted(run) : p = f.product
        BY <1>8 DEF Forecasted
      <3>2. QED
        BY <1>2, <3>1
    <2>3. PICK demand : demand = Outlook(rows).demand
      OBVIOUS
    <2>4. ProductForecast(user, run, p) = [rows |-> ordered, demand |-> demand]
      BY <1>1, <1>2, <1>3, <2>1, <2>2, <2>3, Zenon DEF ProductForecast
    <2>5. QED
      BY <2>3, <2>4
  <1>9. QED
    BY <1>2, <1>4, <1>6, <1>7, <1>8

LEMMA ResultsAgree ==
    ASSUME IInv, NEW user, NEW run \in RunsOf(user), ResultsReady(run)
    PROVE  ResultScreensAgree(user, run)
  <1>1. PICK days : days = {f.date : f \in Predicted(run)}
    OBVIOUS
  <1>2. ResultOf(user, run) = Outlook(Predicted(run))
    BY PredictedIs DEF ResultOf, ReadyRun, ResultOverview
  <1>3. Outlook(Predicted(run)) = DemandForecastReport(user, run, None, None, days).summary
    <2>1. PICK rows : rows = DemandReportRows(user, run, None, None, days)
      OBVIOUS
    <2>2. /\ rows = {f \in Predicted(run) : None \in {None, f.product} /\ f.date \in days}
          /\ DemandForecastReport(user, run, None, None, days).summary = Outlook(rows)
      BY <2>1, ReportRows
    <2>3. rows = Predicted(run)
      BY <1>1, <2>2
    <2>4. QED
      BY <2>2, <2>3
  <1>4. ResultOf(user, run).demand
        = SumFunction([p \in Forecasted(run) |->
                          DemandForecastReport(user, run, p, None, days).summary.demand])
    BY <1>1, <1>2, DemandByProduct
  <1>5. \A p \in {None} \cup Forecasted(run) :
           /\ PredictionList(user, run, p, None, days, 2, 1).total
                = DemandForecastReport(user, run, p, None, days).summary.count
           /\ PredictionList(user, run, p, None, days, 2, 1).rows
                = Page(DemandForecastReport(user, run, p, None, days).rows, 2, 1)
           /\ \A interval \in Intervals, S \in SUBSET days :
                  AllOf(ChartOf(user, run, p, S, interval))
                  = DemandForecastReport(user, run, p, None, S).summary.demand
    BY <1>1, ProductScreensAgree, ChartIsDemand
  <1>6. \A p \in Forecasted(run) :
           /\ ProductForecast(user, run, p).rows = DemandForecastReport(user, run, p, None, days).rows
           /\ ProductForecast(user, run, p).demand
                = DemandForecastReport(user, run, p, None, days).summary.demand
    BY <1>1, ProductScreensAgree
  <1>7. QED
    BY <1>1, <1>2, <1>3, <1>4, <1>5, <1>6, Zenon DEF ResultScreensAgree, Total

-----------------------------------------------------------------------------
(* Recommendations: lists, alerts and the reorder summary                  *)

\* Rows sorted by one number after the other: by the greatest, the fourth number
\* by the least
ComesFirst(a, b, c, d, e, y, x) ==
    \/ a[y] > a[x]
    \/ a[y] = a[x] /\ b[y] > b[x]
    \/ a[y] = a[x] /\ b[y] = b[x] /\ c[y] > c[x]
    \/ a[y] = a[x] /\ b[y] = b[x] /\ c[y] = c[x] /\ d[y] < d[x]
    \/ a[y] = a[x] /\ b[y] = b[x] /\ c[y] = c[x] /\ d[y] = d[x] /\ e[y] > e[x]

LEMMA SortedByKeys ==
    ASSUME NEW rows, NEW before, \A x \in rows : before[x] \subseteq rows,
           NEW a, NEW b, NEW c, NEW d, NEW e,
           \A x \in rows : /\ a[x] \in Int /\ b[x] \in Int /\ c[x] \in Int
                           /\ d[x] \in Int /\ e[x] \in Int,
           \A x, y \in rows :
               a[x] = a[y] /\ b[x] = b[y] /\ c[x] = c[y] /\ d[x] = d[y] /\ e[x] = e[y] => x = y,
           \A x, y \in rows : y \in before[x] <=> ComesFirst(a, b, c, d, e, y, x)
    PROVE  OrdersRows(before, rows)
  <1>0. \A x \in rows : before[x] \subseteq rows
    OBVIOUS
  <1>1. \A x \in rows : x \notin before[x]
    BY DEF ComesFirst
  <1>2. \A x, y \in rows : x = y \/ x \in before[y] \/ y \in before[x]
    BY DEF ComesFirst
  <1>3. \A x, y, z \in rows : y \in before[x] /\ z \in before[y] => z \in before[x]
    BY DEF ComesFirst
  <1>4. QED
    BY ONLY <1>0, <1>1, <1>2, <1>3 DEF OrdersRows

\* The numbers that recommendations are sorted by tell them apart.
LEMMA RowKeys ==
    ASSUME IInv, TablesInv, NEW user, NEW x \in recs, NEW y \in recs,
           Owner[x.run] = user, Owner[y.run] = user
    PROVE  /\ x.reorder_quantity \in Nat /\ x.predicted_demand \in Nat
           /\ x.generated \in Nat /\ x.id \in Nat /\ Sku[x.product] \in Int
           /\ x.id = y.id /\ Sku[x.product] = Sku[y.product] => x = y
  <1>1. /\ x \in Rows /\ y \in Rows
        /\ Owner[x.product] = user /\ Owner[y.product] = user
    BY DEF IInv, RowOK
  <1>2. /\ x.run \in Runs /\ x.product \in Products /\ y.product \in Products
        /\ x.reorder_quantity \in Nat /\ x.predicted_demand \in Nat
        /\ x.generated \in Nat /\ x.id \in Nat
    BY <1>1 DEF Rows
  <1>3. Sku[x.product] \in Int
    BY <1>2, ScreensAssumption
  <1>4. ASSUME x.id = y.id, Sku[x.product] = Sku[y.product] PROVE x = y
    <2>1. x.run = y.run
      BY <1>4 DEF TablesInv
    <2>2. x.product = y.product
      BY <1>1, <1>2, <1>4, ScreensAssumption
    <2>3. x \in OfRun(x.run) /\ y \in OfRun(x.run)
      BY <2>1 DEF OfRun
    <2>4. QED
      BY <1>2, <2>2, <2>3 DEF IInv, OneGeneration
  <1>5. QED
    BY <1>2, <1>3, <1>4

LEMMA ToReorderSorted ==
    ASSUME IInv, TablesInv, NEW user, NEW rows \in SUBSET recs, \A r \in rows : Owner[r.run] = user,
           NEW before, before = [x \in rows |-> {y \in rows : MostToReorderFirst(y, x)}],
           NEW s, s = Ordered(rows, MostToReorderFirst)
    PROVE  /\ OrdersRows(before, rows) /\ RanksRows(s, before, rows)
           /\ \A x \in rows : \A y \in before[x] : y.reorder_quantity >= x.reorder_quantity
  <1>1. IsFiniteSet(rows)
    BY RecommendationsAreFinite, FS_Subset
  <1>2. \A x \in rows : before[x] = {y \in rows : MostToReorderFirst(y, x)}
    OBVIOUS
  <1>3. \A x \in rows : before[x] \subseteq rows
    BY <1>2
  <1>4. \A x, y \in rows : y \in before[x] <=>
            \/ y.reorder_quantity > x.reorder_quantity
            \/ /\ y.reorder_quantity = x.reorder_quantity
               /\ \/ y.generated > x.generated
                  \/ y.generated = x.generated /\ Sku[y.product] < Sku[x.product]
                  \/ y.generated = x.generated /\ Sku[y.product] = Sku[x.product] /\ y.id > x.id
    BY <1>2, Zenon DEF MostToReorderFirst, RecommendationBefore
  <1>0. s = [n \in 1 .. Cardinality(rows) |-> CHOOSE x \in rows : Cardinality(before[x]) = n - 1]
    BY DEF Ordered
  <1>5. \A x, y \in rows :
          /\ x.reorder_quantity \in Int /\ x.generated \in Int /\ x.id \in Int /\ Sku[x.product] \in Int
          /\ x.id = y.id /\ Sku[x.product] = Sku[y.product] => x = y
    BY RowKeys
  <1>6. PICK a, b, c, d, e :
          /\ a = [x \in rows |-> x.reorder_quantity] /\ b = [x \in rows |-> 0]
          /\ c = [x \in rows |-> x.generated] /\ d = [x \in rows |-> Sku[x.product]]
          /\ e = [x \in rows |-> x.id]
    OBVIOUS
  <1>7. /\ \A x \in rows : /\ a[x] \in Int /\ b[x] \in Int /\ c[x] \in Int
                           /\ d[x] \in Int /\ e[x] \in Int
        /\ \A x, y \in rows :
               a[x] = a[y] /\ b[x] = b[y] /\ c[x] = c[y] /\ d[x] = d[y] /\ e[x] = e[y] => x = y
        /\ \A x, y \in rows : y \in before[x] <=> ComesFirst(a, b, c, d, e, y, x)
    BY ONLY <1>4, <1>5, <1>6 DEF ComesFirst
  <1>8. OrdersRows(before, rows)
    BY ONLY <1>3, <1>7, SortedByKeys, Zenon
  <1>10. RanksRows(s, before, rows)
    BY ONLY <1>1, <1>8, <1>0, RowsByRank
  <1>11. \A x \in rows : \A y \in before[x] : y.reorder_quantity >= x.reorder_quantity
    BY ONLY <1>3, <1>4, <1>5
  <1>12. QED
    BY <1>8, <1>10, <1>11

LEMMA DemandedSorted ==
    ASSUME IInv, TablesInv, NEW user, NEW rows \in SUBSET recs, \A r \in rows : Owner[r.run] = user,
           NEW before, before = [x \in rows |-> {y \in rows : MostDemandedFirst(y, x)}],
           NEW s, s = Ordered(rows, MostDemandedFirst)
    PROVE  /\ OrdersRows(before, rows) /\ RanksRows(s, before, rows)
           /\ \A x \in rows : \A y \in before[x] : y.reorder_quantity >= x.reorder_quantity
  <1>1. IsFiniteSet(rows)
    BY RecommendationsAreFinite, FS_Subset
  <1>2. \A x \in rows : before[x] = {y \in rows : MostDemandedFirst(y, x)}
    OBVIOUS
  <1>3. \A x \in rows : before[x] \subseteq rows
    BY <1>2
  <1>4. \A x, y \in rows : y \in before[x] <=>
            \/ y.reorder_quantity > x.reorder_quantity
            \/ /\ y.reorder_quantity = x.reorder_quantity
               /\ \/ y.predicted_demand > x.predicted_demand
                  \/ /\ y.predicted_demand = x.predicted_demand
                     /\ \/ y.generated > x.generated
                        \/ y.generated = x.generated /\ Sku[y.product] < Sku[x.product]
                        \/ y.generated = x.generated /\ Sku[y.product] = Sku[x.product] /\ y.id > x.id
    BY <1>2, Zenon DEF MostDemandedFirst, RecommendationBefore
  <1>0. s = [n \in 1 .. Cardinality(rows) |-> CHOOSE x \in rows : Cardinality(before[x]) = n - 1]
    BY DEF Ordered
  <1>5. \A x, y \in rows :
          /\ x.reorder_quantity \in Int /\ x.predicted_demand \in Int
          /\ x.generated \in Int /\ x.id \in Int /\ Sku[x.product] \in Int
          /\ x.id = y.id /\ Sku[x.product] = Sku[y.product] => x = y
    BY RowKeys, SMTT(40)
  <1>6. PICK a, b, c, d, e :
          /\ a = [x \in rows |-> x.reorder_quantity] /\ b = [x \in rows |-> x.predicted_demand]
          /\ c = [x \in rows |-> x.generated] /\ d = [x \in rows |-> Sku[x.product]]
          /\ e = [x \in rows |-> x.id]
    OBVIOUS
  <1>7. /\ \A x \in rows : /\ a[x] \in Int /\ b[x] \in Int /\ c[x] \in Int
                           /\ d[x] \in Int /\ e[x] \in Int
        /\ \A x, y \in rows :
               a[x] = a[y] /\ b[x] = b[y] /\ c[x] = c[y] /\ d[x] = d[y] /\ e[x] = e[y] => x = y
        /\ \A x, y \in rows : y \in before[x] <=> ComesFirst(a, b, c, d, e, y, x)
    BY ONLY <1>4, <1>5, <1>6 DEF ComesFirst
  <1>8. OrdersRows(before, rows)
    BY ONLY <1>3, <1>7, SortedByKeys, Zenon
  <1>10. RanksRows(s, before, rows)
    BY ONLY <1>1, <1>8, <1>0, RowsByRank
  <1>11. \A x \in rows : \A y \in before[x] : y.reorder_quantity >= x.reorder_quantity
    BY ONLY <1>3, <1>4, <1>5
  <1>12. QED
    BY <1>8, <1>10, <1>11

LEMMA LevelsAreFinite == IsFiniteSet(RiskLevels) /\ IsFiniteSet(RecommendationStatuses)
  <1>1. IsFiniteSet({"low"})
    BY FS_Singleton
  <1>2. IsFiniteSet({"low"} \cup {"medium"} \cup {"high"})
    BY <1>1, FS_AddElement
  <1>3. IsFiniteSet({"low"} \cup {"medium"} \cup {"high"} \cup {"critical"} \cup {"overstocked"})
    BY <1>2, FS_AddElement
  <1>4. RiskLevels = {"low"} \cup {"medium"} \cup {"high"} \cup {"critical"} \cup {"overstocked"}
    BY DEF RiskLevels
  <1>5. IsFiniteSet({"open"})
    BY FS_Singleton
  <1>6. IsFiniteSet({"open"} \cup {"acknowledged"} \cup {"dismissed"})
    BY <1>5, FS_AddElement
  <1>7. RecommendationStatuses = {"open"} \cup {"acknowledged"} \cup {"dismissed"}
    BY DEF RecommendationStatuses
  <1>8. QED
    BY <1>3, <1>4, <1>6, <1>7

\* The counts by risk, and by status, part the rows.
LEMMA CountsPartRows ==
    ASSUME IInv, NEW rows \in SUBSET recs
    PROVE  /\ AllOf(RiskCounts(rows)) = Cardinality(rows)
           /\ AllOf(StatusCounts(rows)) = Cardinality(rows)
  <1>1. IsFiniteSet(rows)
    BY RecommendationsAreFinite, FS_Subset
  <1>2. \A r \in rows : r.risk_level \in RiskLevels /\ r.status \in RecommendationStatuses
    BY DEF IInv, Rows
  <1>3. AllOf(RiskCounts(rows)) = Cardinality(rows)
    <2>1. PICK counts : counts = RiskCounts(rows)
      OBVIOUS
    <2>2. PICK kind : kind = [r \in rows |-> r.risk_level]
      OBVIOUS
    <2>3. PICK part : part = [k \in RiskLevels |-> {r \in rows : r.risk_level = k}]
      OBVIOUS
    <2>4. counts = [k \in RiskLevels |-> Cardinality({r \in rows : r.risk_level = k})]
      BY <2>1, Zenon DEF RiskCounts
    <2>5. DOMAIN counts = RiskLevels
          /\ \A k \in RiskLevels : /\ part[k] \subseteq rows /\ counts[k] = Cardinality(part[k])
                                   /\ \A r \in rows : r \in part[k] <=> kind[r] = k
      BY <2>2, <2>3, <2>4
    <2>6. \A r \in rows : kind[r] \in RiskLevels
      BY <1>2, <2>2
    <2>7. IsFiniteSet(RiskLevels)
      BY LevelsAreFinite
    <2>8. SumFunctionOnSet(counts, RiskLevels) = Cardinality(rows)
      BY ONLY <1>1, <2>5, <2>6, <2>7, CountByKind
    <2>9. QED
      BY <2>1, <2>5, <2>7, <2>8, AllOfIs
  <1>4. AllOf(StatusCounts(rows)) = Cardinality(rows)
    <2>1. PICK counts : counts = StatusCounts(rows)
      OBVIOUS
    <2>2. PICK kind : kind = [r \in rows |-> r.status]
      OBVIOUS
    <2>3. PICK part : part = [k \in RecommendationStatuses |-> {r \in rows : r.status = k}]
      OBVIOUS
    <2>4. counts = [k \in RecommendationStatuses |-> Cardinality({r \in rows : r.status = k})]
      BY <2>1, Zenon DEF StatusCounts
    <2>5. DOMAIN counts = RecommendationStatuses
          /\ \A k \in RecommendationStatuses :
                /\ part[k] \subseteq rows /\ counts[k] = Cardinality(part[k])
                /\ \A r \in rows : r \in part[k] <=> kind[r] = k
      BY <2>2, <2>3, <2>4
    <2>6. \A r \in rows : kind[r] \in RecommendationStatuses
      BY <1>2, <2>2
    <2>7. IsFiniteSet(RecommendationStatuses)
      BY LevelsAreFinite
    <2>8. SumFunctionOnSet(counts, RecommendationStatuses) = Cardinality(rows)
      BY ONLY <1>1, <2>5, <2>6, <2>7, CountByKind
    <2>9. QED
      BY <2>1, <2>5, <2>7, <2>8, AllOfIs
  <1>5. QED
    BY <1>3, <1>4

\* The first rows by either order ask for the same quantities.
LEMMA TopQuantities ==
    ASSUME IInv, TablesInv, NEW user, NEW rows \in SUBSET recs, \A r \in rows : Owner[r.run] = user,
           NEW n \in Nat,
           NEW top, top = First(rows, MostToReorderFirst, n),
           NEW most, most = First(rows, MostDemandedFirst, n)
    PROVE  [i \in DOMAIN top |-> top[i].reorder_quantity]
           = [i \in DOMAIN most |-> most[i].reorder_quantity]
  <1>1. IsFiniteSet(rows) /\ \A r \in rows : r.reorder_quantity \in Int
    BY RecommendationsAreFinite, FS_Subset DEF IInv, Rows
  <1>2. PICK s, t : s = Ordered(rows, MostToReorderFirst) /\ t = Ordered(rows, MostDemandedFirst)
    OBVIOUS
  <1>3. PICK before, prior : /\ before = [x \in rows |-> {y \in rows : MostToReorderFirst(y, x)}]
                             /\ prior = [x \in rows |-> {y \in rows : MostDemandedFirst(y, x)}]
    OBVIOUS
  <1>4. /\ OrdersRows(before, rows) /\ RanksRows(s, before, rows)
        /\ \A x \in rows : \A y \in before[x] : y.reorder_quantity >= x.reorder_quantity
    BY <1>2, <1>3, ToReorderSorted
  <1>5. /\ OrdersRows(prior, rows) /\ RanksRows(t, prior, rows)
        /\ \A x \in rows : \A y \in prior[x] : y.reorder_quantity >= x.reorder_quantity
    BY <1>2, <1>3, DemandedSorted
  <1>6. PICK N \in Nat : N = Cardinality(rows)
    BY <1>1, FS_CardinalityType
  <1>7. /\ IsList(s) /\ Len(s) = N /\ \A i \in 1 .. N : s[i] \in rows
        /\ IsList(t) /\ Len(t) = N /\ \A i \in 1 .. N : t[i] \in rows
    BY ONLY <1>4, <1>5, <1>6 DEF RanksRows, IsList
  <1>8. PICK quantity : quantity = [r \in rows |-> r.reorder_quantity]
    OBVIOUS
  <1>9. \A x \in rows : quantity[x] \in Int /\ quantity[x] = x.reorder_quantity
    BY <1>1, <1>8
  <1>10. ASSUME NEW i \in 1 .. N PROVE s[i].reorder_quantity = t[i].reorder_quantity
    <2>1. /\ \A x \in rows : before[x] \subseteq rows /\ prior[x] \subseteq rows
          /\ \A x \in rows : quantity[x] \in Int
      BY ONLY <1>4, <1>5, <1>9 DEF OrdersRows
    <2>2. \A x \in rows : \A y \in before[x] : quantity[y] >= quantity[x]
      BY ONLY <1>4, <1>9, <2>1
    <2>3. \A x \in rows : \A y \in prior[x] : quantity[y] >= quantity[x]
      BY ONLY <1>5, <1>9, <2>1
    <2>4. i \in 1 .. Len(s) /\ i \in 1 .. Len(t) /\ IsFiniteSet(rows)
          /\ OrdersRows(before, rows) /\ RanksRows(s, before, rows)
          /\ OrdersRows(prior, rows) /\ RanksRows(t, prior, rows)
      BY <1>1, <1>4, <1>5, <1>7
    <2>5. quantity[s[i]] <= quantity[t[i]]
      BY ONLY <2>1, <2>2, <2>3, <2>4, SameQuantities
    <2>6. quantity[t[i]] <= quantity[s[i]]
      BY ONLY <2>1, <2>2, <2>3, <2>4, SameQuantities
    <2>7. s[i] \in rows /\ t[i] \in rows
      BY <1>7
    <2>8. QED
      BY ONLY <1>9, <2>5, <2>6, <2>7
  <1>11. top = Page(s, n, 0) /\ most = Page(t, n, 0)
    BY <1>2, Zenon DEF First
  <1>12. PICK k \in Nat : k = IF n < N THEN n ELSE N
    OBVIOUS
  <1>13. /\ IsList(top) /\ Len(top) = k /\ \A i \in 1 .. k : i \in 1 .. N /\ top[i] = s[i]
         /\ IsList(most) /\ Len(most) = k /\ \A i \in 1 .. k : i \in 1 .. N /\ most[i] = t[i]
    <2>1. /\ IsList(top) /\ Len(top) = IF n < Len(s) THEN n ELSE Len(s)
          /\ \A i \in 1 .. Len(top) : i \in 1 .. Len(s) /\ top[i] = s[i]
      BY ONLY <1>7, <1>11, n \in Nat, FirstRows
    <2>2. /\ IsList(most) /\ Len(most) = IF n < Len(t) THEN n ELSE Len(t)
          /\ \A i \in 1 .. Len(most) : i \in 1 .. Len(t) /\ most[i] = t[i]
      BY ONLY <1>7, <1>11, n \in Nat, FirstRows
    <2>3. QED
      BY ONLY <1>7, <1>12, <2>1, <2>2
  <1>14. DOMAIN top = 1 .. k /\ DOMAIN most = 1 .. k
    BY ONLY <1>13 DEF IsList
  <1>15. \A i \in 1 .. k : top[i].reorder_quantity = most[i].reorder_quantity
    BY ONLY <1>10, <1>13
  <1>16. QED
    BY ONLY <1>14, <1>15

LEMMA ReordersAgree ==
    ASSUME IInv, TablesInv, NEW user, NEW run \in RunsOf(user) \cup {None}, NEW risk, NEW status
    PROVE  ReorderScreensAgree(user, run, risk, status)
  <1>1. PICK report, list, alerts, rows :
          /\ report = ReorderSummaryReport(user, run, risk, status)
          /\ list = RecommendationList(user,
                        [OfRunOnly(run) EXCEPT !.risk = risk, !.status = status], 2, 0)
          /\ alerts = ReorderAlerts(user, run, risk, status, 5)
          /\ rows = ReorderReportRows(user, run, risk, status)
    OBVIOUS
  <1>2. Visible(user, run, None, None)
    BY RunsAreFinite DEF Visible
  <1>3. /\ rows \in SUBSET recs /\ IsFiniteSet(rows) /\ \A r \in rows : Owner[r.run] = user
    BY <1>1, RecommendationsAreFinite, FS_Subset DEF ReorderReportRows
  <1>4. list.total = Cardinality(rows)
    <2>1. PICK f : f = [OfRunOnly(run) EXCEPT !.risk = risk, !.status = status]
      OBVIOUS
    <2>2. /\ f.run = run /\ f.product = None /\ f.category = None
          /\ f.risk = risk /\ f.status = status /\ f.action = None
      BY <2>1 DEF OfRunOnly
    <2>3. \A r \in recs : Owner[r.run] = Owner[r.product]
      BY DEF IInv, RowOK
    <2>4. rows = ListedRecommendations(user, f)
      BY <1>1, <2>2, <2>3 DEF ReorderReportRows, ListedRecommendations
    <2>5. list.total = Cardinality(ListedRecommendations(user, f))
      BY <1>1, <2>1, ListTotal
    <2>6. QED
      BY <2>4, <2>5
  <1>5. PICK top, most, sorted :
          /\ top = First(rows, MostToReorderFirst, 5)
          /\ most = First(rows, MostDemandedFirst, 5)
          /\ sorted = Ordered(rows, MostToReorderFirst)
    OBVIOUS
  <1>6. report = [counts |-> ReorderReport(user, run, risk, status), top |-> most, rows |-> sorted]
    BY <1>1, <1>2, <1>5, Zenon DEF ReorderSummaryReport
  <1>7. ReorderReport(user, run, risk, status)
          = [total |-> Cardinality(rows), reorder |-> ReorderTotal(rows),
             risks |-> RiskCounts(rows), statuses |-> StatusCounts(rows)]
    BY <1>1, Zenon DEF ReorderReport
  <1>8. /\ report.top = most /\ report.rows = sorted
        /\ report.counts.total = Cardinality(rows) /\ report.counts.reorder = ReorderTotal(rows)
        /\ report.counts.risks = RiskCounts(rows) /\ report.counts.statuses = StatusCounts(rows)
    BY ONLY <1>6, <1>7
  <1>9. Len(sorted) = Cardinality(rows)
    <2>1. PICK before : before = [x \in rows |-> {y \in rows : MostToReorderFirst(y, x)}]
      OBVIOUS
    <2>2. RanksRows(sorted, before, rows)
      BY <1>3, <1>5, <2>1, ToReorderSorted
    <2>3. QED
      BY <2>2 DEF RanksRows
  <1>10. /\ report.counts.total = AllOf(report.counts.risks)
         /\ report.counts.total = AllOf(report.counts.statuses)
    BY <1>3, <1>8, CountsPartRows
  <1>11. alerts = [counts |-> AlertCounts(user, run), top |-> top]
    <2>1. TopReorderItems(user, run, risk, status, 5) = top
      BY <1>1, <1>5, Zenon DEF TopReorderItems, ReorderReportRows
    <2>2. QED
      BY <1>1, <1>2, <2>1, Zenon DEF ReorderAlerts
  <1>12. alerts.counts = AlertCounts(user, run) /\ alerts.top = top
    BY ONLY <1>11
  <1>13. [i \in DOMAIN top |-> top[i].reorder_quantity]
         = [i \in DOMAIN most |-> most[i].reorder_quantity]
    <2>1. 5 \in Nat
      OBVIOUS
    <2>2. QED
      BY <1>3, <1>5, <2>1, TopQuantities
  <1>14. ASSUME None = risk, None = status
         PROVE  /\ alerts.counts.reorder = report.counts.reorder
                /\ alerts.counts.risks = report.counts.risks
                /\ alerts.counts.statuses = report.counts.statuses
    <2>1. rows = {r \in recs : Owner[r.run] = user /\ run \in {None, r.run}}
      BY <1>1, <1>14 DEF ReorderReportRows
    <2>2. AlertCounts(user, run) = [reorder |-> ReorderTotal(rows), risks |-> RiskCounts(rows),
                                    statuses |-> StatusCounts(rows)]
      BY <2>1, Zenon DEF AlertCounts
    <2>3. QED
      BY ONLY <1>8, <1>12, <2>2
  <1>15. /\ [i \in DOMAIN alerts.top |-> alerts.top[i].reorder_quantity]
            = [i \in DOMAIN report.top |-> report.top[i].reorder_quantity]
         /\ Len(report.rows) = list.total /\ report.counts.total = list.total
    BY <1>4, <1>8, <1>9, <1>12, <1>13
  <1>16. QED
    BY <1>1, <1>10, <1>14, <1>15, Zenon DEF ReorderScreensAgree

-----------------------------------------------------------------------------
\* Whatever is stored, the screens show the same of it when no request runs:
\* stock, runs, results and recommendations are counted and added up alike by
\* the modules that own them, the dashboard and the reports, and no user sees
\* anything of another.
THEOREM ScreensTellOneStory == Spec => []InsightsAgree
  <1>1. ASSUME IInv, TablesInv PROVE InsightsAgree
    <2>1. ASSUME NEW user \in Users
          PROVE  /\ StockScreensAgree(user) /\ ForecastScreensAgree(user) /\ StrangersSeeNothing(user)
                 /\ \A run \in RunsOf(user) : SummaryAgrees(user, run)
                 /\ \A run \in RunsOf(user) : ResultsReady(run) => ResultScreensAgree(user, run)
      BY <1>1, StockAgrees, ForecastsAgree, StrangersAgree, SummariesAgree, ResultsAgree
    <2>2. ASSUME NEW user \in Users
          PROVE  \A run \in RunsOf(user) \cup {None} : \A risk, status :
                     ReorderScreensAgree(user, run, risk, status)
      BY <1>1, ReordersAgree
    <2>3. QED
      BY <2>1, <2>2, Zenon DEF InsightsAgree
  <1>2. Init => IInv /\ TablesInv
    BY InitIInv, InitTables
  <1>3. IInv /\ TablesInv /\ [Next]_vars => (IInv /\ TablesInv)'
    BY NextIInv, NextTables
  <1>4. IInv /\ TablesInv => InsightsAgree
    BY <1>1
  <1>5. QED
    BY <1>2, <1>3, <1>4, PTL DEF Spec
=============================================================================
