--------------------------- MODULE Outreach_proofs ---------------------------
(* What a sequence of touches promises however many workers advance it.    *)
EXTENDS SequenceEngine, OrderLemmas, SequenceTheorems, TLAPS

-----------------------------------------------------------------------------
(* The inductive invariants.                                               *)

\* A call that is on its way asks for something, and what it is told was taken is in
\* the inbox with its content.
CallInv(place, asked, told, box) ==
  /\ place # "idle" => asked \in Request
  /\ place \in {"taken", "acknowledged"} \/ (place = "answered" /\ told.status = "SUCCEEDED") =>
       /\ told.message \in DOMAIN box[asked.key]
       /\ box[asked.key][told.message] = asked.content
  /\ place = "acknowledged" => told.status = "SUCCEEDED"

\* So is what the record says, and it is there once a call was confirmed.
RecordInv(found, box, count) ==
  /\ found # NoRecord => /\ found.message \in DOMAIN box
                         /\ box[found.message] = found.content
  /\ count = IF found = NoRecord THEN 0 ELSE 1

GateInv ==
  /\ \A c \in Callers : CallInv(pc[c], request[c], result[c], inbox)
  /\ \A k \in SendKeys : RecordInv(record[k], inbox[k], confirmed[k])

\* A call that is on its way sends the touch of its key, which is due now: time does
\* not go on while it does.
TouchInv ==
  \A c \in Callers : pc[c] # "idle" =>
    touch[c] \in Touch /\ touch[c].key = request[c].key /\ touch[c].plannedAt = now

\* A message with the key k may reach the provider still.
Active(k) ==
  \/ \E c \in Callers : pc[c] # "idle" /\ request[c].key = k
  \/ \E c \in Callers : \E r \in late[c] : r.key = k

SpacingBefore(k) == Spacing[EnabledChannels[((k - 1) % Len(EnabledChannels)) + 1]]

\* The keys of a ledger come in their order, and so do their dates.
InOrder(ledger) ==
  /\ \A i \in DOMAIN ledger : \A k \in 1..(ledger[i].key - 1) :
       \E j \in 1..(i - 1) : ledger[j].key = k
  /\ \A i, j \in DOMAIN ledger :
       ledger[i].key <= ledger[j].key => ledger[i].plannedAt <= ledger[j].plannedAt

LedgerInv ==
  /\ InOrder(context.ledger)
  /\ \A i \in DOMAIN context.ledger : context.ledger[i].plannedAt <= now

\* The touch k may be sent at t: the touches before it are on record and far enough
\* in the past.
Allowed(k, t, ledger, override) ==
  /\ EnabledChannels # << >>
  /\ IsWithinContactWindow(t) /\ ~IsHoliday(t)
  /\ k <= Highest(override)
  /\ \A j \in 1..(k - 1) : \E i \in DOMAIN ledger : ledger[i].key = j
  /\ \A i \in DOMAIN ledger : ledger[i].key < k => t >= ledger[i].plannedAt + SpacingBefore(k)

\* What may arrive now may be sent now, and if it or a later touch is on record already
\* it has been entered in this half day.
ActiveInv ==
  \A k \in Keys : Active(k) =>
    /\ Allowed(k, now, context.ledger, context.override)
    /\ \A i \in DOMAIN context.ledger :
         context.ledger[i].key >= k => context.ledger[i].plannedAt = now

\* What was sent could be sent when it was, no later than the date on record.
SentInv ==
  \A k \in Keys : \A t \in sentAt[k] :
    /\ Allowed(k, t, context.ledger, context.override)
    /\ t <= now
    /\ \A i \in DOMAIN context.ledger :
         context.ledger[i].key = k => t <= context.ledger[i].plannedAt

CadenceInv == LedgerInv /\ ActiveInv /\ SentInv

-----------------------------------------------------------------------------
(* The calendar and the ledger.                                            *)

LEMMA ChannelIsOne ==
  ASSUME NEW i \in Nat, EnabledChannels # << >>
  PROVE  /\ EnabledChannels[(i % Len(EnabledChannels)) + 1] \in Channels
         /\ Spacing[EnabledChannels[(i % Len(EnabledChannels)) + 1]] \in Nat
<1> DEFINE n == Len(EnabledChannels)
           c == EnabledChannels[(i % n) + 1]
<1>1. n \in Nat \ {0} /\ DOMAIN EnabledChannels = 1..n
  BY PolicyAssumption, LenProperties, EmptySeq DEF PolicyAssumption
<1> HIDE DEF n
<1>2. (i % n) + 1 \in DOMAIN EnabledChannels
  BY <1>1
<1>3. c \in Channels
  BY <1>2 DEF Channels
<1>. QED  BY <1>3, PolicyAssumption DEF PolicyAssumption, n

\* The window that is next is a window and not in the past: none is more than four
\* half days away, a whole weekend.
LEMMA WindowIsNext ==
  ASSUME NEW t \in Nat
  PROVE  /\ NextContactWindow(t) \in Nat
         /\ NextContactWindow(t) >= t
         /\ IsWithinContactWindow(NextContactWindow(t))
<1> DEFINE S == {s \in t..(t + 9) : IsWithinContactWindow(s)}
<1>1. S # {}
  <2>1. PICK e \in Nat : e % 2 = 0 /\ e >= t /\ e <= t + 1
    OBVIOUS
  <2>2. e % 2 = 0 /\ (e + 2) % 2 = 0 /\ (e + 4) % 2 = 0
    BY <2>1
  <2>3. (e + 2) \div 2 = (e \div 2) + 1 /\ (e + 4) \div 2 = (e \div 2) + 2
    BY <2>1
  <2> DEFINE d == e \div 2
  <2>4. d \in Nat
    BY <2>1
  <2> HIDE DEF d
  <2>5. Weekday(d) \/ Weekday(d + 1) \/ Weekday(d + 2)
    BY <2>4 DEF Weekday
  <2>6. e \in S \/ e + 2 \in S \/ e + 4 \in S
    <3>1. e \in t..(t + 9) /\ e + 2 \in t..(t + 9) /\ e + 4 \in t..(t + 9)
      BY <2>1
    <3>2. Day(e) = d /\ Day(e + 2) = d + 1 /\ Day(e + 4) = d + 2
      BY <2>3 DEF d, Day
    <3>. QED  BY <2>2, <2>5, <3>1, <3>2 DEF IsWithinContactWindow
  <2>. QED  BY <2>6
<1>2. S \in SUBSET Nat
  OBVIOUS
<1>3. Min(S) \in S
  BY <1>1, <1>2, MinIsLeast
<1>4. NextContactWindow(t) = Min(S)
  BY DEF NextContactWindow
<1>. QED  BY <1>3, <1>4

\* After rescheduling around holidays a touch is in a window that is no holiday.
LEMMA SlotIsWorking ==
  ASSUME NEW t \in Nat, WorkingSlots(t) # {}
  PROVE  /\ Min(WorkingSlots(t)) \in Nat
         /\ Min(WorkingSlots(t)) >= t
         /\ IsWithinContactWindow(Min(WorkingSlots(t)))
         /\ ~IsHoliday(Min(WorkingSlots(t)))
<1>1. WorkingSlots(t) \in SUBSET Nat
  BY DEF WorkingSlots
<1>2. Min(WorkingSlots(t)) \in WorkingSlots(t)
  BY <1>1, MinIsLeast
<1>. QED  BY <1>2 DEF WorkingSlots

\* How many of the d days after D are business days.
BusinessDays(D, d) == {e \in 1..d : Weekday(D + e)}

\* A day more is one business day more at most.
LEMMA OneDayMore ==
  ASSUME NEW D \in Nat, NEW d \in Nat
  PROVE  /\ IsFiniteSet(BusinessDays(D, d)) /\ Cardinality(BusinessDays(D, d)) \in Nat
         /\ Cardinality(BusinessDays(D, d + 1)) <= Cardinality(BusinessDays(D, d)) + 1
         /\ Cardinality(BusinessDays(D, 0)) = 0
<1>1. \A k \in Nat : IsFiniteSet(BusinessDays(D, k)) /\ Cardinality(BusinessDays(D, k)) \in Nat
  <2> TAKE k \in Nat
  <2>1. IsFiniteSet(1..k)
    BY FS_Interval
  <2>. QED  BY <2>1, FS_Subset, FS_CardinalityType DEF BusinessDays
<1>2. BusinessDays(D, d + 1) = BusinessDays(D, d) \/
      BusinessDays(D, d + 1) = BusinessDays(D, d) \cup {d + 1}
  <2>1. 1..(d + 1) = (1..d) \cup {d + 1}
    OBVIOUS
  <2>. QED  BY <2>1 DEF BusinessDays
<1>3. Cardinality(BusinessDays(D, d + 1)) <= Cardinality(BusinessDays(D, d)) + 1
  <2> DEFINE B == BusinessDays(D, d)
             c == Cardinality(B)
  <2>1. IsFiniteSet(B) /\ c \in Nat
    BY <1>1
  <2>2. Cardinality(B \cup {d + 1}) = c \/ Cardinality(B \cup {d + 1}) = c + 1
    <3> HIDE DEF B
    <3>. QED  BY <2>1, FS_AddElement
  <2>3. Cardinality(BusinessDays(D, d + 1)) = c \/ Cardinality(BusinessDays(D, d + 1)) = c + 1
    BY <1>2, <2>2
  <2> HIDE DEF c
  <2>4. Cardinality(BusinessDays(D, d + 1)) <= c + 1
    BY <2>1, <2>3
  <2>. QED  BY <2>4 DEF c
<1>4. BusinessDays(D, 0) = {}
  BY DEF BusinessDays
<1>. QED  BY <1>1, <1>3, <1>4, FS_EmptySet

\* Three business days are found in eight days, seven in sixteen.
LEMMA EnoughBusinessDays ==
  ASSUME NEW D \in Nat, NEW n \in {0, 3, 7}
  PROVE  Cardinality(BusinessDays(D, 2 * n + 2)) >= n
<1>1. \A d \in Nat : IsFiniteSet(BusinessDays(D, d)) /\ Cardinality(BusinessDays(D, d)) \in Nat
  BY OneDayMore
\* The next Monday, if it is not that of today.
<1>2. PICK a \in 1..7 : (D + a) % 7 = 0
  <2>1. 7 - (D % 7) \in 1..7 /\ (D + (7 - (D % 7))) % 7 = 0
    OBVIOUS
  <2>. QED  BY <2>1
<1>3. CASE n = 0
  BY <1>1, <1>3
<1>4. CASE n = 3
  <2>1. PICK b \in 1..6 : Weekday(D + b) /\ Weekday(D + (b + 1)) /\ Weekday(D + (b + 2))
    <3>1. CASE a < 7
      <4>1. a \in 1..6 /\ Weekday(D + a) /\ Weekday(D + (a + 1)) /\ Weekday(D + (a + 2))
        BY <1>2, <3>1 DEF Weekday
      <4>. QED  BY <4>1
    <3>2. CASE a = 7
      <4>1. 1 \in 1..6 /\ Weekday(D + 1) /\ Weekday(D + (1 + 1)) /\ Weekday(D + (1 + 2))
        BY <1>2, <3>2 DEF Weekday
      <4>. QED  BY <4>1
    <3>. QED  BY <3>1, <3>2
  <2>2. b..(b + 2) \in SUBSET BusinessDays(D, 8)
    BY <2>1 DEF BusinessDays
  <2>3. Cardinality(b..(b + 2)) = 3
    BY FS_Interval
  <2>4. 3 <= Cardinality(BusinessDays(D, 8))
    BY <1>1, <2>2, <2>3, FS_Subset
  <2>. QED  BY <1>1, <1>4, <2>4
<1>5. CASE n = 7
  <2>1. /\ \A e \in a..(a + 4) : Weekday(D + e)
        /\ Weekday(D + (a + 7)) /\ Weekday(D + (a + 8))
    BY <1>2 DEF Weekday
  <2> DEFINE S == (a..(a + 4)) \cup {a + 7}
             T == S \cup {a + 8}
  <2>2. T \in SUBSET BusinessDays(D, 16)
    BY <2>1 DEF BusinessDays
  <2>3. IsFiniteSet(a..(a + 4)) /\ Cardinality(a..(a + 4)) = 5
    BY FS_Interval
  <2>4. IsFiniteSet(S) /\ Cardinality(S) = 6
    <3> DEFINE R == a..(a + 4)
    <3>1. a + 7 \notin R
      OBVIOUS
    <3> HIDE DEF R
    <3>2. IsFiniteSet(R) /\ Cardinality(R) = 5
      BY <2>3 DEF R
    <3>3. IsFiniteSet(R \cup {a + 7}) /\ Cardinality(R \cup {a + 7}) = 6
      BY <3>1, <3>2, FS_AddElement
    <3>. QED  BY <3>3 DEF R
  <2>5. a + 8 \notin S
    OBVIOUS
  <2>6. Cardinality(T) = 7
    <3> HIDE DEF S
    <3>. QED  BY <2>4, <2>5, FS_AddElement
  <2>7. 7 <= Cardinality(BusinessDays(D, 16))
    <3> HIDE DEF T
    <3>. QED  BY <1>1, <2>2, <2>6, FS_Subset
  <2>. QED  BY <1>1, <1>5, <2>7
<1>. QED  BY <1>3, <1>4, <1>5

\* The business days of the cadence exist.
LEMMA BusinessDaysAdded ==
  ASSUME NEW t \in Nat, NEW n \in {0, 3, 7}
  PROVE  AddBusinessDays(t, n) \in Nat
<1> DEFINE D == Day(t)
           g(d) == Cardinality(BusinessDays(D, d))
           top == 2 * n + 2
           T == {d \in 0..top : g(d) >= n}
           S == {d \in 0..top : Cardinality({e \in 1..d : Weekday(Day(t) + e)}) = n}
<1>1. D \in Nat /\ top \in Nat /\ n \in Nat
  BY DEF Day
<1>2. \A d \in Nat : g(d) \in Nat /\ g(d + 1) <= g(d) + 1 /\ g(0) = 0
  BY <1>1, OneDayMore
<1>3. g(top) >= n
  BY <1>1, EnoughBusinessDays
<1> HIDE DEF g, top, D
<1>4. T \in SUBSET Nat /\ T # {}
  <2>1. top \in T
    BY <1>1, <1>3
  <2>. QED  BY <2>1
<1> DEFINE m == Min(T)
<1>5. m \in T /\ \A d \in T : m <= d
  BY <1>4, MinIsLeast
<1> HIDE DEF m
<1>6. g(m) = n
  <2>1. CASE m = 0
    BY <1>1, <1>2, <1>5, <2>1
  <2>2. CASE m # 0
    <3>1. m \in Nat /\ m - 1 \in 0..top /\ ~(m <= m - 1)
      BY <1>1, <1>5, <2>2
    <3>2. g(m - 1) < n
      BY <1>1, <1>2, <1>5, <3>1
    <3>3. m - 1 \in Nat /\ (m - 1) + 1 = m
      BY <3>1
    <3>4. g(m) <= g(m - 1) + 1
      BY <1>2, <3>3
    <3>. QED  BY <1>1, <1>2, <1>5, <3>1, <3>2, <3>3, <3>4
  <2>. QED  BY <2>1, <2>2
<1>7. m \in S /\ S \in SUBSET Nat
  <2>1. g(m) = Cardinality({e \in 1..m : Weekday(Day(t) + e)})
    BY DEF g, BusinessDays, D
  <2>. QED  BY <1>1, <1>5, <1>6, <2>1
<1>8. Min(S) \in Nat
  BY <1>7, MinIsLeast
<1>9. AddBusinessDays(t, n) = t + 2 * Min(S)
  BY DEF AddBusinessDays, top
<1>. QED  BY <1>8, <1>9
-----------------------------------------------------------------------------
(* What is planned.                                                        *)

LEMMA KeysAreCounted ==
  ASSUME NEW ledger \in Seq(Touch)
  PROVE  /\ Len(ledger) \in Nat /\ DOMAIN ledger = 1..Len(ledger)
         /\ \A i \in DOMAIN ledger : /\ ledger[i] \in Touch
                                     /\ ledger[i].key \in 1..5
                                     /\ ledger[i].plannedAt \in Nat
         /\ KeysOf(ledger) \in SUBSET (1..5)
         /\ IsFiniteSet(KeysOf(ledger))
         /\ Ordinal(ledger) \in Nat
<1>1. Len(ledger) \in Nat /\ DOMAIN ledger = 1..Len(ledger)
  BY LenProperties
<1>2. \A i \in DOMAIN ledger : ledger[i] \in Touch
  BY <1>1, ElementOfSeq
<1>3. \A i \in DOMAIN ledger : ledger[i].key \in 1..5 /\ ledger[i].plannedAt \in Nat
  BY <1>2 DEF Touch, Keys, MaxApproved
<1>4. KeysOf(ledger) \in SUBSET (1..5)
  BY <1>3 DEF KeysOf
<1>5. IsFiniteSet(KeysOf(ledger))
  <2>1. \A k \in Nat : IsFiniteSet(1..k)
    BY FS_Interval
  <2>2. IsFiniteSet(1..5)
    BY <2>1
  <2>. QED  BY <1>4, <2>2, FS_Subset
<1>. QED  BY <1>1, <1>2, <1>3, <1>4, <1>5, FS_CardinalityType DEF Ordinal

\* The touch that counts as the last is one of the ledger.
LEMMA LastTouchIsOne ==
  ASSUME NEW ledger \in Seq(Touch), ledger # << >>
  PROVE  \E f, l \in DOMAIN ledger :
           /\ \A j \in 1..(f - 1) : ledger[j].key # ledger[f].key
           /\ \A i \in DOMAIN ledger :
                (\A j \in 1..(i - 1) : ledger[j].key # ledger[i].key) => i <= f
           /\ ledger[l].key = ledger[f].key
           /\ LastTouch(ledger) = ledger[l]
<1> DEFINE n == Len(ledger)
           F == {i \in DOMAIN ledger : \A j \in 1..(i - 1) : ledger[j].key # ledger[i].key}
           f == Max(F)
           L == {i \in DOMAIN ledger : ledger[i].key = ledger[f].key}
           l == Max(L)
<1>1. n \in Nat \ {0} /\ DOMAIN ledger = 1..n
  BY LenProperties, EmptySeq
<1> HIDE DEF n
<1>2. F \in SUBSET Nat /\ 1 \in F /\ \A y \in F : y <= n
  BY <1>1
<1>3. f \in F /\ \A y \in F : y <= f
  <2> HIDE DEF F
  <2>. QED  BY <1>1, <1>2, MaxIsGreatest
<1> HIDE DEF f
<1>4. L \in SUBSET Nat /\ f \in L /\ \A y \in L : y <= n
  BY <1>1, <1>3
<1>5. l \in L
  <2> HIDE DEF L
  <2>. QED  BY <1>1, <1>4, MaxIsGreatest
<1>6. LastTouch(ledger) = ledger[l]
  BY DEF LastTouch, f
<1> HIDE DEF l
<1>. QED  BY <1>3, <1>5, <1>6

LEMMA CandidateIsLate ==
  ASSUME NEW ledger \in Seq(Touch), NEW start \in Nat, NEW time \in Nat,
         EnabledChannels # << >>
  PROVE  /\ Candidate(ledger, start, time) \in Nat
         /\ Candidate(ledger, start, time) >= time
         /\ ledger # << >> =>
              Candidate(ledger, start, time)
                >= LastTouch(ledger).plannedAt + Spacing[SelectedChannel(ledger)]
<1> DEFINE step == Min({Ordinal(ledger) + 1, Len(Cadence)})
           due == AddBusinessDays(start, Cadence[step])
           apart == IF ledger = << >> THEN {}
                    ELSE {LastTouch(ledger).plannedAt + Spacing[SelectedChannel(ledger)]}
           S == {due, time} \cup apart
<1>1. step \in 1..3
  <2>1. Len(Cadence) = 3
    BY DEF Cadence
  <2>2. {Ordinal(ledger) + 1, Len(Cadence)} \in SUBSET Nat
    BY <2>1, KeysAreCounted
  <2>3. step \in {Ordinal(ledger) + 1, Len(Cadence)} /\ step <= Len(Cadence)
    BY <2>2, MinIsLeast
  <2> HIDE DEF step
  <2>. QED  BY <2>1, <2>3, KeysAreCounted
<1>2. Cadence[step] \in {0, 3, 7}
  <2> HIDE DEF step
  <2>. QED  BY <1>1 DEF Cadence
<1>3. due \in Nat
  <2> HIDE DEF step
  <2>. QED  BY <1>2, BusinessDaysAdded
<1>4. apart \in SUBSET Nat
  <2>1. CASE ledger # << >>
    <3>1. LastTouch(ledger).plannedAt \in Nat
      BY <2>1, LastTouchIsOne, KeysAreCounted
    <3>2. Spacing[SelectedChannel(ledger)] \in Nat
      BY KeysAreCounted, ChannelIsOne DEF SelectedChannel
    <3>. QED  BY <3>1, <3>2
  <2>. QED  BY <2>1
<1> HIDE DEF due
<1>5. S \in SUBSET Nat /\ time \in S
  BY <1>3, <1>4
<1>6. PICK b \in Nat : \A y \in S : y <= b
  <2>1. CASE ledger = << >>
    <3>1. due + time \in Nat /\ \A y \in {due, time} : y <= due + time
      BY <1>3
    <3>2. S = {due, time}
      BY <2>1
    <3> HIDE DEF S
    <3>. QED  BY <3>1, <3>2
  <2>2. CASE ledger # << >>
    <3> DEFINE last == LastTouch(ledger).plannedAt + Spacing[SelectedChannel(ledger)]
    <3>1. S = {due, time, last} /\ last \in Nat
      BY <1>4, <2>2
    <3> HIDE DEF last, S
    <3>2. due + time + last \in Nat /\ \A y \in {due, time, last} : y <= due + time + last
      BY <1>3, <3>1
    <3>. QED  BY <3>1, <3>2
  <2>. QED  BY <2>1, <2>2
<1>7. Max(S) \in S /\ \A y \in S : y <= Max(S)
  <2> HIDE DEF S
  <2>. QED  BY <1>5, <1>6, MaxIsGreatest
<1>8. Candidate(ledger, start, time) = Max(S)
  BY DEF Candidate, due
<1>. QED  BY <1>5, <1>7, <1>8

\* No exception allows more than five, nor more than was approved.
LEMMA ApprovedIsBounded ==
  ASSUME TypeOK
  PROVE  /\ ApprovedMaximum(context, now) \in 1..5
         /\ ApprovedMaximum(context, now) <= Highest(context.override)
         /\ Highest(context.override) \in 1..5
<1>1. context.override \in Overrides \cup {NoOverride}
  BY DEF TypeOK
<1>2. context.override.max \in Nat
  BY <1>1, EngineAssumption DEF EngineAssumption, NoOverride
<1>3. MaxProactiveTouches \in 1..5
  BY PolicyAssumption DEF PolicyAssumption, MaxApproved
<1>. QED  BY <1>2, <1>3 DEF ApprovedMaximum, Highest, MaxApproved

\* What is planned of a ledger is a touch of a key that is not on record, no earlier
\* than now and at its distance from the last one.
LEMMA PlanIsLater ==
  ASSUME NEW ctx, ctx.ledger \in Seq(Touch), NEW start \in Nat, NEW time \in Nat,
         ApprovedMaximum(ctx, time) \in 1..5,
         NEW requested \in 0..(Ordinal(ctx.ledger) + 1),
         NEW plan, plan = AroundHolidays(PlanNextTouch(ctx, requested, start, time)),
         plan.outcome = "SCHEDULED"
  PROVE  LET ledger == ctx.ledger IN
         /\ plan.touch \in Touch
         /\ plan.touch.plannedAt >= time
         /\ IsWithinContactWindow(plan.touch.plannedAt) /\ ~IsHoliday(plan.touch.plannedAt)
         /\ plan.touch.key = IF requested = NoKey THEN Ordinal(ledger) + 1 ELSE requested
         /\ plan.touch.channel = SelectedChannel(ledger)
         /\ requested \notin KeysOf(ledger)
         /\ Ordinal(ledger) < ApprovedMaximum(ctx, time)
         /\ ~Stopped(ctx)
         /\ EnabledChannels # << >>
         /\ ledger # << >> =>
              plan.touch.plannedAt >= LastTouch(ledger).plannedAt + Spacing[SelectedChannel(ledger)]
<1> DEFINE ledger == ctx.ledger
           first == PlanNextTouch(ctx, requested, start, time)
           date == NextContactWindow(Candidate(ledger, start, time))
           sent == [key |-> IF requested = NoKey THEN TouchKey(ledger) ELSE requested,
                    channel |-> SelectedChannel(ledger), plannedAt |-> date, status |-> "PLANNED"]
<1>1. ledger \in Seq(Touch) /\ time \in Nat /\ start \in Nat
  OBVIOUS
<1>2. first.outcome = "SCHEDULED"
  BY DEF AroundHolidays, Outcome
<1>3. /\ ~Stopped(ctx) /\ requested \notin KeysOf(ledger)
      /\ ~(Ordinal(ledger) >= ApprovedMaximum(ctx, time)) /\ EnabledChannels # << >>
      /\ first = [outcome |-> "SCHEDULED", touch |-> sent]
  <2>1. CASE Stopped(ctx)
    BY <1>2, <2>1 DEF PlanNextTouch, Outcome
  <2>2. CASE ~Stopped(ctx) /\ requested \in KeysOf(ledger)
    BY <1>2, <2>2 DEF PlanNextTouch, Outcome
  <2>3. CASE /\ ~Stopped(ctx) /\ requested \notin KeysOf(ledger)
             /\ Ordinal(ledger) >= ApprovedMaximum(ctx, time) \/ EnabledChannels = << >>
    BY <1>2, <2>3 DEF PlanNextTouch, Outcome
  <2>4. CASE /\ ~Stopped(ctx) /\ requested \notin KeysOf(ledger)
             /\ ~(Ordinal(ledger) >= ApprovedMaximum(ctx, time)) /\ EnabledChannels # << >>
    BY <2>4 DEF PlanNextTouch
  <2>. QED  BY <2>1, <2>2, <2>3, <2>4
<1> HIDE DEF first, sent
<1>4. ApprovedMaximum(ctx, time) \in 1..5
  OBVIOUS
<1>5. Ordinal(ledger) \in Nat /\ Ordinal(ledger) < 5
  BY <1>1, <1>3, <1>4, KeysAreCounted
<1>6. /\ Candidate(ledger, start, time) \in Nat
      /\ Candidate(ledger, start, time) >= time
      /\ ledger # << >> => Candidate(ledger, start, time)
                             >= LastTouch(ledger).plannedAt + Spacing[SelectedChannel(ledger)]
  BY <1>1, <1>3, CandidateIsLate
<1>7. /\ date \in Nat /\ date >= Candidate(ledger, start, time)
      /\ IsWithinContactWindow(date)
  BY <1>6, WindowIsNext
<1> HIDE DEF date
<1>8. /\ sent \in Touch /\ sent.plannedAt = date
      /\ sent.key = IF requested = NoKey THEN Ordinal(ledger) + 1 ELSE requested
      /\ sent.channel = SelectedChannel(ledger)
  <2>1. SelectedChannel(ledger) \in Channels
    BY <1>1, <1>3, KeysAreCounted, ChannelIsOne DEF SelectedChannel
  <2> DEFINE key == IF requested = NoKey THEN TouchKey(ledger) ELSE requested
  <2>2. key \in Keys /\ key = IF requested = NoKey THEN Ordinal(ledger) + 1 ELSE requested
    BY <1>5 DEF TouchKey, Keys, MaxApproved, NoKey
  <2>3. sent = [key |-> key, channel |-> SelectedChannel(ledger), plannedAt |-> date,
                status |-> "PLANNED"]
    BY DEF sent, date
  <2> HIDE DEF key
  <2>. QED  BY <1>7, <2>1, <2>2, <2>3 DEF Touch
<1>9. /\ plan.touch \in Touch /\ plan.touch.key = sent.key /\ plan.touch.channel = sent.channel
      /\ plan.touch.plannedAt >= date
      /\ IsWithinContactWindow(plan.touch.plannedAt) /\ ~IsHoliday(plan.touch.plannedAt)
  <2>1. first.touch = sent /\ first.touch.plannedAt = date
    BY <1>3, <1>8
  <2>2. CASE Holidays = {}
    <3>1. plan = first
      BY <2>2 DEF AroundHolidays, first
    <3>. QED  BY <1>7, <1>8, <2>1, <2>2, <3>1 DEF IsHoliday
  <2>3. CASE Holidays # {}
    <3> DEFINE slots == WorkingSlots(date)
               slot == Min(slots)
    <3>1. plan = IF slots = {} THEN Outcome("THROWN")
                 ELSE [first EXCEPT !.touch.plannedAt = slot]
      BY <1>2, <2>1, <2>3 DEF AroundHolidays, first
    <3>2. slots # {} /\ plan = [first EXCEPT !.touch.plannedAt = slot]
      BY <3>1 DEF Outcome
    <3>3. slot \in Nat /\ slot >= date /\ IsWithinContactWindow(slot) /\ ~IsHoliday(slot)
      BY <1>7, <3>2, SlotIsWorking
    <3> HIDE DEF slot
    <3>4. plan.touch = [sent EXCEPT !.plannedAt = slot]
      BY <1>3, <3>2
    <3>5. plan.touch \in Touch /\ plan.touch.key = sent.key /\ plan.touch.channel = sent.channel /\ plan.touch.plannedAt = slot
      BY <1>8, <3>3, <3>4 DEF Touch
    <3>. QED  BY <3>3, <3>5
  <2>. QED  BY <2>2, <2>3
<1>10. plan.touch.plannedAt >= time
  <2>1. plan.touch.plannedAt \in Nat
    BY <1>9 DEF Touch
  <2>. QED  BY <1>1, <1>6, <1>7, <1>9, <2>1
<1>11. ledger # << >> =>
         plan.touch.plannedAt >= LastTouch(ledger).plannedAt + Spacing[SelectedChannel(ledger)]
  <2> SUFFICES ASSUME ledger # << >>
               PROVE  plan.touch.plannedAt
                        >= LastTouch(ledger).plannedAt + Spacing[SelectedChannel(ledger)]
    OBVIOUS
  <2>1. LastTouch(ledger).plannedAt \in Nat
    BY <1>1, LastTouchIsOne, KeysAreCounted
  <2>2. Spacing[SelectedChannel(ledger)] \in Nat
    BY <1>1, <1>3, KeysAreCounted, ChannelIsOne DEF SelectedChannel
  <2>3. plan.touch.plannedAt \in Nat
    BY <1>9 DEF Touch
  <2>. QED  BY <1>1, <1>6, <1>7, <1>9, <1>10, <2>1, <2>2, <2>3
<1>12. Ordinal(ledger) < ApprovedMaximum(ctx, time)
  BY <1>3, <1>4, <1>5
<1>. QED  BY <1>3, <1>8, <1>9, <1>10, <1>11, <1>12

\* What Advance sends is a touch of a key that is not on record, when it is due.
LEMMA PlanIsDue ==
  ASSUME TypeOK, NEW requested \in Known \cup {NoKey},
         NEW plan, plan = AroundHolidays(PlanNextTouch(context, requested, StartedAt, now)),
         plan.outcome = "SCHEDULED", plan.touch.plannedAt <= now
  PROVE  LET ledger == context.ledger IN
         /\ plan.touch \in Touch
         /\ plan.touch.plannedAt = now
         /\ IsWithinContactWindow(now) /\ ~IsHoliday(now)
         /\ plan.touch.key = IF requested = NoKey THEN Ordinal(ledger) + 1 ELSE requested
         /\ requested \notin KeysOf(ledger)
         /\ Ordinal(ledger) < ApprovedMaximum(context, now)
         /\ ~Stopped(context)
         /\ EnabledChannels # << >>
         /\ ledger # << >> => now >= LastTouch(ledger).plannedAt + Spacing[SelectedChannel(ledger)]
<1>1. context.ledger \in Seq(Touch) /\ now \in Nat /\ StartedAt \in Nat
  BY EngineAssumption DEF TypeOK, EngineAssumption
<1>2. ApprovedMaximum(context, now) \in 1..5
  BY ApprovedIsBounded
<1>3. requested \in 0..(Ordinal(context.ledger) + 1)
  BY <1>1, KeysAreCounted DEF Known, NoKey
<1> DEFINE first == PlanNextTouch(context, requested, StartedAt, now)
<1>4. plan = AroundHolidays(first)
  OBVIOUS
<1>5. /\ plan.touch \in Touch /\ plan.touch.plannedAt >= now
      /\ IsWithinContactWindow(plan.touch.plannedAt) /\ ~IsHoliday(plan.touch.plannedAt)
      /\ plan.touch.key = IF requested = NoKey THEN Ordinal(context.ledger) + 1 ELSE requested
      /\ requested \notin KeysOf(context.ledger)
      /\ Ordinal(context.ledger) < ApprovedMaximum(context, now)
      /\ ~Stopped(context) /\ EnabledChannels # << >>
      /\ context.ledger # << >> => plan.touch.plannedAt
           >= LastTouch(context.ledger).plannedAt + Spacing[SelectedChannel(context.ledger)]
  BY <1>1, <1>2, <1>3, <1>4, PlanIsLater
<1> HIDE DEF first
<1>6. plan.touch.plannedAt = now
  <2>1. plan.touch.plannedAt \in Nat
    BY <1>5 DEF Touch
  <2>. QED  BY <1>1, <1>5, <2>1
<1>. QED  BY <1>5, <1>6
-----------------------------------------------------------------------------
(* Type correctness.                                                       *)

LEMMA InitTyped == Init => TypeOK
<1> SUFFICES ASSUME Init
             PROVE  TypeOK
  OBVIOUS
<1>1. << >> \in Seq(Contents) /\ << >> \in Seq(Touch)
  BY EmptySeq
<1>2. /\ context \in [ledger : Seq(Touch), signals : SUBSET Signals, suppressed : BOOLEAN,
                      override : Overrides \cup {NoOverride}]
  BY <1>1 DEF Init
<1>3. /\ record \in [SendKeys -> Record \cup {NoRecord}] /\ inbox \in [SendKeys -> Seq(Contents)]
      /\ late \in [Callers -> SUBSET Request] /\ pc \in [Callers -> Places]
      /\ request \in [Callers -> Request \cup {NoRequest}]
      /\ confirmed \in [SendKeys -> Nat]
  BY <1>1 DEF Init, GatewayInit, Places
<1>4. result \in [Callers -> Result]
  BY DEF Init, GatewayInit, Result, NoResult
<1>5. sends \in 0..MaxSends /\ now \in StartedAt..Horizon
  BY GatewayAssumption, EngineAssumption
     DEF Init, GatewayInit, GatewayAssumption, EngineAssumption
<1>6. /\ touch \in [Callers -> Touch \cup {NoTouch}] /\ sentAt \in [Keys -> SUBSET Nat]
      /\ grace \subseteq Callers
  BY DEF Init
<1>. QED  BY <1>2, <1>3, <1>4, <1>5, <1>6 DEF TypeOK

\* The part of the type that the gateway writes.
GateTypeOK ==
  /\ record \in [SendKeys -> Record \cup {NoRecord}]
  /\ inbox \in [SendKeys -> Seq(Contents)]
  /\ late \in [Callers -> SUBSET Request]
  /\ pc \in [Callers -> Places]
  /\ request \in [Callers -> Request \cup {NoRequest}]
  /\ result \in [Callers -> Result]
  /\ confirmed \in [SendKeys -> Nat]
  /\ sends \in 0..MaxSends

\* Messages only join the inbox.
Grown(box) ==
  \A k \in SendKeys : \A i \in DOMAIN inbox[k] : i \in DOMAIN box[k] /\ box[k][i] = inbox[k][i]

LEMMA InboxGrows ==
  ASSUME GateTypeOK, NEW r \in Request
  PROVE  LET box == [inbox EXCEPT ![r.key] = Append(@, r.content)]
             n == Len(inbox[r.key]) + 1 IN
         /\ box \in [SendKeys -> Seq(Contents)]
         /\ Grown(box)
         /\ n \in Nat /\ n \in DOMAIN box[r.key] /\ box[r.key][n] = r.content
<1> DEFINE old == inbox[r.key]
           new == Append(old, r.content)
           box == [inbox EXCEPT ![r.key] = Append(@, r.content)]
           n == Len(old) + 1
<1>1. /\ r.key \in SendKeys /\ r.content \in Contents
      /\ inbox \in [SendKeys -> Seq(Contents)] /\ old \in Seq(Contents)
  BY DEF GateTypeOK, Request
<1>2. /\ new \in Seq(Contents) /\ Len(new) = n /\ n \in Nat
      /\ DOMAIN old = 1..Len(old) /\ DOMAIN new = 1..n /\ n \in 1..n
      /\ new[n] = r.content /\ \A i \in 1..Len(old) : new[i] = old[i]
  <2>1. /\ new \in Seq(Contents) /\ Len(new) = n /\ Len(old) \in Nat /\ DOMAIN old = 1..Len(old)
        /\ new[n] = r.content /\ \A i \in 1..Len(old) : new[i] = old[i]
    BY <1>1, AppendProperties, LenProperties
  <2>. QED  BY <2>1, LenProperties
<1> HIDE DEF new, n
<1>3. box = [inbox EXCEPT ![r.key] = new]
  BY DEF new
<1> HIDE DEF box
<1>4. box \in [SendKeys -> Seq(Contents)]
  BY <1>1, <1>2, <1>3
<1>5. \A k \in SendKeys : box[k] = IF k = r.key THEN new ELSE inbox[k]
  BY <1>1, <1>3
<1>6. Grown(box)
  BY <1>2, <1>5 DEF Grown, n
<1>7. n \in DOMAIN box[r.key] /\ box[r.key][n] = r.content
  BY <1>1, <1>2, <1>5
<1>. QED  BY <1>2, <1>4, <1>6, <1>7 DEF box, n

\* One call moves, the others see at most more messages.
LEMMA CallMoves ==
  ASSUME GateTypeOK, GateInv, NEW c \in Callers,
         NEW place \in Places, NEW asked \in Request \cup {NoRequest}, NEW told \in Result,
         NEW box \in [SendKeys -> Seq(Contents)],
         pc' = [pc EXCEPT ![c] = place],
         request' = [request EXCEPT ![c] = asked],
         result' = [result EXCEPT ![c] = told],
         inbox' = box, Grown(box),
         CallInv(place, asked, told, box),
         late' \in [Callers -> SUBSET Request],
         record' \in [SendKeys -> Record \cup {NoRecord}],
         confirmed' \in [SendKeys -> Nat],
         sends' \in 0..MaxSends,
         \A k \in SendKeys : RecordInv(record'[k], box[k], confirmed'[k])
  PROVE  GateTypeOK' /\ GateInv'
<1>1. GateTypeOK'
  BY DEF GateTypeOK
<1>2. ASSUME NEW d \in Callers
      PROVE  CallInv(pc'[d], request'[d], result'[d], box)
  <2>1. CASE d = c
    BY <2>1 DEF GateTypeOK
  <2>2. CASE d # c
    <3>1. pc'[d] = pc[d] /\ request'[d] = request[d] /\ result'[d] = result[d]
      BY <2>2 DEF GateTypeOK
    <3>2. CallInv(pc[d], request[d], result[d], inbox)
      BY DEF GateInv
    <3>3. request[d] \in Request => request[d].key \in SendKeys
      BY DEF Request
    <3>. QED  BY <3>1, <3>2, <3>3 DEF CallInv, Grown
  <2>. QED  BY <2>1, <2>2
<1>3. \A d \in Callers : CallInv(pc'[d], request'[d], result'[d], inbox')
  BY <1>2
<1>4. \A k \in SendKeys : RecordInv(record'[k], inbox'[k], confirmed'[k])
  OBVIOUS
<1>. QED  BY <1>1, <1>3, <1>4 DEF GateInv, CallInv, RecordInv

\* What is recorded stays so while messages join.
LEMMA RecordsStay ==
  ASSUME GateInv, NEW box, Grown(box)
  PROVE  \A k \in SendKeys : RecordInv(record[k], box[k], confirmed[k])
BY DEF GateInv, RecordInv, Grown

LEMMA GateFacts ==
  ASSUME GateTypeOK, GateInv, NEW c \in Callers
  PROVE  /\ pc[c] \in Places /\ result[c] \in Result /\ request[c] \in Request \cup {NoRequest}
         /\ CallInv(pc[c], request[c], result[c], inbox)
         /\ pc[c] # "idle" => /\ request[c] \in Request
                              /\ request[c].key \in SendKeys /\ request[c].content \in Contents
         /\ Grown(inbox)
BY DEF GateTypeOK, GateInv, CallInv, Request, Grown

LEMMA GateStep ==
  ASSUME GateTypeOK, GateInv, NEW c \in Callers,
         \/ \E r \in Request, usable \in BOOLEAN : BeginSend(c, r, usable)
         \/ GatewayStep(c) \/ Take(c) \/ LateArrival(c)
         \/ pc[c] = "answered" /\ Return(c) /\ UNCHANGED late
  PROVE  GateTypeOK' /\ GateInv'
<1> DEFINE r == request[c]
<1>1. /\ pc[c] \in Places /\ result[c] \in Result /\ r \in Request \cup {NoRequest}
      /\ CallInv(pc[c], r, result[c], inbox) /\ Grown(inbox)
      /\ pc[c] # "idle" => r \in Request /\ r.key \in SendKeys /\ r.content \in Contents
      /\ inbox \in [SendKeys -> Seq(Contents)]
      /\ \A k \in SendKeys : RecordInv(record[k], inbox[k], confirmed[k])
  BY GateFacts, RecordsStay DEF GateTypeOK
<1>2. /\ request = [request EXCEPT ![c] = r] /\ result = [result EXCEPT ![c] = result[c]]
      /\ pc = [pc EXCEPT ![c] = pc[c]]
  BY DEF GateTypeOK
<1>3. /\ late \in [Callers -> SUBSET Request]
      /\ record \in [SendKeys -> Record \cup {NoRecord}]
      /\ confirmed \in [SendKeys -> Nat] /\ sends \in 0..MaxSends
  BY DEF GateTypeOK
<1>4. Failed \in Result /\ Failed.status = "FAILED" /\ NoResult \in Result /\ NoResult.status = "none"
  BY DEF Failed, NoResult, Result
<1>5. {"idle", "lookup", "calling", "taken", "acknowledged", "answered"} = Places
  BY DEF Places
<1>6. ASSUME NEW q \in Request, NEW usable \in BOOLEAN, BeginSend(c, q, usable)
      PROVE  GateTypeOK' /\ GateInv'
  <2> DEFINE place == IF usable THEN "lookup" ELSE "answered"
             told == IF usable THEN result[c] ELSE Failed
  <2>1. /\ pc' = [pc EXCEPT ![c] = place] /\ request' = [request EXCEPT ![c] = q]
        /\ result' = [result EXCEPT ![c] = told]
        /\ sends' = sends + 1 /\ sends < MaxSends
        /\ UNCHANGED <<record, inbox, late, confirmed>>
    BY <1>2, <1>6 DEF BeginSend, Answer
  <2>2. sends' \in 0..MaxSends
    BY <1>3, <2>1, GatewayAssumption DEF GatewayAssumption
  <2>3. place \in Places /\ told \in Result /\ CallInv(place, q, told, inbox)
    BY <1>1, <1>4, <1>5 DEF CallInv
  <2> HIDE DEF place, told
  <2>. QED  BY <1>1, <1>3, <2>1, <2>2, <2>3, CallMoves
<1>7. CASE Lookup(c)
  <2> DEFINE found == record[r.key]
             place == IF found = NoRecord THEN "calling" ELSE "answered"
             told == IF found = NoRecord THEN result[c]
                     ELSE IF found.content # r.content THEN Failed
                     ELSE [status |-> "SUCCEEDED", message |-> found.message, deduplicated |-> TRUE]
  <2>1. /\ pc[c] = "lookup"
        /\ pc' = [pc EXCEPT ![c] = place] /\ request' = [request EXCEPT ![c] = r]
        /\ result' = [result EXCEPT ![c] = told]
        /\ UNCHANGED <<record, inbox, late, confirmed, sends>>
    BY <1>2, <1>7 DEF Lookup, Answer
  <2>2. found \in Record \cup {NoRecord} /\ RecordInv(found, inbox[r.key], confirmed[r.key])
    BY <1>1, <1>3, <2>1
  <2>3. place \in Places /\ told \in Result
    BY <1>1, <1>4, <1>5, <2>2 DEF Record, Result
  <2>4. CallInv(place, r, told, inbox)
    <3>1. CASE found = NoRecord
      BY <1>1, <2>1, <3>1 DEF CallInv
    <3>2. CASE found # NoRecord /\ found.content # r.content
      BY <1>1, <1>4, <2>1, <3>2 DEF CallInv
    <3>3. CASE found # NoRecord /\ found.content = r.content
      BY <1>1, <2>1, <2>2, <3>3 DEF CallInv, RecordInv
    <3>. QED  BY <3>1, <3>2, <3>3
  <2> HIDE DEF place, told
  <2>. QED  BY <1>1, <1>3, <2>1, <2>3, <2>4, CallMoves
<1>8. CASE Take(c)
  <2> DEFINE box == [inbox EXCEPT ![r.key] = Append(@, r.content)]
             n == Len(inbox[r.key]) + 1
             told == [result[c] EXCEPT !.message = n]
  <2>1. /\ pc[c] = "calling"
        /\ pc' = [pc EXCEPT ![c] = "taken"] /\ request' = [request EXCEPT ![c] = r]
        /\ result' = [result EXCEPT ![c] = told] /\ inbox' = box
        /\ UNCHANGED <<record, late, confirmed, sends>>
    BY <1>2, <1>8 DEF Take, GateTypeOK
  <2>2. /\ box \in [SendKeys -> Seq(Contents)] /\ Grown(box)
        /\ n \in Nat /\ n \in DOMAIN box[r.key] /\ box[r.key][n] = r.content
    BY <1>1, <2>1, InboxGrows
  <2> HIDE DEF box, n
  <2>3. told \in Result /\ told.message = n
    BY <1>1, <2>2 DEF Result
  <2>4. CallInv("taken", r, told, box)
    BY <1>1, <2>1, <2>2, <2>3 DEF CallInv
  <2> HIDE DEF told
  <2>. QED  BY <1>1, <1>3, <1>5, <2>1, <2>2, <2>3, <2>4, CallMoves, RecordsStay
<1>9. CASE Acknowledge(c)
  <2> DEFINE told == [result[c] EXCEPT !.status = "SUCCEEDED"]
  <2>1. /\ pc[c] = "taken"
        /\ pc' = [pc EXCEPT ![c] = "acknowledged"] /\ request' = [request EXCEPT ![c] = r]
        /\ result' = [result EXCEPT ![c] = told]
        /\ UNCHANGED <<record, inbox, late, confirmed, sends>>
    BY <1>2, <1>9 DEF Acknowledge, GateTypeOK
  <2>2. told \in Result /\ told.message = result[c].message /\ told.status = "SUCCEEDED"
    BY <1>1 DEF Result
  <2> HIDE DEF told
  <2>3. CallInv("acknowledged", r, told, inbox)
    BY <1>1, <2>1, <2>2 DEF CallInv
  <2>. QED  BY <1>1, <1>3, <1>5, <2>1, <2>2, <2>3, CallMoves
<1>10. CASE ProviderFails(c) \/ Timeout(c)
  <2>1. /\ pc[c] \in {"calling", "taken"}
        /\ pc' = [pc EXCEPT ![c] = "answered"] /\ request' = [request EXCEPT ![c] = r]
        /\ result' = [result EXCEPT ![c] = Failed]
        /\ UNCHANGED <<record, inbox, confirmed, sends>>
    BY <1>2, <1>10 DEF ProviderFails, Timeout, Answer
  <2>2. r \in Request
    BY <1>1, <2>1
  <2>3. late' \in [Callers -> SUBSET Request]
    BY <1>3, <1>10, <2>2 DEF ProviderFails, Timeout
  <2>4. CallInv("answered", r, Failed, inbox)
    BY <1>4, <2>2 DEF CallInv
  <2>. QED  BY <1>1, <1>3, <1>4, <1>5, <2>1, <2>3, <2>4, CallMoves
<1>11. CASE LateArrival(c)
  <2>1. PICK q \in late[c] :
          /\ inbox' = [inbox EXCEPT ![q.key] = Append(@, q.content)] \/ UNCHANGED inbox
          /\ late' = [late EXCEPT ![c] = @ \ {q}]
          /\ UNCHANGED <<record, pc, request, result, confirmed, sends>>
    BY <1>11 DEF LateArrival
  <2>2. q \in Request /\ late' \in [Callers -> SUBSET Request]
    BY <1>3, <2>1
  <2>3. inbox' \in [SendKeys -> Seq(Contents)] /\ Grown(inbox')
    <3>1. CASE UNCHANGED inbox
      BY <1>1, <3>1 DEF Grown
    <3>2. CASE inbox' = [inbox EXCEPT ![q.key] = Append(@, q.content)]
      BY <2>2, <3>2, InboxGrows
    <3>. QED  BY <2>1, <3>1, <3>2
  <2>4. CallInv(pc[c], r, result[c], inbox')
    BY <1>1, <2>3 DEF CallInv, Grown
  <2>5. \A k \in SendKeys : RecordInv(record[k], inbox'[k], confirmed[k])
    BY <2>3, RecordsStay
  <2>6. pc' = [pc EXCEPT ![c] = pc[c]] /\ request' = [request EXCEPT ![c] = r]
        /\ result' = [result EXCEPT ![c] = result[c]]
    BY <1>2, <2>1
  <2> DEFINE box == inbox'
  <2>7. box \in [SendKeys -> Seq(Contents)] /\ Grown(box) /\ inbox' = box
        /\ CallInv(pc[c], r, result[c], box)
        /\ \A k \in SendKeys : RecordInv(record'[k], box[k], confirmed'[k])
    BY <2>1, <2>3, <2>4, <2>5
  <2> HIDE DEF box
  <2>. QED  BY <1>1, <1>3, <2>1, <2>2, <2>6, <2>7, CallMoves
<1>12. CASE RecordResult(c)
  <2> DEFINE k == r.key
             new == [content |-> r.content, message |-> result[c].message]
  <2>1. pc[c] = "acknowledged" /\ r \in Request /\ k \in SendKeys
    BY <1>1, <1>12 DEF RecordResult
  <2>2. CASE record[k] = NoRecord
    <3>1. /\ pc' = [pc EXCEPT ![c] = "answered"] /\ request' = [request EXCEPT ![c] = r]
          /\ result' = [result EXCEPT ![c] = result[c]]
          /\ record' = [record EXCEPT ![k] = new]
          /\ confirmed' = [confirmed EXCEPT ![k] = @ + 1]
          /\ UNCHANGED <<inbox, late, sends>>
      BY <1>2, <1>12, <2>2 DEF RecordResult
    <3>2. result[c].message \in DOMAIN inbox[k] /\ inbox[k][result[c].message] = r.content
          /\ CallInv("answered", r, result[c], inbox)
      BY <1>1, <2>1 DEF CallInv
    <3>3. inbox[k] \in Seq(Contents) /\ result[c].message \in Nat \ {0}
      BY <1>1, <2>1, <3>2, LenProperties
    <3>4. new \in Record
      BY <1>1, <2>1, <3>3 DEF Record
    <3>5. new # NoRecord /\ new.message = result[c].message /\ new.content = r.content
      BY <3>3 DEF NoRecord
    <3>6. confirmed[k] = 0 /\ confirmed' \in [SendKeys -> Nat] /\ confirmed'[k] = 1
      BY <1>1, <1>3, <2>1, <2>2, <3>1 DEF RecordInv
    <3> HIDE DEF new
    <3>7. record' \in [SendKeys -> Record \cup {NoRecord}] /\ record'[k] = new
      BY <1>3, <2>1, <3>1, <3>4
    <3>8. ASSUME NEW l \in SendKeys
          PROVE  RecordInv(record'[l], inbox[l], confirmed'[l])
      <4>1. CASE l = k
        BY <3>2, <3>5, <3>6, <3>7, <4>1 DEF RecordInv
      <4>2. CASE l # k
        <5>1. record'[l] = record[l] /\ confirmed'[l] = confirmed[l]
          BY <1>3, <3>1, <4>2
        <5>. QED  BY <1>1, <5>1
      <4>. QED  BY <4>1, <4>2
    <3>. QED  BY <1>1, <1>3, <1>5, <3>1, <3>2, <3>6, <3>7, <3>8, CallMoves
  <2>3. CASE record[k] # NoRecord
    <3> DEFINE told == [NoResult EXCEPT !.status = "THROWN"]
    <3>1. /\ pc' = [pc EXCEPT ![c] = "answered"] /\ request' = [request EXCEPT ![c] = r]
          /\ result' = [result EXCEPT ![c] = told]
          /\ UNCHANGED <<record, confirmed, inbox, late, sends>>
      BY <1>2, <1>12, <2>3 DEF RecordResult
    <3>2. told \in Result /\ told.status = "THROWN"
      BY <1>4 DEF Result
    <3> HIDE DEF told
    <3>3. CallInv("answered", r, told, inbox)
      BY <2>1, <3>2 DEF CallInv
    <3>. QED  BY <1>1, <1>3, <1>5, <3>1, <3>2, <3>3, CallMoves
  <2>. QED  BY <2>2, <2>3
<1>13. CASE Return(c) /\ (Crash(c) \/ UNCHANGED late)
  <2>1. /\ pc' = [pc EXCEPT ![c] = "idle"] /\ request' = [request EXCEPT ![c] = NoRequest]
        /\ result' = [result EXCEPT ![c] = NoResult]
        /\ UNCHANGED <<record, inbox, confirmed, sends>>
    BY <1>13 DEF Return
  <2>2. late' \in [Callers -> SUBSET Request]
    BY <1>1, <1>3, <1>13 DEF Crash
  <2>3. CallInv("idle", NoRequest, NoResult, inbox)
    BY <1>4 DEF CallInv
  <2>. QED  BY <1>1, <1>3, <1>4, <1>5, <2>1, <2>2, <2>3, CallMoves
<1>. QED  BY <1>6, <1>7, <1>8, <1>9, <1>10, <1>11, <1>12, <1>13 DEF GatewayStep, Crash

-----------------------------------------------------------------------------
(* The steps of the engine.                                                *)

EngineInv == TypeOK /\ GateInv /\ TouchInv

LEMMA TypeIsOfTheGate ==
  TypeOK <=> /\ GateTypeOK
             /\ now \in StartedAt..Horizon
             /\ context \in [ledger : Seq(Touch), signals : SUBSET Signals, suppressed : BOOLEAN,
                             override : Overrides \cup {NoOverride}]
             /\ touch \in [Callers -> Touch \cup {NoTouch}]
             /\ sentAt \in [Keys -> SUBSET Nat]
             /\ grace \subseteq Callers
BY DEF TypeOK, GateTypeOK

LEMMA InitInvariant == Init => GateInv
<1> SUFFICES ASSUME Init
             PROVE  GateInv
  OBVIOUS
<1>1. ASSUME NEW c \in Callers PROVE CallInv(pc[c], request[c], result[c], inbox)
  BY DEF Init, GatewayInit, CallInv
<1>2. ASSUME NEW k \in SendKeys PROVE RecordInv(record[k], inbox[k], confirmed[k])
  BY DEF Init, GatewayInit, RecordInv
<1>. QED  BY <1>1, <1>2 DEF GateInv

\* An entry of the ledger.
LEMMA EntryJoins ==
  ASSUME NEW ledger \in Seq(Touch), NEW entry \in Touch
  PROVE  LET new == Append(ledger, entry)
             n == Len(ledger) + 1 IN
         /\ new \in Seq(Touch)
         /\ n \in Nat /\ DOMAIN ledger = 1..(n - 1) /\ DOMAIN new = 1..n
         /\ new[n] = entry
         /\ \A i \in 1..(n - 1) : new[i] = ledger[i]
         /\ \A i \in DOMAIN new : i = n \/ i \in DOMAIN ledger
<1> DEFINE new == Append(ledger, entry)
           n == Len(ledger) + 1
<1>1. /\ new \in Seq(Touch) /\ Len(new) = n /\ Len(ledger) \in Nat
      /\ DOMAIN ledger = 1..Len(ledger) /\ new[n] = entry
      /\ \A i \in 1..Len(ledger) : new[i] = ledger[i]
  BY AppendProperties, LenProperties
<1>2. DOMAIN new = 1..n
  BY <1>1, LenProperties
<1>3. n - 1 = Len(ledger) /\ n \in Nat
  BY <1>1
<1> HIDE DEF new, n
<1>4. \A i \in 1..n : i = n \/ i \in 1..(n - 1)
  BY <1>3
<1>. QED  BY <1>1, <1>2, <1>3, <1>4 DEF new, n

\* A stop is a signal, a suppression or an answer, entered with a touch that was sent.
LEMMA StopEnters ==
  ASSUME context \in [ledger : Seq(Touch), signals : SUBSET Signals, suppressed : BOOLEAN,
                      override : Overrides \cup {NoOverride}],
         Stop
  PROVE  /\ context' \in [ledger : Seq(Touch), signals : SUBSET Signals, suppressed : BOOLEAN,
                          override : Overrides \cup {NoOverride}]
         /\ context'.override = context.override
         /\ DOMAIN context'.ledger = DOMAIN context.ledger
         /\ \A i \in DOMAIN context.ledger :
              /\ context'.ledger[i].key = context.ledger[i].key
              /\ context'.ledger[i].plannedAt = context.ledger[i].plannedAt
<1>1. CASE \E s \in Signals : context' = [context EXCEPT !.signals = @ \cup {s}]
  BY <1>1
<1>2. CASE context' = [context EXCEPT !.suppressed = TRUE]
  BY <1>2
<1>3. ASSUME NEW i \in DOMAIN context.ledger, NEW s \in {"REPLIED", "OPTED_OUT"},
             context' = [context EXCEPT !.ledger[i].status = s]
      PROVE  /\ context' \in [ledger : Seq(Touch), signals : SUBSET Signals, suppressed : BOOLEAN,
                              override : Overrides \cup {NoOverride}]
             /\ context'.override = context.override
             /\ DOMAIN context'.ledger = DOMAIN context.ledger
             /\ \A j \in DOMAIN context.ledger :
                  /\ context'.ledger[j].key = context.ledger[j].key
                  /\ context'.ledger[j].plannedAt = context.ledger[j].plannedAt
  <2> DEFINE ledger == context.ledger
             entry == [ledger[i] EXCEPT !.status = s]
             new == [ledger EXCEPT ![i] = entry]
  <2>1. ledger \in Seq(Touch)
    OBVIOUS
  <2>2. ledger[i] \in Touch
    BY <2>1, KeysAreCounted
  <2>3. entry \in Touch /\ entry.key = ledger[i].key /\ entry.plannedAt = ledger[i].plannedAt
    BY <2>2 DEF Touch, SentStatus
  <2> HIDE DEF entry
  <2>4. new \in Seq(Touch)
    BY <2>1, <2>3, ExceptSeq
  <2>5. context' = [context EXCEPT !.ledger = new]
    BY <1>3 DEF entry
  <2>6. /\ DOMAIN new = DOMAIN ledger
        /\ \A j \in DOMAIN ledger : /\ new[j].key = ledger[j].key
                                    /\ new[j].plannedAt = ledger[j].plannedAt
    BY <2>1, <2>3
  <2> HIDE DEF new
  <2>7. context'.ledger = new /\ context'.override = context.override
    BY <2>5
  <2>. QED  BY <2>4, <2>5, <2>6, <2>7
<1>. QED  BY <1>1, <1>2, <1>3 DEF Stop

\* What an action of the engine does to the gateway.
LEMMA EngineStep ==
  ASSUME EngineInv, [Next]_vars
  PROVE  EngineInv'
<1>1. /\ GateTypeOK
      /\ now \in StartedAt..Horizon
      /\ context \in [ledger : Seq(Touch), signals : SUBSET Signals, suppressed : BOOLEAN,
                      override : Overrides \cup {NoOverride}]
      /\ touch \in [Callers -> Touch \cup {NoTouch}]
      /\ sentAt \in [Keys -> SUBSET Nat]
      /\ grace \subseteq Callers
  BY TypeIsOfTheGate DEF EngineInv
<1> USE DEF EngineInv
<1>2. now \in Nat /\ SendKeys = Keys
  BY <1>1, EngineAssumption DEF EngineAssumption
<1>3. ASSUME NEW c \in Callers, NEW requested \in Known \cup {NoKey}, Advance(c, requested)
      PROVE  EngineInv'
  <2> DEFINE plan == AroundHolidays(PlanNextTouch(context, requested, StartedAt, now))
  <2>1. /\ plan.outcome = "SCHEDULED" /\ plan.touch.plannedAt <= now
        /\ \E content \in Contents, usable \in BOOLEAN :
             BeginSend(c, [key |-> plan.touch.key, content |-> content], usable)
        /\ touch' = [touch EXCEPT ![c] = plan.touch]
        /\ UNCHANGED <<now, context, sentAt, grace>>
    BY <1>3 DEF Advance
  <2> HIDE DEF plan
  <2>2. plan.touch \in Touch /\ plan.touch.plannedAt = now
    BY <2>1, PlanIsDue DEF plan
  <2>3. plan.touch.key \in SendKeys
    BY <1>2, <2>2 DEF Touch
  <2>4. PICK r \in Request, usable \in BOOLEAN :
          BeginSend(c, r, usable) /\ r.key = plan.touch.key
    <3>1. PICK content \in Contents, usable \in BOOLEAN :
            BeginSend(c, [key |-> plan.touch.key, content |-> content], usable)
      BY <2>1
    <3>2. [key |-> plan.touch.key, content |-> content] \in Request
      BY <2>3 DEF Request
    <3>. QED  BY <3>1, <3>2
  <2>5. GateTypeOK' /\ GateInv'
    BY <1>1, <2>4, GateStep
  <2>6. touch' \in [Callers -> Touch \cup {NoTouch}]
    BY <1>1, <2>1, <2>2
  <2>7. TouchInv'
    <3>1. \A d \in Callers : d # c => pc'[d] = pc[d] /\ request'[d] = request[d]
      BY <1>1, <2>4 DEF BeginSend, Answer, GateTypeOK
    <3>2. request'[c] = r
      BY <1>1, <2>4 DEF BeginSend, GateTypeOK
    <3>. QED  BY <1>1, <2>1, <2>2, <2>4, <3>1, <3>2 DEF TouchInv
  <2>. QED  BY <1>1, <2>1, <2>5, <2>6, <2>7 DEF TypeOK, GateTypeOK
<1>4. ASSUME NEW c \in Callers, Proceed(c)
      PROVE  EngineInv'
  <2>1. GateTypeOK' /\ GateInv'
    BY <1>1, <1>4, GateStep DEF Proceed
  <2>2. touch' \in [Callers -> Touch \cup {NoTouch}]
    BY <1>1, <1>4 DEF Proceed
  <2>3. TouchInv'
    <3>1. \A d \in Callers : d # c => pc'[d] = pc[d] /\ request'[d] = request[d]
      BY <1>1, <1>4 DEF Proceed, GatewayStep, Lookup, Acknowledge, ProviderFails, Timeout,
                        RecordResult, Crash, Return, Answer, GateTypeOK
    <3>2. pc[c] # "idle" /\ (pc'[c] # "idle" => request'[c] = request[c])
      BY <1>1, <1>4 DEF Proceed, GatewayStep, Lookup, Acknowledge, ProviderFails, Timeout,
                        RecordResult, Crash, Return, Answer, GateTypeOK
    <3>. QED  BY <1>1, <1>4, <3>1, <3>2 DEF Proceed, TouchInv
  <2>. QED  BY <1>1, <1>4, <2>1, <2>2, <2>3 DEF TypeOK, GateTypeOK, Proceed
<1>5. ASSUME NEW c \in Callers, Deliver(c)
      PROVE  EngineInv'
  <2>1. GateTypeOK' /\ GateInv'
    BY <1>1, <1>5, GateStep DEF Deliver
  <2>2. sentAt' \in [Keys -> SUBSET Nat]
    BY <1>1, <1>2, <1>5 DEF Deliver
  <2>3. TouchInv'
    BY <1>1, <1>5 DEF Deliver, Take, LateArrival, TouchInv, GateTypeOK
  <2>. QED  BY <1>1, <1>5, <2>1, <2>2, <2>3 DEF TypeOK, GateTypeOK, Deliver
<1>6. ASSUME NEW c \in Callers, Finish(c)
      PROVE  EngineInv'
  <2>1. GateTypeOK' /\ GateInv'
    BY <1>1, <1>6, GateStep DEF Finish
  <2>2. touch' \in [Callers -> Touch \cup {NoTouch}]
    BY <1>1, <1>6 DEF Finish
  <2>3. context' \in [ledger : Seq(Touch), signals : SUBSET Signals, suppressed : BOOLEAN,
                      override : Overrides \cup {NoOverride}]
    <3> DEFINE entry == [touch[c] EXCEPT
                           !.status = IF result[c].status = "SUCCEEDED" THEN "SENT" ELSE "FAILED"]
    <3>1. touch[c] \in Touch
      BY <1>6 DEF Finish, TouchInv
    <3>2. entry \in Touch
      BY <3>1 DEF Touch, SentStatus
    <3> HIDE DEF entry
    <3>3. Append(context.ledger, entry) \in Seq(Touch)
      BY <1>1, <3>2, AppendProperties
    <3>4. context' = [context EXCEPT !.ledger = Append(@, entry)] \/ context' = context
      BY <1>6 DEF Finish, entry
    <3>. QED  BY <1>1, <3>3, <3>4
  <2>4. TouchInv'
    BY <1>1, <1>6 DEF Finish, Return, TouchInv, GateTypeOK
  <2>. QED  BY <1>1, <1>6, <2>1, <2>2, <2>3, <2>4 DEF TypeOK, GateTypeOK, Finish
<1>7. CASE Stop
  <2>1. GateTypeOK' /\ GateInv'
    BY <1>1, <1>7 DEF Stop, gatewayVars, GateTypeOK, GateInv, CallInv, RecordInv
  <2>2. context' \in [ledger : Seq(Touch), signals : SUBSET Signals, suppressed : BOOLEAN,
                      override : Overrides \cup {NoOverride}]
    BY <1>1, <1>7, StopEnters
  <2>3. Sending \subseteq Callers
    BY DEF Sending
  <2>4. TouchInv'
    BY <1>7 DEF Stop, gatewayVars, TouchInv
  <2>. QED  BY <1>1, <1>7, <2>1, <2>2, <2>3, <2>4 DEF TypeOK, GateTypeOK, Stop
<1>8. CASE Tick
  <2>1. GateTypeOK' /\ GateInv'
    BY <1>1, <1>8 DEF Tick, gatewayVars, GateTypeOK, GateInv, CallInv, RecordInv
  <2>2. now' \in StartedAt..Horizon
    BY <1>1, <1>8, EngineAssumption DEF Tick, EngineAssumption
  <2>3. TouchInv'
    BY <1>8 DEF Tick, Sending, gatewayVars, TouchInv
  <2>. QED  BY <1>1, <1>8, <2>1, <2>2, <2>3 DEF TypeOK, GateTypeOK, Tick
<1>9. CASE UNCHANGED vars
  <2>1. GateTypeOK' /\ GateInv'
    BY <1>1, <1>9 DEF vars, gatewayVars, GateTypeOK, GateInv, CallInv, RecordInv
  <2>2. TouchInv'
    BY <1>9 DEF vars, gatewayVars, sequenceVars, TouchInv
  <2>. QED  BY <1>1, <1>9, <2>1, <2>2 DEF TypeOK, GateTypeOK, vars, sequenceVars
<1>. QED  BY <1>3, <1>4, <1>5, <1>6, <1>7, <1>8, <1>9 DEF Next

LEMMA EngineInvariant == Spec => []EngineInv
<1>1. Init => EngineInv
  <2>1. Init => TouchInv
    BY DEF Init, GatewayInit, TouchInv
  <2>. QED  BY <2>1, InitTyped, InitInvariant DEF EngineInv
<1>2. EngineInv /\ [Next]_vars => EngineInv'
  BY EngineStep
<1>. QED  BY <1>1, <1>2, PTL DEF Spec

\* The sequence, its calls and its records have their type.
THEOREM SequenceTypeCorrect == Spec => []TypeOK
<1>1. EngineInv => TypeOK
  BY DEF EngineInv
<1>. QED  BY <1>1, EngineInvariant, PTL

\* However many calls overlap, one at most is told that it sent the message of a key
\* itself, and every success is of a message the provider took.
THEOREM DeliveryIsConfirmedOnce == Spec => []OneConfirmedDelivery
<1>1. EngineInv => OneConfirmedDelivery
  <2> SUFFICES ASSUME EngineInv
               PROVE  OneConfirmedDelivery
    OBVIOUS
  <2>1. ASSUME NEW c \in Callers, pc[c] = "answered" /\ result[c].status = "SUCCEEDED"
        PROVE  /\ result[c].message \in DOMAIN inbox[request[c].key]
               /\ inbox[request[c].key][result[c].message] = request[c].content
    BY <2>1 DEF EngineInv, GateInv, CallInv
  <2>2. ASSUME NEW k \in SendKeys
        PROVE  confirmed[k] <= 1 /\ (confirmed[k] = 1 => record[k] # NoRecord)
    BY DEF EngineInv, GateInv, RecordInv
  <2>. QED  BY <2>1, <2>2 DEF OneConfirmedDelivery
<1>. QED  BY <1>1, EngineInvariant, PTL

-----------------------------------------------------------------------------
(* Stops hold.                                                             *)

\* Once a stop is known no plan is scheduled, so no new send begins; those under way
\* can only end.
THEOREM StopsAreKept == Spec => []StopsHold
<1>1. Init => StopsHold
  BY DEF Init, GatewayInit, StopsHold, Sending
<1>2. ASSUME EngineInv, StopsHold, [Next]_vars
      PROVE  StopsHold'
  <2>1. ASSUME NEW c \in Callers, NEW requested \in Known \cup {NoKey}, Advance(c, requested)
        PROVE  StopsHold'
    <3>1. ~Stopped(context) /\ context' = context
      BY <1>2, <2>1, PlanIsDue DEF Advance, EngineInv
    <3>2. ~StopKnown'
      BY <3>1 DEF Stopped, StopKnown
    <3>. QED  BY <3>2 DEF StopsHold
  <2>2. ASSUME NEW c \in Callers, Proceed(c) \/ Deliver(c) \/ Finish(c)
        PROVE  StopsHold'
    <3>1. Sending' \subseteq Sending
      BY <1>2, <2>2
         DEF Proceed, Deliver, Finish, GatewayStep, Lookup, Take, Acknowledge, ProviderFails,
             Timeout, LateArrival, RecordResult, Crash, Return, Answer, Sending, EngineInv, TypeOK
    <3>2. StopKnown' => StopKnown
      <4>1. CASE context' = context
        BY <4>1 DEF StopKnown
      <4>2. CASE /\ Finish(c)
                 /\ context' = [context EXCEPT !.ledger = Append(@,
                      [touch[c] EXCEPT !.status =
                        IF result[c].status = "SUCCEEDED" THEN "SENT" ELSE "FAILED"])]
        <5> DEFINE entry == [touch[c] EXCEPT !.status =
                              IF result[c].status = "SUCCEEDED" THEN "SENT" ELSE "FAILED"]
                   n == Len(context.ledger) + 1
        <5>1. touch[c] \in Touch /\ context.ledger \in Seq(Touch)
          BY <1>2, <4>2 DEF Finish, EngineInv, TouchInv, TypeOK
        <5>2. entry \in Touch /\ entry.status \in {"SENT", "FAILED"}
          BY <5>1 DEF Touch, SentStatus
        <5> HIDE DEF entry
        <5>3. /\ context'.ledger = Append(context.ledger, entry)
              /\ context'.signals = context.signals /\ context'.suppressed = context.suppressed
          BY <1>2, <4>2 DEF EngineInv, TypeOK, entry
        <5>4. /\ DOMAIN context.ledger = 1..(n - 1)
              /\ context'.ledger[n] = entry
              /\ \A i \in 1..(n - 1) : context'.ledger[i] = context.ledger[i]
              /\ \A i \in DOMAIN context'.ledger : i = n \/ i \in DOMAIN context.ledger
          BY <5>1, <5>2, <5>3, EntryJoins
        <5> HIDE DEF n
        <5>. QED  BY <5>2, <5>3, <5>4 DEF StopKnown
      <4>. QED  BY <2>2, <4>1, <4>2 DEF Proceed, Deliver, Finish
    <3>3. grace' = grace
      BY <2>2 DEF Proceed, Deliver, Finish
    <3>. QED  BY <1>2, <3>1, <3>2, <3>3 DEF StopsHold
  <2>3. CASE Stop
    BY <2>3 DEF Stop, StopsHold, Sending, gatewayVars
  <2>4. CASE Tick \/ UNCHANGED vars
    BY <1>2, <2>4 DEF Tick, vars, sequenceVars, gatewayVars, StopsHold, StopKnown, Sending
  <2>. QED  BY <1>2, <2>1, <2>2, <2>3, <2>4 DEF Next
<1>. QED  BY <1>1, <1>2, EngineInvariant, PTL DEF Spec

-----------------------------------------------------------------------------
(* The cadence.                                                            *)

\* A ledger in order has the keys up to its ordinal, and its last touch has the latest
\* date.
LEMMA LastIsLatest ==
  ASSUME NEW ledger \in Seq(Touch), InOrder(ledger)
  PROVE  /\ KeysOf(ledger) = 1..Ordinal(ledger)
         /\ \A i \in DOMAIN ledger : ledger[i].key <= Ordinal(ledger)
         /\ \A j \in 1..Ordinal(ledger) : \E i \in DOMAIN ledger : ledger[i].key = j
         /\ ledger # << >> => \A i \in DOMAIN ledger :
              ledger[i].plannedAt <= LastTouch(ledger).plannedAt
<1>1. /\ Len(ledger) \in Nat /\ DOMAIN ledger = 1..Len(ledger)
      /\ \A i \in DOMAIN ledger : ledger[i].key \in 1..5 /\ ledger[i].plannedAt \in Nat
  BY KeysAreCounted
<1>2. \A k : k \in KeysOf(ledger) <=> \E i \in DOMAIN ledger : ledger[i].key = k
  BY DEF KeysOf
<1>3. CASE ledger = << >>
  <2>1. DOMAIN ledger = {}
    BY <1>3
  <2>2. KeysOf(ledger) = {}
    BY <1>2, <2>1
  <2>3. Ordinal(ledger) = 0
    BY <2>2, FS_EmptySet DEF Ordinal
  <2>4. 1..Ordinal(ledger) = {}
    BY <2>3
  <2>. QED  BY <1>3, <2>1, <2>2, <2>4
<1>4. CASE ledger # << >>
  <2> DEFINE K == Max(KeysOf(ledger))
  <2>1. KeysOf(ledger) \in SUBSET Nat /\ KeysOf(ledger) # {} /\ \A k \in KeysOf(ledger) : k <= 5
    <3>1. 1 \in DOMAIN ledger
      BY <1>1, <1>4, EmptySeq
    <3>2. ledger[1].key \in KeysOf(ledger)
      BY <3>1 DEF KeysOf
    <3>3. KeysOf(ledger) \in SUBSET (1..5)
      BY KeysAreCounted
    <3>. QED  BY <3>2, <3>3
  <2>2. K \in KeysOf(ledger) /\ \A k \in KeysOf(ledger) : k <= K
    BY <2>1, MaxIsGreatest
  <2> HIDE DEF K
  <2>3. K \in 1..5
    BY <1>1, <1>2, <2>2
  \* The first entry with the greatest key.
  <2> DEFINE S == {i \in DOMAIN ledger : ledger[i].key = K}
             m == Min(S)
  <2>4. m \in S /\ \A i \in S : m <= i
    <3>1. S \in SUBSET Nat /\ S # {}
      BY <1>1, <1>2, <2>2
    <3>. QED  BY <3>1, MinIsLeast
  <2> HIDE DEF m
  <2>5. /\ m \in DOMAIN ledger /\ ledger[m].key = K
        /\ \A j \in 1..(m - 1) : ledger[j].key # ledger[m].key
    <3>1. m \in DOMAIN ledger /\ ledger[m].key = K
      BY <2>4
    <3>2. ASSUME NEW j \in 1..(m - 1)
          PROVE  ledger[j].key # K
      <4>1. j \in DOMAIN ledger /\ ~(m <= j)
        BY <1>1, <3>1
      <4>. QED  BY <2>4, <4>1
    <3>. QED  BY <3>1, <3>2
  <2>6. \A k \in 1..(K - 1) : \E j \in 1..(m - 1) : ledger[j].key = k
    BY <2>5 DEF InOrder
  <2>7. KeysOf(ledger) = 1..K
    <3>1. ASSUME NEW k \in 1..K PROVE k \in KeysOf(ledger)
      <4>1. CASE k = K  BY <2>2, <4>1
      <4>2. CASE k # K
        <5>1. PICK j \in 1..(m - 1) : ledger[j].key = k
          BY <2>3, <2>6, <4>2
        <5>2. j \in DOMAIN ledger
          BY <1>1, <2>5
        <5>. QED  BY <1>2, <5>1, <5>2
      <4>. QED  BY <4>1, <4>2
    <3>2. ASSUME NEW k \in KeysOf(ledger) PROVE k \in 1..K
      BY <1>1, <1>2, <2>2, <2>3
    <3>. QED  BY <3>1, <3>2
  <2>8. Ordinal(ledger) = K
    <3>1. \A n \in Nat : Cardinality(1..n) = n
      BY FS_Interval
    <3>. QED  BY <2>3, <2>7, <3>1 DEF Ordinal
  <2>9. PICK f \in DOMAIN ledger, l \in DOMAIN ledger :
          /\ \A j \in 1..(f - 1) : ledger[j].key # ledger[f].key
          /\ \A i \in DOMAIN ledger :
               (\A j \in 1..(i - 1) : ledger[j].key # ledger[i].key) => i <= f
          /\ ledger[l].key = ledger[f].key
          /\ LastTouch(ledger) = ledger[l]
    BY <1>4, LastTouchIsOne
  <2>10. m <= f
    BY <2>5, <2>9
  <2>11. ledger[f].key = K
    <3> SUFFICES ASSUME ledger[f].key # K
                 PROVE  FALSE
      OBVIOUS
    <3>1. ledger[f].key \in 1..K
      BY <1>2, <2>7
    <3>2. ledger[f].key \in 1..(K - 1)
      BY <2>3, <3>1
    <3>3. PICK j \in 1..(m - 1) : ledger[j].key = ledger[f].key
      BY <2>6, <3>2
    <3>4. j \in 1..(f - 1)
      BY <1>1, <2>5, <2>10
    <3>. QED  BY <2>9, <3>3, <3>4
  <2>12. \A i \in DOMAIN ledger : ledger[i].key <= K
    BY <1>2, <2>2
  <2>13. \A i \in DOMAIN ledger : ledger[i].plannedAt <= LastTouch(ledger).plannedAt
    BY <2>9, <2>11, <2>12 DEF InOrder
  <2>. QED  BY <1>2, <2>7, <2>8, <2>12, <2>13
<1>. QED  BY <1>3, <1>4

\* No message becomes possible but by Advance.
LEMMA NoMoreIsActive ==
  ASSUME EngineInv, NEW c \in Callers, Proceed(c) \/ Deliver(c) \/ Finish(c), NEW k
  PROVE  Active(k)' => Active(k)
<1>1. /\ pc \in [Callers -> Places] /\ late \in [Callers -> SUBSET Request]
      /\ request \in [Callers -> Request \cup {NoRequest}]
  BY DEF EngineInv, TypeOK
<1>2. \A d \in Callers : pc'[d] # "idle" => pc[d] # "idle" /\ request'[d] = request[d]
  BY <1>1 DEF Proceed, Deliver, Finish, GatewayStep, Lookup, Take, Acknowledge, ProviderFails,
              Timeout, LateArrival, RecordResult, Crash, Return, Answer
<1>3. \A d \in Callers : \A r \in late'[d] :
        r \in late[d] \/ (pc[d] # "idle" /\ r = request[d])
  BY <1>1 DEF Proceed, Deliver, Finish, GatewayStep, Lookup, Take, Acknowledge, ProviderFails,
              Timeout, LateArrival, RecordResult, Crash, Return, Answer
<1>. QED  BY <1>2, <1>3 DEF Active

LEMMA CadenceInit == Init => CadenceInv
<1> SUFFICES ASSUME Init
             PROVE  CadenceInv
  OBVIOUS
<1>1. DOMAIN context.ledger = {}
  BY DEF Init
<1>2. LedgerInv
  BY <1>1 DEF LedgerInv, InOrder
<1>3. ActiveInv
  BY DEF Init, GatewayInit, ActiveInv, Active
<1>4. SentInv
  BY DEF Init, SentInv
<1>. QED  BY <1>2, <1>3, <1>4 DEF CadenceInv

\* A touch that is sent next is allowed.
LEMMA AdvanceKeepsTheCadence ==
  ASSUME EngineInv, CadenceInv, NEW c \in Callers, NEW requested \in Known \cup {NoKey},
         Advance(c, requested)
  PROVE  CadenceInv'
<1> DEFINE ledger == context.ledger
           plan == AroundHolidays(PlanNextTouch(context, requested, StartedAt, now))
           k == plan.touch.key
<1>1. /\ ledger \in Seq(Touch) /\ InOrder(ledger) /\ TypeOK
      /\ pc \in [Callers -> Places]
      /\ request \in [Callers -> Request \cup {NoRequest}]
  BY DEF EngineInv, TypeOK, CadenceInv, LedgerInv
<1>2. /\ plan.outcome = "SCHEDULED" /\ plan.touch.plannedAt <= now
      /\ UNCHANGED <<now, context, sentAt, late>>
      /\ \A d \in Callers : d # c => pc'[d] = pc[d] /\ request'[d] = request[d]
      /\ request'[c].key = k
  BY <1>1 DEF Advance, BeginSend, Answer
<1>3. /\ IsWithinContactWindow(now) /\ ~IsHoliday(now)
      /\ k = IF requested = NoKey THEN Ordinal(ledger) + 1 ELSE requested
      /\ requested \notin KeysOf(ledger)
      /\ Ordinal(ledger) < ApprovedMaximum(context, now)
      /\ EnabledChannels # << >>
      /\ ledger # << >> => now >= LastTouch(ledger).plannedAt + Spacing[SelectedChannel(ledger)]
  BY <1>1, <1>2, PlanIsDue
<1> HIDE DEF plan
<1>4. /\ KeysOf(ledger) = 1..Ordinal(ledger)
      /\ \A i \in DOMAIN ledger : ledger[i].key <= Ordinal(ledger)
      /\ \A j \in 1..Ordinal(ledger) : \E i \in DOMAIN ledger : ledger[i].key = j
      /\ ledger # << >> => \A i \in DOMAIN ledger :
           ledger[i].plannedAt <= LastTouch(ledger).plannedAt
  BY <1>1, LastIsLatest
<1>5. Ordinal(ledger) \in Nat /\ \A i \in DOMAIN ledger :
        ledger[i].key \in 1..5 /\ ledger[i].plannedAt \in Nat
  BY <1>1, KeysAreCounted
<1>6. k = Ordinal(ledger) + 1
  BY <1>3, <1>4, <1>5 DEF Known
<1>7. Allowed(k, now, ledger, context.override)
  <2>1. k <= Highest(context.override)
    BY <1>1, <1>3, <1>5, <1>6, ApprovedIsBounded
  <2>2. ASSUME NEW i \in DOMAIN ledger
        PROVE  now >= ledger[i].plannedAt + SpacingBefore(k)
    <3>1. ledger # << >>
      BY <2>2
    <3>2. SpacingBefore(k) = Spacing[SelectedChannel(ledger)] /\ SpacingBefore(k) \in Nat
      <4>1. k - 1 = Ordinal(ledger)
        BY <1>5, <1>6
      <4>. QED  BY <1>3, <1>5, <4>1, ChannelIsOne DEF SpacingBefore, SelectedChannel
    <3>3. LastTouch(ledger).plannedAt \in Nat
      BY <1>1, <1>5, <3>1, LastTouchIsOne
    <3>4. now \in Nat
      BY <1>1, EngineAssumption DEF TypeOK, EngineAssumption
    <3>. QED  BY <1>3, <1>4, <1>5, <3>1, <3>2, <3>3, <3>4
  <2>3. \A j \in 1..(k - 1) : \E i \in DOMAIN ledger : ledger[i].key = j
    BY <1>4, <1>5, <1>6
  <2>. QED  BY <1>3, <2>1, <2>2, <2>3 DEF Allowed
<1>8. \A i \in DOMAIN ledger : ~(ledger[i].key >= k)
  BY <1>4, <1>5, <1>6
<1>9. ActiveInv'
  <2> SUFFICES ASSUME NEW l \in Keys, Active(l)'
               PROVE  /\ Allowed(l, now, ledger, context.override)
                      /\ \A i \in DOMAIN ledger : ledger[i].key >= l => ledger[i].plannedAt = now
    BY <1>2 DEF ActiveInv, Allowed, SpacingBefore, IsWithinContactWindow, IsHoliday, Highest
  <2>1. Active(l) \/ l = k
    BY <1>2 DEF Active
  <2>2. CASE l = k
    BY <1>7, <1>8, <2>2
  <2>3. CASE Active(l)
    BY <2>3 DEF CadenceInv, ActiveInv
  <2>. QED  BY <2>1, <2>2, <2>3
<1>10. LedgerInv' /\ SentInv'
  BY <1>2 DEF CadenceInv, LedgerInv, SentInv, InOrder, Allowed
<1>. QED  BY <1>9, <1>10 DEF CadenceInv

\* A key that is on its way is one of the sequence's.
LEMMA ActiveIsKey ==
  ASSUME EngineInv, NEW k, Active(k)
  PROVE  k \in Keys
<1>1. /\ late \in [Callers -> SUBSET Request]
      /\ \A c \in Callers : pc[c] # "idle" => request[c] \in Request
      /\ SendKeys = Keys
  BY EngineAssumption DEF EngineInv, TypeOK, GateInv, CallInv, EngineAssumption
<1>. QED  BY <1>1 DEF Active, Request

\* What is delivered now is allowed now.
LEMMA DeliverKeepsTheCadence ==
  ASSUME EngineInv, CadenceInv, NEW c \in Callers, Proceed(c) \/ Deliver(c)
  PROVE  CadenceInv'
<1>1. UNCHANGED <<now, context>>
  BY DEF Proceed, Deliver
<1>2. ActiveInv' /\ LedgerInv'
  <2>1. \A k \in Keys : Active(k)' => Active(k)
    BY NoMoreIsActive
  <2>2. ASSUME NEW k \in Keys, Active(k)'
        PROVE  /\ Allowed(k, now, context.ledger, context.override)
               /\ \A i \in DOMAIN context.ledger :
                    context.ledger[i].key >= k => context.ledger[i].plannedAt = now
    BY <2>1, <2>2 DEF CadenceInv, ActiveInv
  <2>. QED  BY <1>1, <2>2 DEF CadenceInv, LedgerInv, InOrder, ActiveInv, Allowed
<1>3. \A k \in Keys : sentAt'[k] = sentAt[k] \/ (Active(k) /\ sentAt'[k] = sentAt[k] \cup {now})
  <2>1. CASE Proceed(c)
    BY <2>1 DEF Proceed
  <2>2. CASE Deliver(c)
    <3>1. /\ inbox \in [Keys -> Seq(Contents)] /\ late \in [Callers -> SUBSET Request]
          /\ sentAt' = [k \in Keys |-> IF inbox'[k] # inbox[k] THEN sentAt[k] \cup {now}
                                       ELSE sentAt[k]]
      BY <2>2, EngineAssumption DEF EngineInv, TypeOK, Deliver, EngineAssumption
    <3>2. ASSUME NEW k \in Keys, inbox'[k] # inbox[k]
          PROVE  Active(k)
      <4>1. CASE Take(c)
        <5>1. pc[c] # "idle" /\ inbox' = [inbox EXCEPT ![request[c].key] =
                                           Append(@, request[c].content)]
          BY <4>1 DEF Take
        <5>2. k = request[c].key
          BY <3>1, <3>2, <5>1
        <5>. QED  BY <5>1, <5>2 DEF Active
      <4>2. CASE LateArrival(c)
        <5>1. PICK r \in late[c] : inbox' = [inbox EXCEPT ![r.key] = Append(@, r.content)]
          BY <3>2, <4>2 DEF LateArrival
        <5>2. k = r.key
          BY <3>1, <3>2, <5>1
        <5>. QED  BY <5>2 DEF Active
      <4>. QED  BY <2>2, <4>1, <4>2 DEF Deliver
    <3>. QED  BY <3>1, <3>2
  <2>. QED  BY <2>1, <2>2
<1>4. SentInv'
  <2>1. ASSUME NEW k \in Keys, NEW t \in sentAt'[k]
        PROVE  /\ Allowed(k, t, context.ledger, context.override)
               /\ t <= now
               /\ \A i \in DOMAIN context.ledger :
                    context.ledger[i].key = k => t <= context.ledger[i].plannedAt
    <3>1. CASE t \in sentAt[k]
      BY <3>1 DEF CadenceInv, SentInv
    <3>2. CASE t = now /\ Active(k)
      <4>1. /\ Allowed(k, now, context.ledger, context.override)
            /\ \A i \in DOMAIN context.ledger :
                 context.ledger[i].key >= k => context.ledger[i].plannedAt = now
        BY <3>2 DEF CadenceInv, ActiveInv
      <4>2. now \in Nat /\ k \in Nat
        BY EngineAssumption DEF EngineInv, TypeOK, EngineAssumption, Keys, MaxApproved
      <4>. QED  BY <3>2, <4>1, <4>2
    <3>. QED  BY <1>3, <2>1, <3>1, <3>2
  <2>. QED  BY <1>1, <2>1 DEF SentInv, Allowed
<1>. QED  BY <1>2, <1>4 DEF CadenceInv

\* A touch that is entered has the date of its half day, the latest so far.
LEMMA FinishKeepsTheCadence ==
  ASSUME EngineInv, CadenceInv, NEW c \in Callers, Finish(c)
  PROVE  CadenceInv'
<1> DEFINE ledger == context.ledger
           new == context'.ledger
           k == touch[c].key
           n == Len(ledger) + 1
<1>1. /\ UNCHANGED <<now, sentAt>>
      /\ \A l \in Keys : Active(l)' => Active(l)
  BY NoMoreIsActive DEF Finish
<1>2. /\ touch[c] \in Touch /\ k = request[c].key /\ touch[c].plannedAt = now
      /\ k \in Keys /\ Active(k) /\ pc[c] = "answered"
      /\ ledger \in Seq(Touch) /\ now \in Nat
  BY EngineAssumption DEF Finish, EngineInv, TouchInv, TypeOK, Active, Touch, EngineAssumption
<1>3. CASE context' = context
  <2>1. LedgerInv'
    BY <1>1, <1>3 DEF CadenceInv, LedgerInv, InOrder
  <2>2. SentInv'
    BY <1>1, <1>3 DEF CadenceInv, SentInv, Allowed
  <2>3. ActiveInv'
    BY <1>1, <1>3 DEF CadenceInv, ActiveInv, Allowed
  <2>. QED  BY <2>1, <2>2, <2>3 DEF CadenceInv
<1>4. CASE context' # context
  <2> DEFINE entry == [touch[c] EXCEPT
                         !.status = IF result[c].status = "SUCCEEDED" THEN "SENT" ELSE "FAILED"]
  <2>1. entry \in Touch /\ entry.key = k /\ entry.plannedAt = now
    BY <1>2 DEF Touch, SentStatus
  <2>2. new = Append(ledger, entry) /\ context'.override = context.override
    BY <1>4 DEF Finish, EngineInv, TypeOK
  <2> HIDE DEF entry
  <2>3. /\ n \in Nat /\ DOMAIN ledger = 1..(n - 1) /\ DOMAIN new = 1..n
        /\ new[n] = entry
        /\ \A i \in 1..(n - 1) : new[i] = ledger[i]
        /\ \A i \in DOMAIN new : i = n \/ i \in DOMAIN ledger
    BY <1>2, <2>1, <2>2, EntryJoins
  <2> HIDE DEF n, new
  <2>4. /\ Allowed(k, now, ledger, context.override)
        /\ \A i \in DOMAIN ledger : ledger[i].key >= k => ledger[i].plannedAt = now
    BY <1>2 DEF CadenceInv, ActiveInv
  <2>5. \A i \in DOMAIN ledger : /\ ledger[i].key \in Nat /\ ledger[i].plannedAt \in Nat
                                 /\ ledger[i].plannedAt <= now
    <3>1. \A i \in DOMAIN ledger : ledger[i].plannedAt <= now
      BY DEF CadenceInv, LedgerInv
    <3>2. \A i \in DOMAIN ledger : ledger[i].key \in 1..5 /\ ledger[i].plannedAt \in Nat
      BY <1>2, KeysAreCounted
    <3>. QED  BY <3>1, <3>2
  <2>6. k \in Nat
    BY <1>2 DEF Keys, MaxApproved
  <2>7. InOrder(new)
    <3>1. \A i \in DOMAIN new : \A j \in 1..(new[i].key - 1) :
            \E l \in 1..(i - 1) : new[l].key = j
      <4>1. ASSUME NEW j \in 1..(k - 1)
            PROVE  \E l \in 1..(n - 1) : new[l].key = j
        BY <2>3, <2>4 DEF Allowed
      <4>2. ASSUME NEW i \in DOMAIN ledger, NEW j \in 1..(ledger[i].key - 1)
            PROVE  \E l \in 1..(i - 1) : new[l].key = j
        <5>1. PICK l \in 1..(i - 1) : ledger[l].key = j
          BY <4>2 DEF CadenceInv, LedgerInv, InOrder
        <5>2. l \in 1..(n - 1)
          BY <2>3
        <5>. QED  BY <2>3, <5>1, <5>2
      <4>3. ASSUME NEW i \in DOMAIN new, NEW j \in 1..(new[i].key - 1)
            PROVE  \E l \in 1..(i - 1) : new[l].key = j
        <5>1. CASE i = n
          BY <2>1, <2>3, <4>1, <4>3, <5>1
        <5>2. CASE i \in DOMAIN ledger
          <6>1. new[i] = ledger[i]
            BY <2>3, <5>2
          <6>. QED  BY <4>2, <4>3, <5>2, <6>1
        <5>. QED  BY <2>3, <5>1, <5>2
      <4>. QED  BY <4>3
    <3>2. \A i, j \in DOMAIN new : new[i].key <= new[j].key => new[i].plannedAt <= new[j].plannedAt
      <4>1. \A i, j \in DOMAIN ledger :
              ledger[i].key <= ledger[j].key => ledger[i].plannedAt <= ledger[j].plannedAt
        BY DEF CadenceInv, LedgerInv, InOrder
      <4>2. \A i \in DOMAIN ledger : k <= ledger[i].key => now <= ledger[i].plannedAt
        BY <1>2, <2>4, <2>5, <2>6
      <4>3. \A i \in DOMAIN ledger : new[i] = ledger[i]
        BY <2>3
      <4>4. ASSUME NEW i \in DOMAIN new, NEW j \in DOMAIN new, new[i].key <= new[j].key
            PROVE  new[i].plannedAt <= new[j].plannedAt
        <5>1. CASE i \in DOMAIN ledger /\ j \in DOMAIN ledger
          BY <4>1, <4>3, <4>4, <5>1
        <5>2. CASE i = n /\ j \in DOMAIN ledger
          BY <2>1, <2>3, <4>2, <4>3, <4>4, <5>2
        <5>3. CASE j = n /\ i \in DOMAIN ledger
          BY <2>1, <2>3, <2>5, <4>3, <5>3
        <5>4. CASE i = n /\ j = n
          BY <1>2, <2>1, <2>3, <5>4
        <5>. QED  BY <2>3, <5>1, <5>2, <5>3, <5>4
      <4>. QED  BY <4>4
    <3>. QED  BY <3>1, <3>2 DEF InOrder
  <2>8. \A i \in DOMAIN new : new[i].plannedAt <= now
    BY <1>2, <2>1, <2>3, <2>5
  \* A later touch that was allowed stays so: the one that joins is on record already,
  \* entered in this half day.
  <2>9. ASSUME NEW l \in Keys, NEW t, Allowed(l, t, ledger, context.override)
        PROVE  Allowed(l, t, new, context.override)
    <3>1. \A j \in 1..(l - 1) : \E i \in DOMAIN new : new[i].key = j
      <4> SUFFICES ASSUME NEW j \in 1..(l - 1)
                   PROVE  \E i \in DOMAIN new : new[i].key = j
        OBVIOUS
      <4>1. PICK i \in DOMAIN ledger : ledger[i].key = j
        BY <2>9 DEF Allowed
      <4>. QED  BY <2>3, <4>1
    <3>2. k < l => t >= now + SpacingBefore(l)
      <4> SUFFICES ASSUME k < l
                   PROVE  t >= now + SpacingBefore(l)
        OBVIOUS
      <4>1. k \in 1..(l - 1)
        BY <1>2 DEF Keys, MaxApproved
      <4>2. PICK i \in DOMAIN ledger : ledger[i].key = k
        BY <2>9, <4>1 DEF Allowed
      <4>3. ledger[i].plannedAt = now
        BY <2>4, <2>6, <4>2
      <4>. QED  BY <2>9, <4>2, <4>3 DEF Allowed
    <3>3. \A i \in DOMAIN new : new[i].key < l => t >= new[i].plannedAt + SpacingBefore(l)
      BY <2>1, <2>3, <2>9, <3>2 DEF Allowed
    <3>. QED  BY <2>9, <3>1, <3>3 DEF Allowed
  <2>10. LedgerInv'
    BY <1>1, <2>7, <2>8 DEF LedgerInv, InOrder, new
  <2>11. ActiveInv'
    <3>1. ASSUME NEW l \in Keys, Active(l)'
          PROVE  /\ Allowed(l, now, new, context.override)
                 /\ \A i \in DOMAIN new : new[i].key >= l => new[i].plannedAt = now
      <4>1. /\ Allowed(l, now, ledger, context.override)
            /\ \A i \in DOMAIN ledger : ledger[i].key >= l => ledger[i].plannedAt = now
        BY <1>1, <3>1 DEF CadenceInv, ActiveInv
      <4>. QED  BY <2>1, <2>3, <2>9, <4>1
    <3>. QED  BY <1>1, <2>2, <3>1 DEF ActiveInv, Allowed, new
  <2>12. SentInv'
    <3>1. ASSUME NEW l \in Keys, NEW t \in sentAt[l]
          PROVE  /\ Allowed(l, t, new, context.override)
                 /\ t <= now
                 /\ \A i \in DOMAIN new : new[i].key = l => t <= new[i].plannedAt
      <4>1. /\ Allowed(l, t, ledger, context.override) /\ t <= now
            /\ \A i \in DOMAIN ledger : ledger[i].key = l => t <= ledger[i].plannedAt
        BY DEF CadenceInv, SentInv
      <4>. QED  BY <2>1, <2>3, <2>9, <4>1
    <3>. QED  BY <1>1, <2>2, <3>1 DEF SentInv, Allowed, new
  <2>. QED  BY <2>10, <2>11, <2>12 DEF CadenceInv
<1>. QED  BY <1>3, <1>4

\* A stop moves no date, and time goes on only when nothing is on its way.
LEMMA StopKeepsTheCadence ==
  ASSUME EngineInv, CadenceInv, Stop
  PROVE  CadenceInv'
<1> DEFINE ledger == context.ledger
           new == context'.ledger
<1>1. /\ DOMAIN new = DOMAIN ledger /\ context'.override = context.override
      /\ \A i \in DOMAIN ledger : /\ new[i].key = ledger[i].key
                                  /\ new[i].plannedAt = ledger[i].plannedAt
  BY StopEnters DEF EngineInv, TypeOK
<1>2. /\ UNCHANGED <<now, sentAt, pc, late, request>>
      /\ \A k \in Keys : Active(k)' => Active(k)
  BY DEF Stop, gatewayVars, Active
<1>3. ledger \in Seq(Touch) /\ Len(ledger) \in Nat /\ DOMAIN ledger = 1..Len(ledger)
  BY KeysAreCounted DEF EngineInv, TypeOK
<1> HIDE DEF new, ledger
<1>4. InOrder(new)
  <2>1. InOrder(ledger)
    BY DEF CadenceInv, LedgerInv, ledger
  <2>2. ASSUME NEW i \in DOMAIN new, NEW k \in 1..(new[i].key - 1)
        PROVE  \E j \in 1..(i - 1) : new[j].key = k
    <3>1. PICK j \in 1..(i - 1) : ledger[j].key = k
      BY <1>1, <2>1 DEF InOrder
    <3>2. j \in DOMAIN ledger
      BY <1>1, <1>3
    <3>. QED  BY <1>1, <3>1, <3>2
  <2>3. \A i, j \in DOMAIN new : new[i].key <= new[j].key => new[i].plannedAt <= new[j].plannedAt
    BY <1>1, <2>1 DEF InOrder
  <2>. QED  BY <2>2, <2>3 DEF InOrder
<1>5. ASSUME NEW l \in Keys, NEW t, Allowed(l, t, ledger, context.override)
      PROVE  Allowed(l, t, new, context'.override)
  BY <1>1, <1>5 DEF Allowed
<1>6. LedgerInv'
  <2>1. \A i \in DOMAIN ledger : ledger[i].plannedAt <= now
    BY DEF CadenceInv, LedgerInv, ledger
  <2>. QED  BY <1>1, <1>2, <1>4, <2>1 DEF LedgerInv, InOrder, new
<1>7. ActiveInv'
  <2>1. ASSUME NEW k \in Keys, Active(k)'
        PROVE  /\ Allowed(k, now, new, context'.override)
               /\ \A i \in DOMAIN new : new[i].key >= k => new[i].plannedAt = now
    <3>1. /\ Allowed(k, now, ledger, context.override)
          /\ \A i \in DOMAIN ledger : ledger[i].key >= k => ledger[i].plannedAt = now
      BY <1>2, <2>1 DEF CadenceInv, ActiveInv, ledger
    <3>. QED  BY <1>1, <1>5, <3>1
  <2>. QED  BY <1>2, <2>1 DEF ActiveInv, Allowed, new
<1>8. SentInv'
  <2>1. ASSUME NEW k \in Keys, NEW t \in sentAt[k]
        PROVE  /\ Allowed(k, t, new, context'.override)
               /\ t <= now
               /\ \A i \in DOMAIN new : new[i].key = k => t <= new[i].plannedAt
    <3>1. /\ Allowed(k, t, ledger, context.override) /\ t <= now
          /\ \A i \in DOMAIN ledger : ledger[i].key = k => t <= ledger[i].plannedAt
      BY DEF CadenceInv, SentInv, ledger
    <3>. QED  BY <1>1, <1>5, <3>1
  <2>. QED  BY <1>2, <2>1 DEF SentInv, Allowed, new
<1>. QED  BY <1>6, <1>7, <1>8 DEF CadenceInv

LEMMA TickKeepsTheCadence ==
  ASSUME EngineInv, CadenceInv, Tick
  PROVE  CadenceInv'
<1>1. /\ now' = now + 1 /\ UNCHANGED <<context, sentAt, pc, late, request>>
      /\ \A k : ~Active(k)
      /\ now \in Nat
  BY EngineAssumption
     DEF Tick, gatewayVars, Sending, Active, EngineInv, TypeOK, EngineAssumption
<1>2. ActiveInv'
  BY <1>1 DEF ActiveInv, Active
<1>3. LedgerInv'
  <2>1. \A i \in DOMAIN context.ledger : context.ledger[i].plannedAt \in Nat
    BY KeysAreCounted DEF EngineInv, TypeOK
  <2>. QED  BY <1>1, <2>1 DEF CadenceInv, LedgerInv, InOrder
<1>4. SentInv'
  <2>1. \A k \in Keys : \A t \in sentAt[k] : t \in Nat
    BY DEF EngineInv, TypeOK
  <2>2. ASSUME NEW k \in Keys, NEW t \in sentAt[k]
        PROVE  /\ Allowed(k, t, context.ledger, context.override)
               /\ t <= now'
               /\ \A i \in DOMAIN context.ledger :
                    context.ledger[i].key = k => t <= context.ledger[i].plannedAt
    BY <1>1, <2>1 DEF CadenceInv, SentInv
  <2>. QED  BY <1>1, <2>2 DEF SentInv, Allowed
<1>. QED  BY <1>2, <1>3, <1>4 DEF CadenceInv

LEMMA CadenceInvariant == Spec => []CadenceInv
<1>1. ASSUME EngineInv, CadenceInv, [Next]_vars
      PROVE  CadenceInv'
  <2>1. CASE UNCHANGED vars
    <3>1. UNCHANGED <<now, context, sentAt, pc, late, request>>
      BY <2>1 DEF vars, gatewayVars, sequenceVars
    <3>2. LedgerInv' /\ SentInv'
      BY <1>1, <3>1 DEF CadenceInv, LedgerInv, InOrder, SentInv, Allowed
    <3>3. ActiveInv'
      BY <1>1, <3>1 DEF CadenceInv, ActiveInv, Allowed, Active
    <3>. QED  BY <3>2, <3>3 DEF CadenceInv
  <2>. QED  BY <1>1, <2>1, AdvanceKeepsTheCadence, DeliverKeepsTheCadence,
               FinishKeepsTheCadence, StopKeepsTheCadence, TickKeepsTheCadence DEF Next
<1>. QED  BY <1>1, CadenceInit, EngineInvariant, PTL DEF Spec

\* Whatever the channels, their spacing, the limit, the exceptions and the holidays are
\* and however many workers advance the sequence: a person gets at most the touches
\* that are allowed, in order, at their distances and in working hours.
THEOREM CadenceIsKept == Spec => []TouchesKeepTheCadence
<1>1. ASSUME EngineInv, CadenceInv
      PROVE  TouchesKeepTheCadence
  <2>1. \A k \in Keys : \A t \in sentAt[k] : t \in Nat
    BY <1>1 DEF EngineInv, TypeOK
  <2>2. ASSUME NEW k \in Keys, NEW t \in sentAt[k]
        PROVE  k <= Highest(context.override) /\ IsWithinContactWindow(t) /\ ~IsHoliday(t)
    BY <1>1 DEF CadenceInv, SentInv, Allowed
  <2>3. ASSUME NEW k \in Keys, NEW l \in Keys, k < l, NEW t \in sentAt[k], NEW u \in sentAt[l]
        PROVE  u >= t + SpacingBefore(l)
    <3>1. Allowed(l, u, context.ledger, context.override)
      BY <1>1 DEF CadenceInv, SentInv
    <3>2. k \in 1..(l - 1) /\ l - 1 \in Nat
      BY <2>3 DEF Keys, MaxApproved
    <3>3. PICK i \in DOMAIN context.ledger : context.ledger[i].key = k
      BY <3>1, <3>2 DEF Allowed
    <3>4. t <= context.ledger[i].plannedAt
      BY <1>1, <3>3 DEF CadenceInv, SentInv
    <3>5. u >= context.ledger[i].plannedAt + SpacingBefore(l)
      BY <2>3, <3>1, <3>3 DEF Allowed
    <3>6. SpacingBefore(l) \in Nat /\ context.ledger[i].plannedAt \in Nat
      BY <1>1, <3>1, <3>2, <3>3, ChannelIsOne, KeysAreCounted
         DEF SpacingBefore, Allowed, EngineInv, TypeOK
    <3>. QED  BY <2>1, <3>4, <3>5, <3>6
  <2>. QED  BY <2>2, <2>3 DEF TouchesKeepTheCadence, SpacingBefore
<1>. QED  BY <1>1, EngineInvariant, CadenceInvariant, PTL

-----------------------------------------------------------------------------
(* The preview of a plan.                                                  *)

\* What may have been found of a plan after some of its steps: touches that are still
\* allowed and that the ledger, with them entered as sent, has in order.
Outcomes == {"PLAN", "SCHEDULED", "STOPPED", "DUPLICATE", "COMPLETE", "THROWN"}
Foreseen(touches) == context.ledger \o touches
Promises(touches) ==
  /\ InOrder(Foreseen(touches))
  /\ Ordinal(Foreseen(touches)) = Ordinal(context.ledger) + Len(touches)
  /\ \A i \in 1..Len(touches) :
       /\ touches[i].key = Ordinal(context.ledger) + i
       /\ Ordinal(context.ledger) + i <= ApprovedMaximum(context, now)
       /\ touches[i].plannedAt >= now
       /\ i > 1 => touches[i].plannedAt >= touches[i - 1].plannedAt + Spacing[touches[i].channel]
  /\ StopKnown => touches = << >>
Previews == {found \in [outcome : Outcomes, touches : Seq(Touch)] : Promises(found.touches)}

NoPreview == [outcome |-> "PLAN", touches |-> << >>]

\* A touch with the next key and a date that is late enough is in its place.
LEMMA NextTouchJoins ==
  ASSUME NEW ledger \in Seq(Touch), InOrder(ledger), NEW t \in Touch,
         t.key = Ordinal(ledger) + 1,
         \A i \in DOMAIN ledger : ledger[i].plannedAt <= t.plannedAt
  PROVE  /\ Append(ledger, t) \in Seq(Touch) /\ InOrder(Append(ledger, t))
         /\ Ordinal(Append(ledger, t)) = Ordinal(ledger) + 1
<1>1. PICK new, n : new = Append(ledger, t) /\ n = Len(ledger) + 1
  OBVIOUS
<1>2. /\ new \in Seq(Touch) /\ n \in Nat /\ DOMAIN ledger = 1..(n - 1) /\ DOMAIN new = 1..n
      /\ new[n] = t /\ \A i \in 1..(n - 1) : new[i] = ledger[i]
      /\ \A i \in 1..n : i = n \/ i \in 1..(n - 1)
  BY <1>1, EntryJoins
<1>3. PICK m \in Nat : m = Ordinal(ledger)
  BY KeysAreCounted
<1>4. \A i \in 1..(n - 1) : ledger[i].key \in Nat /\ ledger[i].key <= m /\ ledger[i].plannedAt \in Nat
  <2>1. \A i \in DOMAIN ledger : ledger[i].key <= m
    BY <1>3, LastIsLatest
  <2>2. \A i \in DOMAIN ledger : ledger[i].key \in 1..5 /\ ledger[i].plannedAt \in Nat
    BY KeysAreCounted
  <2>. QED  BY <1>2, <2>1, <2>2
<1>5. \A j \in 1..m : \E i \in 1..(n - 1) : ledger[i].key = j
  BY <1>2, <1>3, LastIsLatest
<1>6. t.plannedAt \in Nat /\ t.key = m + 1 /\ n - 1 \in Nat
  <2>1. Len(ledger) \in Nat
    BY LenProperties
  <2>. QED  BY <1>1, <1>3, <2>1 DEF Touch
<1>7. ASSUME NEW i \in 1..n, NEW k \in 1..(new[i].key - 1)
      PROVE  \E j \in 1..(i - 1) : new[j].key = k
  <2>1. CASE i = n
    <3>1. k \in 1..m
      BY <1>2, <1>6, <1>7, <2>1
    <3>2. PICK j \in 1..(n - 1) : ledger[j].key = k
      BY <1>5, <3>1
    <3>. QED  BY <1>2, <2>1, <3>2
  <2>2. CASE i \in 1..(n - 1)
    <3>1. k \in 1..(ledger[i].key - 1) /\ i \in DOMAIN ledger
      BY <1>2, <1>7, <2>2
    <3>2. PICK j \in 1..(i - 1) : ledger[j].key = k
      BY <3>1 DEF InOrder
    <3>3. j \in 1..(n - 1)
      BY <1>6, <2>2
    <3>. QED  BY <1>2, <3>2, <3>3
  <2>. QED  BY <1>2, <2>1, <2>2
<1>8. ASSUME NEW i \in 1..n, NEW j \in 1..n, new[i].key <= new[j].key
      PROVE  new[i].plannedAt <= new[j].plannedAt
  <2>1. CASE i = n /\ j = n
    BY <1>2, <1>6, <2>1
  <2>2. CASE i # n /\ j = n
    BY <1>2, <2>2
  <2>3. CASE i = n /\ j # n
    <3>1. j \in 1..(n - 1)
      BY <1>2, <2>3
    <3>2. new[j].key <= m /\ new[i].key = m + 1 /\ new[j].key \in Nat
      BY <1>2, <1>4, <1>6, <2>3, <3>1
    <3>. QED  BY <1>3, <1>8, <3>2
  <2>4. CASE i # n /\ j # n
    <3>1. i \in DOMAIN ledger /\ j \in DOMAIN ledger /\ ledger[i] = new[i] /\ ledger[j] = new[j]
      BY <1>2, <2>4
    <3>. QED  BY <1>8, <3>1 DEF InOrder
  <2>. QED  BY <2>1, <2>2, <2>3, <2>4
<1>9. InOrder(new)
  BY <1>2, <1>7, <1>8 DEF InOrder
<1>10. Ordinal(new) = m + 1
  <2>1. PICK o \in Nat : o = Ordinal(new)
    BY <1>2, KeysAreCounted
  <2>2. m + 1 <= o
    <3>1. new[n].key <= o /\ n \in 1..n
      BY <1>2, <1>6, <1>9, <2>1, LastIsLatest
    <3>. QED  BY <1>2, <1>6, <3>1
  <2>3. o # 0 => \E i \in 1..n : new[i].key = o
    <3>1. o # 0 => o \in 1..o
      BY <2>1
    <3>. QED  BY <1>2, <1>9, <2>1, <3>1, LastIsLatest
  <2>4. \A i \in 1..n : new[i].key \in Nat /\ new[i].key <= m + 1
    BY <1>2, <1>3, <1>4, <1>6
  <2>. QED  BY <1>3, <2>1, <2>2, <2>3, <2>4
<1>. QED  BY <1>1, <1>2, <1>3, <1>9, <1>10

LEMMA PlansHaveOutcomes ==
  ASSUME NEW ctx, NEW start, NEW time
  PROVE  AroundHolidays(PlanNextTouch(ctx, NoKey, start, time)).outcome \in Outcomes
<1>1. PICK plan : plan = PlanNextTouch(ctx, NoKey, start, time)
  OBVIOUS
<1>2. \/ plan \in {Outcome("STOPPED"), Outcome("DUPLICATE"), Outcome("COMPLETE")}
      \/ \E t : plan = [outcome |-> "SCHEDULED", touch |-> t]
  BY <1>1 DEF PlanNextTouch
<1>3. plan.outcome \in Outcomes
  BY <1>2 DEF Outcome, Outcomes
<1>4. CASE plan.outcome # "SCHEDULED" \/ Holidays = {}
  BY <1>1, <1>3, <1>4 DEF AroundHolidays
<1>5. CASE ~(plan.outcome # "SCHEDULED" \/ Holidays = {})
  <2>1. PICK t : plan = [outcome |-> "SCHEDULED", touch |-> t]
    BY <1>2, <1>5 DEF Outcome
  <2>2. \/ AroundHolidays(plan) = Outcome("THROWN")
        \/ \E x : AroundHolidays(plan) = [plan EXCEPT !.touch.plannedAt = x]
    BY <1>5 DEF AroundHolidays
  <2>3. \A x : [plan EXCEPT !.touch.plannedAt = x].outcome = "SCHEDULED"
    BY <2>1
  <2>4. AroundHolidays(plan).outcome \in {"SCHEDULED", "THROWN"}
    <3>1. CASE AroundHolidays(plan) = Outcome("THROWN")
      BY <3>1 DEF Outcome
    <3>2. CASE \E x : AroundHolidays(plan) = [plan EXCEPT !.touch.plannedAt = x]
      BY <2>3, <3>2
    <3>. QED  BY <2>2, <3>1, <3>2
  <2>. QED  BY <1>1, <2>4 DEF Outcomes
<1>. QED  BY <1>4, <1>5

\* A plan is for what a stop has not ended yet, also in the preview.
LEMMA StopEndsPreviews ==
  ASSUME TypeOK, NEW touches \in Seq(Touch), StopKnown
  PROVE  Stopped([context EXCEPT !.ledger = @ \o touches])
<1>1. /\ context.ledger \in Seq(Touch)
      /\ context \in [ledger : Seq(Touch), signals : SUBSET Signals, suppressed : BOOLEAN,
                      override : Overrides \cup {NoOverride}]
  BY DEF TypeOK
<1>2. PICK ctx : ctx = [context EXCEPT !.ledger = @ \o touches]
  OBVIOUS
<1>3. /\ ctx.suppressed = context.suppressed /\ ctx.signals = context.signals
      /\ ctx.ledger = context.ledger \o touches
  BY <1>1, <1>2
<1>4. \A i \in DOMAIN context.ledger :
        i \in DOMAIN ctx.ledger /\ ctx.ledger[i] = context.ledger[i]
  <2>1. PICK a, b, c : a = context.ledger /\ b = touches /\ c = a \o b
    OBVIOUS
  <2>2. /\ a \in Seq(Touch) /\ b \in Seq(Touch) /\ Len(a) \in Nat /\ Len(b) \in Nat
        /\ DOMAIN a = 1..Len(a)
    BY <1>1, <2>1, LenProperties
  <2>3. /\ c \in Seq(Touch) /\ Len(c) = Len(a) + Len(b)
        /\ \A i \in 1..(Len(a) + Len(b)) : c[i] = IF i <= Len(a) THEN a[i] ELSE b[i - Len(a)]
    BY <2>1, <2>2, ConcatProperties
  <2>4. DOMAIN c = 1..(Len(a) + Len(b))
    BY <2>3, LenProperties
  <2>5. \A i \in 1..Len(a) : i \in 1..(Len(a) + Len(b)) /\ i <= Len(a)
    BY <2>2
  <2>. QED  BY <1>3, <2>1, <2>2, <2>3, <2>4, <2>5
<1>5. Stopped(ctx)
  BY <1>3, <1>4 DEF StopKnown, Stopped
<1>. QED  BY <1>2, <1>5

\* One step more finds a touch that may be promised after the others, or ends the plan.
LEMMA PreviewGrows ==
  ASSUME TypeOK, LedgerInv, NEW found \in Previews
  PROVE  ExtendPlan(found, context, StartedAt, now) \in Previews
<1>1. PICK touches \in Seq(Touch) : touches = found.touches /\ Promises(touches)
  BY DEF Previews
<1>2. /\ found \in [outcome : Outcomes, touches : Seq(Touch)] /\ found.touches = touches
  BY <1>1 DEF Previews
<1>3. PICK ctx : ctx = [context EXCEPT !.ledger = @ \o touches]
  OBVIOUS
<1>4. /\ context.ledger \in Seq(Touch) /\ now \in Nat /\ StartedAt \in Nat
      /\ ctx.ledger = Foreseen(touches) /\ ctx.override = context.override
  <2>1. context \in [ledger : Seq(Touch), signals : SUBSET Signals, suppressed : BOOLEAN,
                     override : Overrides \cup {NoOverride}]
    BY DEF TypeOK
  <2>2. now \in Nat /\ StartedAt \in Nat
    BY EngineAssumption DEF TypeOK, EngineAssumption
  <2>. QED  BY <1>3, <2>1, <2>2 DEF Foreseen
<1>5. PICK plan : plan = AroundHolidays(PlanNextTouch(ctx, NoKey, StartedAt, now))
  OBVIOUS
<1>6. plan.outcome \in Outcomes
  BY <1>5, PlansHaveOutcomes
<1>7. CASE ~(found.outcome = "PLAN" /\ plan.outcome = "SCHEDULED")
  <2>1. ExtendPlan(found, context, StartedAt, now)
          = [found EXCEPT !.outcome = IF @ = "PLAN" THEN plan.outcome ELSE @]
    BY <1>2, <1>3, <1>5, <1>7 DEF ExtendPlan
  <2>2. PICK o \in Outcomes : ExtendPlan(found, context, StartedAt, now) = [found EXCEPT !.outcome = o]
    BY <1>2, <1>6, <2>1
  <2>3. /\ [found EXCEPT !.outcome = o] \in [outcome : Outcomes, touches : Seq(Touch)]
        /\ [found EXCEPT !.outcome = o].touches = touches
    BY <1>2
  <2>. QED  BY <1>1, <2>2, <2>3 DEF Previews
<1>8. CASE found.outcome = "PLAN" /\ plan.outcome = "SCHEDULED"
  <2>1. PICK t : t = [plan.touch EXCEPT !.status = "SENT"]
    OBVIOUS
  <2>2. ExtendPlan(found, context, StartedAt, now) = [found EXCEPT !.touches = Append(touches, t)]
    BY <1>2, <1>3, <1>5, <1>8, <2>1 DEF ExtendPlan
  <2>3. PICK ledger \in Seq(Touch) :
          ledger = Foreseen(touches) /\ ledger = ctx.ledger /\ InOrder(ledger)
    <3>1. Foreseen(touches) \in Seq(Touch)
      BY <1>1, <1>4, ConcatProperties DEF Foreseen
    <3>. QED  BY <1>1, <1>4, <3>1 DEF Promises
  <2>4. PICK n \in Nat, m \in Nat, k \in Nat :
          n = Ordinal(context.ledger) /\ m = Len(touches) /\ k = Ordinal(ledger) /\ k = n + m
    <3>1. Ordinal(context.ledger) \in Nat /\ Len(touches) \in Nat /\ Ordinal(ledger) \in Nat
      BY <1>1, <1>4, KeysAreCounted, LenProperties
    <3>. QED  BY <1>1, <2>3, <3>1 DEF Promises
  <2>5. ApprovedMaximum(ctx, now) = ApprovedMaximum(context, now) /\ ApprovedMaximum(context, now) \in 1..5
    BY <1>4, ApprovedIsBounded DEF ApprovedMaximum
  <2>6. NoKey \in 0..(Ordinal(ctx.ledger) + 1)
    BY <2>3, <2>4 DEF NoKey
  <2>7. /\ plan.touch \in Touch /\ plan.touch.plannedAt >= now
        /\ plan.touch.key = k + 1 /\ plan.touch.channel = SelectedChannel(ledger)
        /\ k < ApprovedMaximum(context, now) /\ ~Stopped(ctx) /\ EnabledChannels # << >>
        /\ ledger # << >> => plan.touch.plannedAt
             >= LastTouch(ledger).plannedAt + Spacing[SelectedChannel(ledger)]
    <3>1. ctx.ledger \in Seq(Touch) /\ ApprovedMaximum(ctx, now) \in 1..5
      BY <2>3, <2>5
    <3>2. plan.outcome = "SCHEDULED" /\ now \in Nat /\ StartedAt \in Nat
      BY <1>4, <1>8
    <3>3. /\ plan.touch \in Touch /\ plan.touch.plannedAt >= now
          /\ plan.touch.key = IF NoKey = NoKey THEN Ordinal(ctx.ledger) + 1 ELSE NoKey
          /\ plan.touch.channel = SelectedChannel(ctx.ledger)
          /\ Ordinal(ctx.ledger) < ApprovedMaximum(ctx, now)
          /\ ~Stopped(ctx) /\ EnabledChannels # << >>
          /\ ctx.ledger # << >> => plan.touch.plannedAt
               >= LastTouch(ctx.ledger).plannedAt + Spacing[SelectedChannel(ctx.ledger)]
      BY <1>5, <2>6, <3>1, <3>2, PlanIsLater
    <3>. QED  BY <2>3, <2>4, <2>5, <3>3
  <2>8. PICK wait \in Nat : wait = Spacing[SelectedChannel(ledger)]
    BY <2>4, <2>7, ChannelIsOne DEF SelectedChannel, Ordinal
  <2>9. /\ t \in Touch /\ t.key = k + 1 /\ t.channel = SelectedChannel(ledger)
        /\ t.plannedAt = plan.touch.plannedAt /\ t.plannedAt \in Nat
    BY <2>1, <2>7 DEF Touch, SentStatus
  <2>10. \A i \in DOMAIN ledger : /\ ledger[i].plannedAt \in Nat
                                  /\ ledger[i].plannedAt + wait <= t.plannedAt
    <3>. SUFFICES ASSUME NEW i \in DOMAIN ledger
                  PROVE  /\ ledger[i].plannedAt \in Nat
                         /\ ledger[i].plannedAt + wait <= t.plannedAt
      OBVIOUS
    <3>1. ledger # << >>
      BY EmptySeq, LenProperties
    <3>2. ledger[i].plannedAt \in Nat
      BY KeysAreCounted
    <3>3. LastTouch(ledger).plannedAt \in Nat
      BY <3>1, LastTouchIsOne, KeysAreCounted
    <3>4. ledger[i].plannedAt <= LastTouch(ledger).plannedAt
      BY <2>3, <3>1, LastIsLatest
    <3>. QED  BY <2>7, <2>8, <2>9, <3>1, <3>2, <3>3, <3>4
  <2>11. \A i \in DOMAIN ledger : ledger[i].plannedAt <= t.plannedAt
    BY <2>8, <2>9, <2>10
  <2>12. InOrder(Append(ledger, t)) /\ Ordinal(Append(ledger, t)) = k + 1
    BY <2>3, <2>4, <2>9, <2>11, NextTouchJoins
  <2>13. PICK more : more = Append(touches, t)
    OBVIOUS
  <2>14. /\ more \in Seq(Touch) /\ Len(more) = m + 1 /\ more[m + 1] = t
         /\ \A i \in 1..m : more[i] = touches[i]
    BY <1>1, <2>4, <2>9, <2>13, AppendProperties
  <2>15. Foreseen(more) = Append(ledger, t)
    <3>1. <<t>> \in Seq(Touch)
      BY <2>9
    <3>2. Append(touches, t) = touches \o <<t>> /\ Append(ledger, t) = ledger \o <<t>>
      BY <2>9, AppendIsConcat
    <3>3. (context.ledger \o touches) \o <<t>> = context.ledger \o (touches \o <<t>>)
      <4>1. PICK a \in Seq(Touch), b \in Seq(Touch), c \in Seq(Touch) :
              a = context.ledger /\ b = touches /\ c = <<t>>
        BY <1>4, <3>1
      <4>2. (a \o b) \o c = a \o (b \o c)
        BY ConcatAssociative
      <4>. QED  BY <4>1, <4>2
    <3>. QED  BY <2>3, <2>13, <3>2, <3>3 DEF Foreseen
  <2>16. m >= 1 => t.plannedAt >= touches[m].plannedAt + wait
    <3>. SUFFICES ASSUME m >= 1 PROVE t.plannedAt >= touches[m].plannedAt + wait
      OBVIOUS
    <3>1. PICK a : a = Len(context.ledger) /\ a \in Nat
      BY <1>4, LenProperties
    <3>2. /\ Len(ledger) = a + m
          /\ \A i \in 1..(a + m) : ledger[i] = IF i <= a THEN context.ledger[i] ELSE touches[i - a]
      <4>1. PICK b \in Seq(Touch), c \in Seq(Touch) : b = context.ledger /\ c = touches
        BY <1>4
      <4>2. /\ Len(b \o c) = Len(b) + Len(c)
            /\ \A i \in 1..(Len(b) + Len(c)) : (b \o c)[i] = IF i <= Len(b) THEN b[i] ELSE c[i - Len(b)]
        BY ConcatProperties
      <4>3. Len(b) = a /\ Len(c) = m /\ ledger = b \o c
        BY <2>3, <2>4, <3>1, <4>1 DEF Foreseen
      <4>. QED  BY <4>1, <4>2, <4>3
    <3>3. a + m \in 1..(a + m) /\ ~(a + m <= a) /\ a + m - a = m
      BY <2>4, <3>1
    <3>4. ledger[a + m] = touches[m]
      <4>1. PICK i \in Nat : i = a + m
        BY <2>4, <3>1
      <4>2. i \in 1..i /\ ~(i <= a) /\ i - a = m
        BY <2>4, <3>1, <4>1
      <4>3. ledger[i] = touches[i - a]
        BY <3>2, <4>1, <4>2
      <4>. QED  BY <4>1, <4>2, <4>3
    <3>5. a + m \in DOMAIN ledger
      BY <2>3, <3>2, <3>3, LenProperties
    <3>6. /\ touches[m].plannedAt \in Nat
          /\ touches[m].plannedAt + wait <= t.plannedAt
      BY <2>10, <3>4, <3>5
    <3>. QED  BY <2>8, <2>9, <3>6
  <2>17. ASSUME NEW i \in 1..(m + 1)
         PROVE  /\ more[i].key = n + i /\ n + i <= ApprovedMaximum(context, now)
                /\ more[i].plannedAt >= now
                /\ i > 1 => more[i].plannedAt >= more[i - 1].plannedAt + Spacing[more[i].channel]
    <3>1. CASE i = m + 1
      <4>1. more[i] = t /\ (i > 1 => i - 1 = m /\ m >= 1 /\ more[i - 1] = touches[m])
        BY <2>4, <2>14, <3>1
      <4>2. n + i = k + 1 /\ n + i <= ApprovedMaximum(context, now)
        BY <2>4, <2>5, <2>7, <3>1
      <4>. QED  BY <2>7, <2>8, <2>9, <2>16, <4>1, <4>2
    <3>2. CASE i # m + 1
      <4>1. i \in 1..m /\ (i > 1 => i - 1 \in 1..m)
        BY <2>4, <3>2
      <4>2. more[i] = touches[i] /\ (i > 1 => more[i - 1] = touches[i - 1])
        BY <2>14, <4>1
      <4>. QED  BY <1>1, <2>4, <4>1, <4>2 DEF Promises
    <3>. QED  BY <3>1, <3>2
  <2>18. ~StopKnown
    BY <1>1, <1>3, <2>7, StopEndsPreviews
  <2>19. Ordinal(Foreseen(more)) = n + Len(more)
    BY <2>4, <2>12, <2>14, <2>15
  <2>20. Promises(more)
    BY <2>4, <2>12, <2>14, <2>15, <2>17, <2>18, <2>19 DEF Promises
  <2>21. /\ [found EXCEPT !.touches = more] \in [outcome : Outcomes, touches : Seq(Touch)]
         /\ [found EXCEPT !.touches = more].touches = more
    BY <1>2, <2>14
  <2>. QED  BY <2>2, <2>13, <2>20, <2>21 DEF Previews
<1>. QED  BY <1>7, <1>8

LEMMA NothingIsPromised ==
  ASSUME TypeOK, LedgerInv
  PROVE  NoPreview \in Previews
<1>1. context.ledger \in Seq(Touch) /\ << >> \in Seq(Touch)
  BY EmptySeq DEF TypeOK
<1>2. Foreseen(<< >>) = context.ledger /\ Len(<< >>) = 0
  BY <1>1, ConcatEmptySeq, EmptySeq DEF Foreseen
<1>3. Ordinal(context.ledger) \in Nat
  BY <1>1, KeysAreCounted
<1>4. Promises(<< >>)
  BY <1>2, <1>3 DEF Promises, LedgerInv
<1>. QED  BY <1>1, <1>4 DEF Previews, NoPreview, Outcomes

\* The recursive function of buildTouchPlan exists, and all it finds can be promised.
Looks(g) ==
  g = [n \in 0..MaxProactiveTouches |->
         IF n = 0 THEN [outcome |-> "PLAN", touches |-> << >>]
         ELSE ExtendPlan(g[n - 1], context, StartedAt, now)]

LEMMA SomeLook ==
  ASSUME TypeOK, LedgerInv
  PROVE  \E g : Looks(g)
<1>1. PICK m \in Nat : m = MaxProactiveTouches
  BY PolicyAssumption DEF PolicyAssumption, MaxApproved
<1>2. PICK F : F = [p \in (1..m) \X Previews |-> ExtendPlan(p[2], context, StartedAt, now)]
  OBVIOUS
<1>3. \A i \in 1..m : \A r \in Previews :
        /\ F[<<i, r>>] = ExtendPlan(r, context, StartedAt, now)
        /\ F[<<i, r>>] \in Previews
  BY <1>2, PreviewGrows
<1>4. F \in [(1..m) \X Previews -> Previews]
  BY <1>2, <1>3
<1>5. PICK none \in Previews : none = NoPreview
  BY NothingIsPromised
<1>6. PICK g : Steps(m, Previews, none, F, g)
  BY <1>4, StepByStep
<1>7. g \in [0..m -> Previews] /\ g[0] = none /\ \A i \in 1..m : g[i] = F[<<i, g[i - 1]>>]
  BY <1>6 DEF Steps
<1>8. \A i \in 0..m : g[i] = IF i = 0 THEN NoPreview
                             ELSE ExtendPlan(g[i - 1], context, StartedAt, now)
  <2> SUFFICES ASSUME NEW i \in 0..m, i # 0
               PROVE  g[i] = ExtendPlan(g[i - 1], context, StartedAt, now)
    BY <1>5, <1>7
  <2>1. i \in 1..m /\ i - 1 \in 0..m
    OBVIOUS
  <2>. QED  BY <1>3, <1>7, <2>1
<1>9. g = [i \in 0..m |-> g[i]]
  BY <1>7
<1>. QED  BY <1>1, <1>8, <1>9 DEF Looks, NoPreview

LEMMA EveryLook ==
  ASSUME TypeOK, LedgerInv, NEW g, Looks(g)
  PROVE  g[MaxProactiveTouches] \in Previews
<1>1. PICK m \in Nat : m = MaxProactiveTouches
  BY PolicyAssumption DEF PolicyAssumption, MaxApproved
<1>2. \A i \in 0..m : g[i] = IF i = 0 THEN NoPreview
                             ELSE ExtendPlan(g[i - 1], context, StartedAt, now)
  BY <1>1 DEF Looks, NoPreview
<1> DEFINE K == {i \in 0..m : g[i] \notin Previews}
<1>3. K = {}
  <2> SUFFICES ASSUME K # {}
               PROVE  FALSE
    OBVIOUS
  <2>1. K \in SUBSET Nat
    OBVIOUS
  <2> DEFINE k == Min(K)
  <2>2. k \in K /\ \A l \in K : k <= l
    BY <2>1, MinIsLeast
  <2> HIDE DEF k
  <2>3. k \in 0..m /\ g[k] \notin Previews
    BY <2>2
  <2>4. k # 0
    BY <1>2, <2>3, NothingIsPromised
  <2>5. k - 1 \in 0..m /\ ~(k <= k - 1)
    BY <2>3, <2>4
  <2>6. g[k - 1] \in Previews
    BY <2>2, <2>5
  <2>7. g[k] = ExtendPlan(g[k - 1], context, StartedAt, now)
    BY <1>2, <2>3, <2>4
  <2>. QED  BY <2>3, <2>6, <2>7, PreviewGrows
<1>. QED  BY <1>1, <1>3

\* Whatever is on record, whatever the policy and the holidays are and however long the
\* plan is: a preview promises touches of the next keys, no more than are allowed, none
\* in the past and each at its distance from the one before, and nothing after a stop.
THEOREM PreviewsCanBeKept == Spec => []PreviewIsWithinThePlan
<1>1. ASSUME EngineInv, CadenceInv
      PROVE  PreviewIsWithinThePlan
  <2>1. TypeOK /\ LedgerInv
    BY <1>1 DEF EngineInv, CadenceInv
  <2> DEFINE g == CHOOSE found : Looks(found)
  <2>2. Looks(g)
    BY <2>1, SomeLook
  <2>3. TouchPlan(context, StartedAt, now) = g[MaxProactiveTouches]
    BY DEF TouchPlan, Looks
  <2> HIDE DEF g
  <2>4. PICK plan \in Previews : plan = TouchPlan(context, StartedAt, now)
    BY <2>1, <2>2, <2>3, EveryLook
  <2>5. PICK touches \in Seq(Touch) : touches = plan.touches /\ Promises(touches)
    BY <2>4 DEF Previews
  <2>6. DOMAIN touches = 1..Len(touches)
    BY <2>5, LenProperties
  <2>. QED  BY <2>4, <2>5, <2>6 DEF PreviewIsWithinThePlan, Promises, Ordinal
<1>. QED  BY <1>1, EngineInvariant, CadenceInvariant, PTL
====
