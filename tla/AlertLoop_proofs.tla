-------------------------- MODULE AlertLoop_proofs --------------------------
(***************************************************************************)
(* What one loop of spo-monitor guarantees for any pools, listings, tiers, *)
(* failures and restarts: its variables keep their types, a pool has one   *)
(* notification per pass, a state is committed only after its message was  *)
(* delivered, and no message repeats what the recipient already knows.     *)
(*                                                                         *)
(* All four follow from one inductive invariant, LoopInv: a note is about  *)
(* one pool, a note being saved tells what the recipient has heard, and,   *)
(* while no delivery came apart from its save, a note still to be sent     *)
(* tells something else than what the recipient and the table hold.        *)
(***************************************************************************)
EXTENDS AlertLoop, SequenceTheorems, TLAPS

\* Which of the two sequences of notes can be non-empty where.
Stages ==
    /\ pc = "wait" => batch = <<>>
    /\ pc \in {"wait", "check", "send"} => saving = <<>>
    /\ pc = "save" => saving # <<>>

\* No two notes of a sequence are about one pool.
PoolsDiffer(notes) ==
    \A i, j \in 1..Len(notes) : notes[i].pool = notes[j].pool => i = j

\* A pool is not both being saved and waiting to be sent.
NotBoth ==
    \A i \in 1..Len(saving), j \in 1..Len(batch) : saving[i].pool # batch[j].pool

\* A KES alert state has crossed a tier.
Crossed(st) == kind = "kes" /\ st.status = "alerting" => st.level > 0

LevelsCrossed ==
    /\ \A p \in Pools : Crossed(row[p])
    /\ \A i \in 1..Len(batch) : Crossed(batch[i].state)
    /\ \A i \in 1..Len(saving) : Crossed(saving[i].state)

\* What is being saved is what the recipient was told.
SavingIsHeard ==
    \A i \in 1..Len(saving) : heard[saving[i].pool] = Tells(saving[i].state)

\* The pools whose delivered state is not in the table yet.
BeingSaved(p) == \E i \in 1..Len(saving) : saving[i].pool = p

\* Unless a delivery came apart from its save, the table holds what was heard,
\* a note that inserts finds no row, and one that is no reminder tells news.
InStep ==
    ~torn =>
      /\ \A p \in Pools : ~BeingSaved(p) => heard[p] = Tells(row[p])
      /\ \A i \in 1..Len(saving) :
           saving[i].insert => row[saving[i].pool].status = "none"
      /\ \A i \in 1..Len(batch) :
           /\ batch[i].insert => row[batch[i].pool].status = "none"
           /\ batch[i].text # "reminder" =>
                Tells(batch[i].state) # Tells(row[batch[i].pool])

\* The inductive invariant.
LoopInv ==
    /\ TypeOK /\ Stages
    /\ PoolsDiffer(batch) /\ PoolsDiffer(saving) /\ NotBoth
    /\ LevelsCrossed /\ SavingIsHeard /\ InStep

\* ------------------------------------------------------ notes and messages

\* The states a loop stores are states, and a stored row tells what it told.
LEMMA StoredFacts ==
    ASSUME TypeOK, NEW p \in Pools
    PROVE  /\ Stored(p) \in State /\ Fresh \in State
           /\ Tells(Stored(p)) = Tells(row[p]) /\ Tells(Fresh) = 0
           /\ Crossed(row[p]) => Crossed(Stored(p))
           /\ Crossed(Fresh)
<1>1. row[p] \in State /\ 0 \in 0..MaxTier
  BY TierAssumption DEF TypeOK
<1>2. Fresh \in State
  BY <1>1 DEF Fresh, State
<1>3. Stored(p) \in State
  BY <1>1, <1>2 DEF Stored
<1>4. Fresh.status = "ok"
  BY DEF Fresh
<1> QED
  BY <1>2, <1>3, <1>4 DEF Stored, Tells, Crossed

\* What a state tells is a tier.
LEMMA TellsTier == ASSUME NEW st \in State PROVE Tells(st) \in 0..MaxTier
  BY TierAssumption DEF Tells, State

\* The state machine: a notification carries a state of the same type, and one
\* that is no reminder tells something else than the state it was found from.
LEMMA NoticeFacts ==
    ASSUME TypeOK, NEW st \in State, Crossed(st), NEW c \in 0..Worst,
           NEW n \in Notices(st, c)
    PROVE  /\ n[1] \in {"alert", "reminder", "recovery"} /\ n[2] \in State
           /\ Crossed(n[2])
           /\ n[1] # "reminder" => Tells(n[2]) # Tells(st)
<1>1. /\ kind \in {"block", "kes"} /\ c \in 0..MaxTier /\ 0 \in 0..MaxTier
      /\ st.level \in 0..MaxTier
  BY TierAssumption DEF TypeOK, Worst, State
<1>2. Fresh \in State /\ Fresh.status = "ok"
  BY <1>1 DEF Fresh, State
<1>3. \A l \in 0..MaxTier : /\ Alerting(l) \in State /\ Alerting(l).level = l
                            /\ Alerting(l).status = "alerting"
  BY DEF Alerting, State
<1>4. CASE kind = "block"
  <2>1. \/ st.status # "alerting" /\ n = <<"alert", Alerting(st.level)>>
        \/ n = <<"reminder", Alerting(st.level)>>
        \/ st.status = "alerting" /\ n = <<"recovery", Fresh>>
    BY <1>4 DEF Notices, WithReminder
  <2> QED
    BY <1>1, <1>2, <1>3, <1>4, <2>1 DEF Tells, Crossed
<1>5. CASE kind = "kes"
  <2>1. \/ /\ c > 0 /\ (st.status # "alerting" \/ c > st.level)
           /\ n = <<"alert", Alerting(c)>>
        \/ st.status = "alerting" /\ n = <<"recovery", Fresh>>
    BY <1>5 DEF Notices, Tiered
  <2> QED
    BY <1>1, <1>2, <1>3, <1>5, <2>1 DEF Tells, Crossed
<1> QED
  BY <1>1, <1>4, <1>5

\* A message is the front of the batch, and the rest is what follows it.
LEMMA MessageFacts ==
    ASSUME batch \in Seq(Note), NEW n \in 1..Len(batch)
    PROVE  /\ Message(n) \in Seq(Note) /\ Len(Message(n)) = n
           /\ \A i \in 1..n : Message(n)[i] = batch[i]
           /\ Rest(n) \in Seq(Note) /\ Len(Rest(n)) = Len(batch) - n
           /\ \A i \in 1..Len(Rest(n)) : i + n \in 1..Len(batch) /\ Rest(n)[i] = batch[i + n]
<1>1. Len(batch) \in Nat /\ n \in Nat /\ 1 <= n /\ n <= Len(batch)
  BY LenProperties
<1>2. \A i \in 1..Len(batch) : batch[i] \in Note
  BY ElementOfSeq
<1>3. /\ SubSeq(batch, 1, n) \in Seq(Note) /\ Len(SubSeq(batch, 1, n)) = n
      /\ \A i \in 1..n : SubSeq(batch, 1, n)[i] = batch[i]
  <2>1. \A i \in 1..n : batch[i] \in Note
    BY <1>1, <1>2
  <2>2. /\ SubSeq(batch, 1, n) \in Seq(Note)
        /\ Len(SubSeq(batch, 1, n)) = IF 1 <= n THEN n - 1 + 1 ELSE 0
        /\ \A i \in 1..(n - 1 + 1) : SubSeq(batch, 1, n)[i] = batch[1 + i - 1]
    BY <1>1, <2>1, SubSeqProperties
  <2>3. n - 1 + 1 = n /\ \A i \in 1..n : 1 + i - 1 = i
    BY <1>1
  <2> QED
    BY <1>1, <2>2, <2>3
<1>4. /\ SubSeq(batch, n + 1, Len(batch)) \in Seq(Note)
      /\ Len(SubSeq(batch, n + 1, Len(batch))) = Len(batch) - n
      /\ \A i \in 1..(Len(batch) - n) : SubSeq(batch, n + 1, Len(batch))[i] = batch[i + n]
  <2>1. \A i \in (n + 1)..Len(batch) : batch[i] \in Note
    BY <1>1, <1>2
  <2> DEFINE k == n + 1
             len == Len(batch)
  <2>2. k \in Int /\ len \in Int /\ \A i \in k..len : batch[i] \in Note
    BY <1>1, <2>1
  <2>3. /\ SubSeq(batch, k, len) \in Seq(Note)
        /\ Len(SubSeq(batch, k, len)) = IF k <= len THEN len - k + 1 ELSE 0
        /\ \A i \in 1..(len - k + 1) : SubSeq(batch, k, len)[i] = batch[k + i - 1]
    <3> HIDE DEF k, len
    <3> QED
      BY <2>2, SubSeqProperties
  <2>4. /\ len - k + 1 = Len(batch) - n /\ \A i \in 1..(Len(batch) - n) : k + i - 1 = i + n
        /\ (IF k <= len THEN len - k + 1 ELSE 0) = Len(batch) - n
    BY <1>1
  <2> QED
    BY <2>3, <2>4
<1>5. \A i \in 1..(Len(batch) - n) : i + n \in 1..Len(batch)
  BY <1>1
<1> QED
  BY <1>3, <1>4, <1>5 DEF Message, Rest

\* A delivered message tells of each of its pools, and of no other.
LEMMA HeardFacts ==
    ASSUME TypeOK, NEW n \in 1..Len(batch)
    PROVE  /\ Heard(n) \in [Pools -> 0..MaxTier]
           /\ \A p \in Pools : ~Carries(n, p) => Heard(n)[p] = heard[p]
           /\ \A p \in Pools : Carries(n, p) =>
                \E i \in 1..n : batch[i].pool = p /\ Heard(n)[p] = Tells(batch[i].state)
<1>1. \A i \in 1..n : batch[i] \in Note
  <2>1. batch \in Seq(Note) /\ n <= Len(batch)
    BY DEF TypeOK
  <2> QED
    BY <2>1, ElementOfSeq, LenProperties
<1>2. ASSUME NEW p \in Pools, Carries(n, p)
      PROVE  \E i \in 1..n : batch[i].pool = p /\ Heard(n)[p] = Tells(batch[i].state)
  <2> DEFINE notes == { batch[i] : i \in 1..n }
             told == CHOOSE x \in notes : x.pool = p
  <2>1. \E x \in notes : x.pool = p
    BY <1>2 DEF Carries
  <2>2. told \in notes /\ told.pool = p
    BY <2>1
  <2>3. Heard(n)[p] = Tells(told.state)
    BY <1>2 DEF Heard
  <2> QED
    BY <2>2, <2>3
<1>3. \A p \in Pools : ~Carries(n, p) => Heard(n)[p] = heard[p]
  BY DEF Heard
<1>4. ASSUME NEW p \in Pools PROVE Heard(n)[p] \in 0..MaxTier
  <2>1. CASE Carries(n, p)
    <3>1. PICK i \in 1..n : Heard(n)[p] = Tells(batch[i].state)
      BY <1>2, <2>1
    <3>2. batch[i].state \in State
      BY <1>1 DEF Note
    <3> QED
      BY <3>1, <3>2, TellsTier
  <2>2. CASE ~Carries(n, p)
    BY <1>3, <2>2 DEF TypeOK
  <2> QED
    BY <2>1, <2>2
<1>5. Heard(n) \in [Pools -> 0..MaxTier]
  <2>1. Heard(n) = [p \in Pools |-> Heard(n)[p]]
    BY DEF Heard
  <2> HIDE DEF Heard
  <2> QED
    BY <1>4, <2>1
<1> QED
  BY <1>2, <1>3, <1>5

\* With one note per pool, what a pool's note tells is what is heard of it.
LEMMA HeardIsTold ==
    ASSUME TypeOK, PoolsDiffer(batch), NEW n \in 1..Len(batch)
    PROVE  \A i \in 1..n : Heard(n)[batch[i].pool] = Tells(batch[i].state)
<1> SUFFICES ASSUME NEW i \in 1..n
             PROVE  Heard(n)[batch[i].pool] = Tells(batch[i].state)
  OBVIOUS
<1>1. batch \in Seq(Note) /\ Len(batch) \in Nat
  BY LenProperties DEF TypeOK
<1>2. i \in 1..Len(batch) /\ \A j \in 1..n : j \in 1..Len(batch)
  BY <1>1
<1>3. batch[i].pool \in Pools
  <2>1. batch[i] \in Note
    BY <1>1, <1>2, ElementOfSeq
  <2> QED
    BY <2>1 DEF Note
<1>4. Carries(n, batch[i].pool)
  BY DEF Carries
<1>5. PICK j \in 1..n : /\ batch[j].pool = batch[i].pool
                        /\ Heard(n)[batch[i].pool] = Tells(batch[j].state)
  BY <1>3, <1>4, HeardFacts
<1>6. i = j
  BY <1>2, <1>5 DEF PoolsDiffer
<1> QED
  BY <1>5, <1>6

\* A note appended to the batch comes last.
LEMMA AppendFacts ==
    ASSUME batch \in Seq(Note), NEW x \in Note
    PROVE  /\ Append(batch, x) \in Seq(Note) /\ Len(Append(batch, x)) = Len(batch) + 1
           /\ Append(batch, x)[Len(batch) + 1] = x
           /\ \A i \in 1..Len(batch) : Append(batch, x)[i] = batch[i]
           /\ \A i \in 1..(Len(batch) + 1) : i \in 1..Len(batch) \/ i = Len(batch) + 1
           /\ Len(batch) \in Nat
<1>1. Len(batch) \in Nat
  BY LenProperties
<1> QED
  BY <1>1

\* Saving takes the first note off.
LEMMA TailFacts ==
    ASSUME saving \in Seq(Note), saving # <<>>
    PROVE  /\ saving[1] \in Note /\ Tail(saving) \in Seq(Note)
           /\ Len(saving) \in Nat \ {0} /\ Len(Tail(saving)) = Len(saving) - 1
           /\ 1 \in 1..Len(saving)
           /\ \A i \in 1..Len(Tail(saving)) :
                /\ i + 1 \in 1..Len(saving) /\ i + 1 # 1
                /\ Tail(saving)[i] = saving[i + 1]
<1>1. Len(saving) \in Nat \ {0}
  BY EmptySeq
<1>2. /\ Tail(saving) \in Seq(Note) /\ Len(Tail(saving)) = Len(saving) - 1
      /\ \A i \in 1..Len(Tail(saving)) : Tail(saving)[i] = saving[i + 1]
  BY HeadTailProperties
<1>3. 1 \in 1..Len(saving) /\ saving[1] \in Note
  BY <1>1, ElementOfSeq
<1> QED
  BY <1>1, <1>2, <1>3

\* ----------------------------------------------------------------- types

\* SaveAlertState stores a state.
LEMMA SaveTypes ==
    ASSUME TypeOK, NEW p \in Pools, NEW st \in State, NEW insert,
           SaveAlertState(p, st, insert)
    PROVE  row' \in [Pools -> State]
  BY DEF TypeOK, SaveAlertState

\* A listing evaluated leaves a note of the right type, or a row of it.
LEMMA EvaluateTypes ==
    ASSUME TypeOK, LevelsCrossed, NEW p \in Pools, NEW st \in State, Crossed(st),
           NEW insert \in BOOLEAN, AtListing(p), Evaluate(p, st, insert)
    PROVE  row' \in [Pools -> State] /\ batch' \in Seq(Note) /\ pos' \in 1..(Len(Order) + 1)
<1>1. pos' \in 1..(Len(Order) + 1)
  <2>1. pos \in 1..(Len(Order) + 1) /\ pos <= Len(Order) /\ pos' = pos + 1 /\ Len(Order) \in Nat
    BY OrderAssumption, LenProperties DEF TypeOK, AtListing, Evaluate
  <2> QED
    BY <2>1
<1>2. row \in [Pools -> State] /\ batch \in Seq(Note) /\ cond[p] \in 0..Worst
  BY DEF TypeOK
<1>3. CASE Pending(p)
  BY <1>1, <1>2, <1>3 DEF Evaluate
<1>4. CASE ~Pending(p) /\ Notices(st, cond[p]) = {}
  <2>1. SaveAlertState(p, st, insert) /\ batch' = batch
    BY <1>4 DEF Evaluate
  <2> QED
    BY <1>1, <1>2, <2>1, SaveTypes
<1>5. CASE ~Pending(p) /\ Notices(st, cond[p]) # {}
  <2>1. PICK n \in Notices(st, cond[p]) :
          /\ batch' = Append(batch, [pool |-> p, text |-> n[1], state |-> n[2],
                                     insert |-> insert])
          /\ row' = row
    BY <1>5 DEF Evaluate
  <2>2. [pool |-> p, text |-> n[1], state |-> n[2], insert |-> insert] \in Note
    BY <1>2, NoticeFacts DEF Note
  <2> QED
    BY <1>1, <1>2, <2>1, <2>2, AppendFacts
<1> QED
  BY <1>3, <1>4, <1>5

\* Every step keeps the types; a note is taken off only where there is one.
LEMMA LoopTypes == TypeOK /\ Stages /\ LevelsCrossed /\ [Next]_vars => TypeOK'
<1> SUFFICES ASSUME TypeOK, Stages, LevelsCrossed, [Next]_vars PROVE TypeOK'
  OBVIOUS
<1> USE DEF loopVars, lifeVars, seenVars
<1>a. /\ kind \in {"block", "kes"} /\ cond \in [Pools -> 0..Worst] /\ row \in [Pools -> State]
      /\ pc \in {"wait", "check", "send", "save"} /\ pos \in 1..(Len(Order) + 1)
      /\ batch \in Seq(Note) /\ saving \in Seq(Note)
      /\ ctxDone \in BOOLEAN /\ restarts \in 0..MaxRestarts
      /\ heard \in [Pools -> 0..MaxTier] /\ torn \in BOOLEAN
  BY DEF TypeOK
<1>b. Len(Order) \in Nat /\ 1 \in 1..(Len(Order) + 1)
  BY OrderAssumption, LenProperties
<1>c. Worst \in 0..MaxTier /\ MaxTier \in Nat
  BY TierAssumption DEF Worst
<1>1. CASE StartPass
  <2>1. /\ pc' \in {"wait", "check", "send", "save"} /\ pos' \in 1..(Len(Order) + 1)
        /\ kind' = kind /\ cond' = cond /\ row' = row /\ batch' = batch /\ saving' = saving
        /\ ctxDone' = ctxDone /\ restarts' = restarts /\ heard' = heard /\ torn' = torn
    BY <1>1, <1>b DEF StartPass
  <2> QED
    BY <1>a, <2>1 DEF TypeOK, Worst
<1>2. CASE Flush
  <2>1. /\ pc' \in {"wait", "check", "send", "save"} /\ pos' \in 1..(Len(Order) + 1)
        /\ kind' = kind /\ cond' = cond /\ row' = row /\ batch' = batch /\ saving' = saving
        /\ ctxDone' = ctxDone /\ restarts' = restarts /\ heard' = heard /\ torn' = torn
    BY <1>2, <1>b DEF Flush
  <2> QED
    BY <1>a, <2>1 DEF TypeOK, Worst
<1>3. ASSUME Saved, row' \in [Pools -> State], torn' \in BOOLEAN PROVE TypeOK'
  <2>1. saving # <<>> /\ saving' = Tail(saving)
    BY <1>3 DEF Saved, Stages
  <2>2. saving' \in Seq(Note)
    BY <1>a, <2>1, TailFacts
  <2>3. /\ pc' \in {"wait", "check", "send", "save"} /\ pos' = pos
        /\ kind' = kind /\ cond' = cond /\ batch' = batch
        /\ ctxDone' = ctxDone /\ restarts' = restarts /\ heard' = heard
    BY <1>3 DEF Saved, AfterMessage
  <2> QED
    BY <1>3, <1>a, <2>2, <2>3 DEF TypeOK, Worst
<1>4. CASE Save
  <2>1. saving[1] \in Note /\ torn' = torn
    BY <1>4, <1>a, TailFacts DEF Save, Saved, Stages
  <2>2. row' \in [Pools -> State]
    <3>1. saving[1].pool \in Pools /\ saving[1].state \in State
      BY <2>1 DEF Note
    <3>2. SaveAlertState(saving[1].pool, saving[1].state, saving[1].insert)
      BY <1>4 DEF Save
    <3> QED
      BY <3>1, <3>2, SaveTypes
  <2> QED
    BY <1>3, <1>4, <1>a, <2>1, <2>2 DEF Save
<1>5. CASE SaveFails
  BY <1>3, <1>5, <1>a DEF SaveFails
<1>6. ASSUME NEW p \in Pools, Assess(p) \/ LoadFails(p) PROVE TypeOK'
  <2>1. /\ row' \in [Pools -> State] /\ batch' \in Seq(Note) /\ pos' \in 1..(Len(Order) + 1)
        /\ kind' = kind /\ cond' = cond /\ pc' = pc /\ saving' = saving
        /\ ctxDone' = ctxDone /\ restarts' = restarts /\ heard' = heard
        /\ torn' \in BOOLEAN
    <3>1. CASE Assess(p)
      <4>1. /\ AtListing(p) /\ Evaluate(p, Stored(p), row[p].status = "none")
            /\ torn' = torn
        BY <3>1 DEF Assess
      <4>2. Stored(p) \in State /\ Crossed(Stored(p))
        BY StoredFacts DEF LevelsCrossed
      <4>3. row' \in [Pools -> State] /\ batch' \in Seq(Note) /\ pos' \in 1..(Len(Order) + 1)
        BY <4>1, <4>2, EvaluateTypes
      <4> QED
        BY <1>a, <4>1, <4>3 DEF Evaluate
    <3>2. CASE LoadFails(p)
      <4>1. AtListing(p) /\ Evaluate(p, Fresh, TRUE) /\ torn' = TRUE
        BY <3>2 DEF LoadFails
      <4>2. Fresh \in State /\ Crossed(Fresh)
        BY StoredFacts
      <4>3. row' \in [Pools -> State] /\ batch' \in Seq(Note) /\ pos' \in 1..(Len(Order) + 1)
        BY <4>1, <4>2, EvaluateTypes
      <4> QED
        BY <4>1, <4>3 DEF Evaluate
    <3> QED
      BY <1>6, <3>1, <3>2
  <2> QED
    BY <1>a, <2>1 DEF TypeOK, Worst
<1>7. ASSUME NEW p \in Pools, SkipListing(p) PROVE TypeOK'
  <2>1. /\ pos <= Len(Order) /\ pos' = pos + 1 /\ pc' = pc
        /\ kind' = kind /\ cond' = cond /\ row' = row /\ batch' = batch /\ saving' = saving
        /\ ctxDone' = ctxDone /\ restarts' = restarts /\ heard' = heard /\ torn' = torn
    BY <1>7 DEF SkipListing, AtListing
  <2>2. pos' \in 1..(Len(Order) + 1)
    BY <1>a, <1>b, <2>1
  <2> QED
    BY <1>a, <2>1, <2>2 DEF TypeOK, Worst
<1>8. ASSUME NEW n \in 1..Len(batch), Deliver(n) \/ ReplyLost(n) \/ Withhold(n)
      PROVE  TypeOK'
  <2>1. /\ pc' \in {"wait", "check", "send", "save"} /\ batch' = Rest(n)
        /\ heard' = Heard(n) \/ heard' = heard
        /\ saving' = Message(n) \/ saving' = saving
        /\ torn' = TRUE \/ torn' = torn
        /\ kind' = kind /\ cond' = cond /\ row' = row /\ pos' = pos
        /\ ctxDone' = ctxDone /\ restarts' = restarts
    BY <1>8 DEF Deliver, ReplyLost, Withhold, AfterMessage
  <2>2. heard' \in [Pools -> 0..MaxTier]
    BY <1>a, <2>1, HeardFacts
  <2>3. saving' \in Seq(Note) /\ batch' \in Seq(Note)
    BY <1>a, <2>1, MessageFacts
  <2> QED
    BY <1>a, <2>1, <2>2, <2>3 DEF TypeOK, Worst
<1>9. ASSUME NEW p \in Pools, Worsen(p) \/ Improve(p) PROVE TypeOK'
  <2>1. /\ kind' = kind /\ row' = row /\ pc' = pc /\ pos' = pos /\ batch' = batch
        /\ saving' = saving /\ ctxDone' = ctxDone /\ restarts' = restarts
        /\ heard' = heard /\ torn' = torn
    BY <1>9 DEF Worsen, Improve
  <2>2. PICK c \in 0..Worst : cond' = [cond EXCEPT ![p] = c]
    <3>1. CASE Worsen(p)
      <4>1. cond[p] < Worst /\ cond' = [cond EXCEPT ![p] = cond[p] + 1]
        BY <3>1 DEF Worsen
      <4>2. cond[p] \in 0..Worst
        BY <1>a
      <4>3. cond[p] + 1 \in 0..Worst
        BY <1>c, <4>1, <4>2
      <4> QED
        BY <4>1, <4>3
    <3>2. CASE Improve(p)
      <4>1. PICK c \in 0..(cond[p] - 1) : cond' = [cond EXCEPT ![p] = c]
        BY <3>2 DEF Improve
      <4>2. cond[p] \in 0..Worst
        BY <1>a
      <4>3. c \in 0..Worst
        BY <1>c, <4>1, <4>2
      <4> QED
        BY <4>1, <4>3
    <3> QED
      BY <1>9, <3>1, <3>2
  <2>3. cond' \in [Pools -> 0..Worst]
    BY <1>a, <2>2
  <2> QED
    BY <1>a, <2>1, <2>3 DEF TypeOK, Worst
<1>10. ASSUME NEW p \in Pools, ReminderElapses(p) PROVE TypeOK'
  <2>1. /\ kind' = kind /\ cond' = cond /\ pc' = pc /\ pos' = pos /\ batch' = batch
        /\ saving' = saving /\ ctxDone' = ctxDone /\ restarts' = restarts
        /\ heard' = heard /\ torn' = torn /\ row' = [row EXCEPT ![p].due = TRUE]
    BY <1>10 DEF ReminderElapses
  <2>2. [row[p] EXCEPT !.due = TRUE] \in State
    <3>1. row[p] \in State
      BY <1>a
    <3> QED
      BY <3>1 DEF State
  <2>3. row' \in [Pools -> State]
    BY <1>a, <2>1, <2>2
  <2> QED
    BY <1>a, <2>1, <2>3 DEF TypeOK, Worst
<1>11. CASE Shutdown \/ Restart \/ UNCHANGED vars
  <2>1. /\ kind' = kind /\ cond' = cond /\ row' = row /\ pc' = pc /\ pos' = pos
        /\ batch' = batch /\ saving' = saving /\ heard' = heard /\ torn' = torn
    BY <1>11 DEF Shutdown, Restart, vars
  <2>2. ctxDone' \in BOOLEAN
    <3>1. ctxDone' = TRUE \/ ctxDone' = FALSE \/ ctxDone' = ctxDone
      BY <1>11 DEF Shutdown, Restart, vars
    <3> QED
      BY <1>a, <3>1
  <2>3. restarts' \in 0..MaxRestarts
    <3>1. restarts' = restarts \/ (restarts < MaxRestarts /\ restarts' = restarts + 1)
      BY <1>11 DEF Shutdown, Restart, vars
    <3> QED
      BY <1>a, <3>1, RestartsAssumption
  <2> QED
    BY <1>a, <2>1, <2>2, <2>3 DEF TypeOK, Worst
<1>12. CASE Crash
  <2>1. /\ kind' = kind /\ cond' = cond /\ row' = row /\ heard' = heard
        /\ pc' = "wait" /\ pos' = 1 /\ batch' = <<>> /\ saving' = <<>>
        /\ ctxDone' = FALSE /\ torn' = (torn \/ saving # <<>>)
        /\ restarts < MaxRestarts /\ restarts' = restarts + 1
    BY <1>12 DEF Crash
  <2>2. restarts' \in 0..MaxRestarts
    BY <1>a, <2>1, RestartsAssumption
  <2>3. batch' \in Seq(Note) /\ saving' \in Seq(Note)
    BY <2>1, EmptySeq
  <2>4. pos' \in 1..(Len(Order) + 1) /\ torn' \in BOOLEAN /\ ctxDone' \in BOOLEAN
    BY <1>b, <2>1
  <2> QED
    BY <1>a, <2>1, <2>2, <2>3, <2>4 DEF TypeOK, Worst
<1> QED
  BY <1>1, <1>2, <1>4, <1>5, <1>6, <1>7, <1>8, <1>9, <1>10, <1>11, <1>12
  DEF Next, LoopNext, EnvNext

\* ------------------------------------------------------------- invariance

\* The pools of notes are pools.
LEMMA NotePools ==
    ASSUME TypeOK
    PROVE  /\ Len(batch) \in Nat /\ Len(saving) \in Nat
           /\ \A i \in 1..Len(batch) : batch[i] \in Note /\ batch[i].pool \in Pools
           /\ \A i \in 1..Len(saving) : saving[i] \in Note /\ saving[i].pool \in Pools
<1>1. batch \in Seq(Note) /\ saving \in Seq(Note)
  BY DEF TypeOK
<1>2. /\ \A i \in 1..Len(batch) : batch[i] \in Note
      /\ \A i \in 1..Len(saving) : saving[i] \in Note
  BY <1>1, ElementOfSeq
<1>3. \A x \in Note : x.pool \in Pools
  BY DEF Note
<1> QED
  BY <1>1, <1>2, <1>3, LenProperties

\* A pass begins with nothing to send and nothing to save.
LEMMA InitLoopInv == Init => LoopInv
<1> SUFFICES ASSUME Init PROVE LoopInv
  OBVIOUS
<1>1. /\ kind \in {"block", "kes"} /\ cond = [p \in Pools |-> 0] /\ row = [p \in Pools |-> NoRow]
      /\ pc = "wait" /\ pos = 1 /\ batch = <<>> /\ saving = <<>>
      /\ ctxDone = FALSE /\ restarts = 0 /\ heard = [p \in Pools |-> 0] /\ torn = FALSE
  BY DEF Init
<1>2. 0 \in 0..MaxTier /\ 0 \in 0..Worst /\ 1 \in 1..(Len(Order) + 1) /\ 0 \in 0..MaxRestarts
  BY TierAssumption, RestartsAssumption, OrderAssumption, LenProperties DEF Worst
<1>3. NoRow \in State
  BY <1>2 DEF NoRow, State
<1>4. TypeOK
  <2>1. cond \in [Pools -> 0..Worst] /\ row \in [Pools -> State] /\ heard \in [Pools -> 0..MaxTier]
    BY <1>1, <1>2, <1>3
  <2>2. batch \in Seq(Note) /\ saving \in Seq(Note)
    BY <1>1, EmptySeq
  <2>3. pos \in 1..(Len(Order) + 1) /\ restarts \in 0..MaxRestarts
    BY <1>1, <1>2
  <2>4. ctxDone \in BOOLEAN /\ torn \in BOOLEAN /\ pc \in {"wait", "check", "send", "save"}
    BY <1>1
  <2> QED
    BY <1>1, <2>1, <2>2, <2>3, <2>4 DEF TypeOK
<1>5. Len(batch) = 0 /\ Len(saving) = 0
  BY <1>1
<1>6. \A p \in Pools : row[p] = NoRow /\ NoRow.status = "none" /\ heard[p] = 0
  BY <1>1 DEF NoRow
<1>7. Stages /\ PoolsDiffer(batch) /\ PoolsDiffer(saving) /\ NotBoth /\ SavingIsHeard
  BY <1>1, <1>5 DEF Stages, PoolsDiffer, NotBoth, SavingIsHeard
<1>8. LevelsCrossed
  BY <1>5, <1>6 DEF LevelsCrossed, Crossed
<1>9. InStep
  BY <1>5, <1>6 DEF InStep, Tells
<1> QED
  BY <1>4, <1>7, <1>8, <1>9 DEF LoopInv

\* Where neither the notes nor the rows nor what was heard change, only the
\* place of the loop can disturb the invariant.
LEMMA IdleKeeps ==
    ASSUME LoopInv, TypeOK', Stages', kind' = kind, row' = row, batch' = batch,
           saving' = saving, heard' = heard, torn' = torn
    PROVE  LoopInv'
<1>1. PoolsDiffer(batch)' /\ PoolsDiffer(saving)' /\ NotBoth'
  BY DEF LoopInv, PoolsDiffer, NotBoth
<1>2. LevelsCrossed' /\ SavingIsHeard'
  BY DEF LoopInv, LevelsCrossed, Crossed, SavingIsHeard, Tells
<1>3. InStep'
  BY DEF LoopInv, InStep, BeingSaved, Tells
<1> QED
  BY <1>1, <1>2, <1>3 DEF LoopInv

\* A listing evaluated: the note appended is about a pool that has none yet
\* and tells news; a row written tells what the old one told.
LEMMA EvaluateKeeps ==
    ASSUME LoopInv, TypeOK', NEW p \in Pools, NEW st \in State, Crossed(st),
           NEW insert \in BOOLEAN, AtListing(p), Evaluate(p, st, insert),
           Tells(st) = Tells(row[p]) \/ (insert /\ row[p].status # "none"),
           torn' = torn \/ torn' = TRUE,
           ~torn' => Tells(st) = Tells(row[p]) /\ (insert => row[p].status = "none")
    PROVE  /\ LoopInv'
           /\ \A q \in Pools : Tells(row'[q]) = Tells(row[q])
<1> USE DEF lifeVars
<1>a. /\ kind' = kind /\ pc' = pc /\ saving' = saving /\ heard' = heard /\ pc = "check"
      /\ saving = <<>> /\ Len(saving) = 0
  BY DEF LoopInv, Stages, Evaluate, AtListing
<1>b. Stages'
  BY <1>a DEF LoopInv, Stages
<1>c. PoolsDiffer(saving)' /\ NotBoth' /\ SavingIsHeard'
  BY <1>a DEF PoolsDiffer, NotBoth, SavingIsHeard
<1>d. /\ TypeOK /\ row \in [Pools -> State] /\ cond[p] \in 0..Worst /\ batch \in Seq(Note)
  BY DEF LoopInv, TypeOK
<1>e. /\ Len(batch) \in Nat
      /\ \A i \in 1..Len(batch) : batch[i] \in Note /\ batch[i].pool \in Pools
  BY <1>d, NotePools
<1>f. ASSUME row' = row, batch' = batch
      PROVE  LoopInv' /\ \A q \in Pools : Tells(row'[q]) = Tells(row[q])
  <2>1. PoolsDiffer(batch)' /\ LevelsCrossed'
    BY <1>a, <1>f DEF LoopInv, PoolsDiffer, LevelsCrossed, Crossed
  <2>2. InStep'
    BY <1>a, <1>f DEF LoopInv, InStep, BeingSaved, Tells
  <2> QED
    BY <1>b, <1>c, <1>f, <2>1, <2>2 DEF LoopInv
<1>1. CASE Pending(p)
  <2>1. row' = row /\ batch' = batch
    BY <1>1 DEF Evaluate
  <2> QED
    BY <1>f, <2>1
<1>2. CASE ~Pending(p) /\ Notices(st, cond[p]) = {}
  <2>1. SaveAlertState(p, st, insert) /\ batch' = batch
    BY <1>2 DEF Evaluate
  <2>2. CASE insert /\ row[p].status # "none"
    <3>1. row' = row
      BY <2>1, <2>2 DEF SaveAlertState
    <3> QED
      BY <1>f, <2>1, <3>1
  <2>3. CASE ~(insert /\ row[p].status # "none")
    <3>1. row' = [row EXCEPT ![p] = st] /\ Tells(st) = Tells(row[p])
      BY <2>1, <2>3 DEF SaveAlertState
    <3>2. /\ row'[p] = st /\ \A q \in Pools : q # p => row'[q] = row[q]
          /\ \A i \in 1..Len(batch) : batch[i].pool # p
      BY <1>2, <1>d, <3>1 DEF Pending
    <3>3. \A q \in Pools : Tells(row'[q]) = Tells(row[q])
      BY <3>1, <3>2
    <3>4. PoolsDiffer(batch)' /\ LevelsCrossed'
      BY <1>a, <2>1, <3>2 DEF LoopInv, PoolsDiffer, LevelsCrossed, Crossed
    <3>5. InStep'
      <4> SUFFICES ASSUME ~torn' PROVE InStep'
        BY DEF InStep
      <4>1. ~torn
        OBVIOUS
      <4>2. \A q \in Pools : heard'[q] = Tells(row[q])' 
        <5>1. \A q \in Pools : heard[q] = Tells(row[q])
          BY <1>a, <4>1 DEF LoopInv, InStep, BeingSaved
        <5> QED
          BY <1>a, <3>3, <5>1 DEF Tells
      <4>3. \A i \in 1..Len(batch) : row'[batch[i].pool] = row[batch[i].pool]
        BY <1>e, <3>2
      <4>4. \A i \in 1..Len(batch) :
              /\ batch[i].insert => row[batch[i].pool].status = "none"
              /\ batch[i].text # "reminder" =>
                   Tells(batch[i].state) # Tells(row[batch[i].pool])
        BY <4>1 DEF LoopInv, InStep
      <4> QED
        BY <1>a, <2>1, <4>2, <4>3, <4>4 DEF InStep, Tells
    <3> QED
      BY <1>b, <1>c, <3>3, <3>4, <3>5 DEF LoopInv
  <2> QED
    BY <2>2, <2>3
<1>3. CASE ~Pending(p) /\ Notices(st, cond[p]) # {}
  <2>1. PICK n \in Notices(st, cond[p]) :
          /\ batch' = Append(batch, [pool |-> p, text |-> n[1], state |-> n[2],
                                     insert |-> insert])
          /\ row' = row
    BY <1>3 DEF Evaluate
  <2> DEFINE x == [pool |-> p, text |-> n[1], state |-> n[2], insert |-> insert]
             len == Len(batch)
  <2>2. /\ n[1] \in {"alert", "reminder", "recovery"} /\ n[2] \in State /\ Crossed(n[2])
        /\ n[1] # "reminder" => Tells(n[2]) # Tells(st)
    BY <1>d, NoticeFacts
  <2>3. /\ x \in Note /\ x.pool = p /\ x.text = n[1] /\ x.state = n[2] /\ x.insert = insert
    BY <2>2 DEF Note
  <2>4. \A i \in 1..len : batch[i].pool # p
    BY <1>3 DEF Pending
  <2>5. batch' = Append(batch, x)
    BY <2>1
  <2> HIDE DEF x
  <2>6. /\ Len(batch') = len + 1 /\ batch'[len + 1] = x /\ len \in Nat
        /\ \A i \in 1..len : batch'[i] = batch[i]
        /\ \A i \in 1..(len + 1) : i \in 1..len \/ i = len + 1
    BY <1>d, <2>3, <2>5, AppendFacts
  <2> HIDE DEF len
  <2>7. PoolsDiffer(batch)'
    <3>1. \A i, j \in 1..len : batch[i].pool = batch[j].pool => i = j
      BY DEF LoopInv, PoolsDiffer, len
    <3> QED
      BY <2>3, <2>4, <2>6, <3>1 DEF PoolsDiffer
  <2>8. LevelsCrossed'
    <3>1. /\ \A q \in Pools : Crossed(row[q])
          /\ \A i \in 1..len : Crossed(batch[i].state)
      BY DEF LoopInv, LevelsCrossed, len
    <3>2. \A i \in 1..(len + 1) : Crossed(batch'[i].state)
      BY <2>2, <2>3, <2>6, <3>1
    <3> QED
      BY <1>a, <2>1, <2>6, <3>1, <3>2 DEF LevelsCrossed, Crossed
  <2>9. InStep'
    <3> SUFFICES ASSUME ~torn' PROVE InStep'
      BY DEF InStep
    <3>1. ~torn
      OBVIOUS
    <3>2. /\ \A q \in Pools : heard[q] = Tells(row[q])
          /\ \A i \in 1..len :
              /\ batch[i].insert => row[batch[i].pool].status = "none"
              /\ batch[i].text # "reminder" =>
                   Tells(batch[i].state) # Tells(row[batch[i].pool])
      BY <1>a, <3>1 DEF LoopInv, InStep, BeingSaved, len
    <3>3. /\ x.insert => row[x.pool].status = "none"
          /\ x.text # "reminder" => Tells(x.state) # Tells(row[x.pool])
      BY <2>2, <2>3
    <3>4. \A i \in 1..(len + 1) :
              /\ batch'[i].insert => row[batch'[i].pool].status = "none"
              /\ batch'[i].text # "reminder" =>
                   Tells(batch'[i].state) # Tells(row[batch'[i].pool])
      BY <2>6, <3>2, <3>3
    <3> QED
      BY <1>a, <2>1, <2>6, <3>2, <3>4 DEF InStep, Tells
  <2> QED
    BY <1>b, <1>c, <2>1, <2>7, <2>8, <2>9 DEF LoopInv
<1> QED
  BY <1>1, <1>2, <1>3

\* The rest of a batch has one note per pool and stays in step with the table.
LEMMA RestKeeps ==
    ASSUME LoopInv, NEW n \in 1..Len(batch), batch' = Rest(n), row' = row, kind' = kind
    PROVE  /\ PoolsDiffer(batch)'
           /\ \A i \in 1..Len(batch') : Crossed(batch'[i].state)
           /\ ~torn => \A i \in 1..Len(batch') :
                /\ batch'[i].insert => row[batch'[i].pool].status = "none"
                /\ batch'[i].text # "reminder" =>
                     Tells(batch'[i].state) # Tells(row[batch'[i].pool])
<1>1. /\ n \in Nat /\ Len(batch') \in Nat
      /\ \A i \in 1..Len(batch') : i + n \in 1..Len(batch) /\ batch'[i] = batch[i + n]
  <2>1. batch \in Seq(Note)
    BY DEF LoopInv, TypeOK
  <2>2. Len(batch) \in Nat
    BY <2>1, LenProperties
  <2>3. n \in Nat
    BY <2>2
  <2>4. Rest(n) \in Seq(Note)
    BY <2>1, MessageFacts
  <2>5. Len(Rest(n)) \in Nat
    BY <2>4, LenProperties
  <2>6. \A i \in 1..Len(Rest(n)) : i + n \in 1..Len(batch) /\ Rest(n)[i] = batch[i + n]
    BY <2>1, MessageFacts
  <2> QED
    BY <2>3, <2>5, <2>6
<1>2. \A i, j \in 1..Len(batch') : i + n = j + n => i = j
  BY <1>1
<1>3. PoolsDiffer(batch)'
  <2>1. \A i, j \in 1..Len(batch) : batch[i].pool = batch[j].pool => i = j
    BY DEF LoopInv, PoolsDiffer
  <2> SUFFICES ASSUME NEW i \in 1..Len(batch'), NEW j \in 1..Len(batch'),
                      batch'[i].pool = batch'[j].pool
               PROVE  i = j
    BY DEF PoolsDiffer
  <2>2. i + n = j + n
    BY <1>1, <2>1
  <2> QED
    BY <1>2, <2>2
<1>4. \A i \in 1..Len(batch) : Crossed(batch[i].state)
  BY DEF LoopInv, LevelsCrossed
<1>5. ~torn => \A i \in 1..Len(batch) :
                 /\ batch[i].insert => row[batch[i].pool].status = "none"
                 /\ batch[i].text # "reminder" =>
                      Tells(batch[i].state) # Tells(row[batch[i].pool])
  BY DEF LoopInv, InStep
<1>6. \A i \in 1..Len(batch') : Crossed(batch'[i].state)
  BY <1>1, <1>4
<1>7. ASSUME ~torn, NEW i \in 1..Len(batch')
      PROVE  /\ batch'[i].insert => row[batch'[i].pool].status = "none"
             /\ batch'[i].text # "reminder" =>
                  Tells(batch'[i].state) # Tells(row[batch'[i].pool])
  BY <1>1, <1>5, <1>7
<1>8. ~torn => \A i \in 1..Len(batch') :
                 /\ batch'[i].insert => row[batch'[i].pool].status = "none"
                 /\ batch'[i].text # "reminder" =>
                      Tells(batch'[i].state) # Tells(row[batch'[i].pool])
  BY <1>7
<1> QED
  BY <1>3, <1>6, <1>8

\* A message delivered: its notes are now to be saved, and tell what was heard.
LEMMA DeliverKeeps ==
    ASSUME LoopInv, TypeOK', NEW n \in 1..Len(batch), Deliver(n)
    PROVE  LoopInv'
<1> USE DEF lifeVars
<1>1. /\ pc = "send" /\ heard' = Heard(n) /\ saving' = Message(n) /\ batch' = Rest(n)
      /\ pc' = "save" /\ kind' = kind /\ row' = row /\ torn' = torn /\ TypeOK
      /\ saving = <<>> /\ Len(saving) = 0 /\ batch \in Seq(Note)
  BY DEF LoopInv, TypeOK, Stages, Deliver, Sends
<1>2. /\ Len(saving') = n /\ \A i \in 1..n : saving'[i] = batch[i] /\ i \in 1..Len(batch)
      /\ \A i \in 1..Len(batch') : i + n \in 1..Len(batch) /\ batch'[i] = batch[i + n]
  <2>1. Len(batch) \in Nat
    BY <1>1, LenProperties
  <2>2. \A i \in 1..n : i \in 1..Len(batch)
    BY <2>1
  <2>3. /\ Len(Message(n)) = n /\ \A i \in 1..n : Message(n)[i] = batch[i]
        /\ \A i \in 1..Len(Rest(n)) : i + n \in 1..Len(batch) /\ Rest(n)[i] = batch[i + n]
    BY <1>1, MessageFacts
  <2> QED
    BY <1>1, <2>2, <2>3
<1>3. Stages'
  <2>1. Len(saving') # 0
    <3>1. n # 0
      BY <1>1, LenProperties
    <3> QED
      BY <1>2, <3>1
  <2> QED
    BY <1>1, <2>1 DEF Stages
<1>4. /\ PoolsDiffer(batch)' /\ \A i \in 1..Len(batch') : Crossed(batch'[i].state)
      /\ ~torn => \A i \in 1..Len(batch') :
           /\ batch'[i].insert => row[batch'[i].pool].status = "none"
           /\ batch'[i].text # "reminder" =>
                Tells(batch'[i].state) # Tells(row[batch'[i].pool])
  BY <1>1, RestKeeps
<1>5. \A i, j \in 1..Len(batch) : batch[i].pool = batch[j].pool => i = j
  BY DEF LoopInv, PoolsDiffer
<1>6. PoolsDiffer(saving)'
  BY <1>2, <1>5 DEF PoolsDiffer
<1>7. NotBoth'
  <2>1. Len(batch) \in Nat /\ Len(batch') \in Nat
    <3>1. Rest(n) \in Seq(Note)
      BY <1>1, MessageFacts
    <3> QED
      BY <1>1, <3>1, LenProperties
  <2>2. \A i \in 1..n, j \in 1..Len(batch') : i # j + n
    BY <2>1
  <2> QED
    BY <1>2, <1>5, <2>2 DEF NotBoth
<1>8. LevelsCrossed'
  <2>1. /\ \A q \in Pools : Crossed(row[q])
        /\ \A i \in 1..Len(batch) : Crossed(batch[i].state)
    BY DEF LoopInv, LevelsCrossed
  <2>2. \A i \in 1..Len(saving') : Crossed(saving'[i].state)
    BY <1>2, <2>1
  <2> QED
    BY <1>1, <1>4, <2>1, <2>2 DEF LevelsCrossed, Crossed
<1>9. SavingIsHeard'
  <2>1. PoolsDiffer(batch)
    BY DEF LoopInv
  <2>2. \A i \in 1..n : Heard(n)[batch[i].pool] = Tells(batch[i].state)
    BY <1>1, <2>1, HeardIsTold
  <2>3. \A i \in 1..Len(saving') : heard'[saving'[i].pool] = Tells(saving'[i].state)
    BY <1>1, <1>2, <2>2
  <2> QED
    BY <1>1, <2>3 DEF SavingIsHeard, Tells
<1>10. InStep'
  <2> SUFFICES ASSUME ~torn PROVE InStep'
    BY <1>1 DEF InStep
  <2>1. /\ \A q \in Pools : heard[q] = Tells(row[q])
        /\ \A i \in 1..Len(batch) : batch[i].insert => row[batch[i].pool].status = "none"
    BY <1>1 DEF LoopInv, InStep, BeingSaved
  <2>2. \A q \in Pools : ~BeingSaved(q)' => heard'[q] = Tells(row[q])
    <3> SUFFICES ASSUME NEW q \in Pools, ~BeingSaved(q)' PROVE heard'[q] = Tells(row[q])
      OBVIOUS
    <3>1. ~Carries(n, q)
      BY <1>2 DEF BeingSaved, Carries
    <3> QED
      BY <1>1, <2>1, <3>1, HeardFacts
  <2>3. \A i \in 1..Len(saving') : saving'[i].insert => row[saving'[i].pool].status = "none"
    BY <1>2, <2>1
  <2> QED
    BY <1>1, <1>4, <2>2, <2>3 DEF InStep, Tells
<1> QED
  BY <1>3, <1>4, <1>6, <1>7, <1>8, <1>9, <1>10 DEF LoopInv

\* A message withheld or refused, or one whose answer is lost: nothing is to be
\* saved, and the rest is sent.
LEMMA DropKeeps ==
    ASSUME LoopInv, TypeOK', NEW n \in 1..Len(batch), ReplyLost(n) \/ Withhold(n)
    PROVE  LoopInv'
<1> USE DEF lifeVars, seenVars
<1>1. /\ pc = "send" /\ batch' = Rest(n) /\ pc' = AfterMessage(Rest(n))
      /\ kind' = kind /\ row' = row /\ saving' = saving
      /\ torn' = TRUE \/ (torn' = torn /\ heard' = heard)
      /\ saving = <<>> /\ Len(saving) = 0
  BY DEF LoopInv, Stages, ReplyLost, Withhold, Sends
<1>2. Stages'
  BY <1>1 DEF Stages, AfterMessage
<1>3. /\ PoolsDiffer(batch)' /\ \A i \in 1..Len(batch') : Crossed(batch'[i].state)
      /\ ~torn => \A i \in 1..Len(batch') :
           /\ batch'[i].insert => row[batch'[i].pool].status = "none"
           /\ batch'[i].text # "reminder" =>
                Tells(batch'[i].state) # Tells(row[batch'[i].pool])
  BY <1>1, RestKeeps
<1>4. PoolsDiffer(saving)' /\ NotBoth' /\ SavingIsHeard'
  BY <1>1 DEF PoolsDiffer, NotBoth, SavingIsHeard
<1>5. LevelsCrossed'
  <2>1. \A q \in Pools : Crossed(row[q])
    BY DEF LoopInv, LevelsCrossed
  <2> QED
    BY <1>1, <1>3, <2>1 DEF LevelsCrossed, Crossed
<1>6. InStep'
  <2>1. CASE torn' = TRUE
    BY <2>1 DEF InStep
  <2>2. CASE torn' = torn /\ heard' = heard
    <3> SUFFICES ASSUME ~torn PROVE InStep'
      BY <2>2 DEF InStep
    <3>1. \A q \in Pools : heard[q] = Tells(row[q])
      BY <1>1 DEF LoopInv, InStep, BeingSaved
    <3> QED
      BY <1>1, <1>3, <2>2, <3>1 DEF InStep, Tells
  <2> QED
    BY <1>1, <2>1, <2>2
<1> QED
  BY <1>2, <1>3, <1>4, <1>5, <1>6 DEF LoopInv

\* The next note is taken off: whatever became of its save, the notes left are
\* about other pools.
LEMMA SavedKeeps ==
    ASSUME LoopInv, Saved
    PROVE  /\ saving # <<>> /\ saving[1] \in Note /\ SavingIsHeard'
           /\ Stages' /\ PoolsDiffer(batch)' /\ PoolsDiffer(saving)' /\ NotBoth'
           /\ \A i \in 1..Len(saving') :
                /\ i + 1 \in 1..Len(saving) /\ saving'[i] = saving[i + 1]
                /\ saving'[i].pool # saving[1].pool
           /\ \A i \in 1..Len(batch) : batch[i].pool # saving[1].pool
           /\ \A q \in Pools : BeingSaved(q) => BeingSaved(q)' \/ q = saving[1].pool
<1> USE DEF lifeVars
<1>1. /\ pc = "save" /\ saving' = Tail(saving) /\ batch' = batch /\ kind' = kind
      /\ heard' = heard /\ saving # <<>> /\ saving \in Seq(Note)
      /\ pc' = IF Tail(saving) # <<>> THEN "save" ELSE AfterMessage(batch)
  BY DEF LoopInv, TypeOK, Stages, Saved
<1>2. /\ saving[1] \in Note /\ 1 \in 1..Len(saving) /\ Len(saving) \in Nat \ {0}
      /\ Len(saving') = Len(saving) - 1
      /\ \A i \in 1..Len(saving') : /\ i + 1 \in 1..Len(saving) /\ i + 1 # 1
                                    /\ saving'[i] = saving[i + 1]
  BY <1>1, TailFacts
<1>3. Stages'
  BY <1>1 DEF Stages, AfterMessage
<1>4. /\ \A i, j \in 1..Len(saving) : saving[i].pool = saving[j].pool => i = j
      /\ \A i \in 1..Len(saving), j \in 1..Len(batch) : saving[i].pool # batch[j].pool
      /\ \A i \in 1..Len(saving) : heard[saving[i].pool] = Tells(saving[i].state)
  BY DEF LoopInv, PoolsDiffer, NotBoth, SavingIsHeard
<1>5. \A i \in 1..Len(saving') : saving'[i].pool # saving[1].pool
  BY <1>2, <1>4
<1>6. PoolsDiffer(saving)'
  <2>1. \A i, j \in 1..Len(saving') : i + 1 = j + 1 => i = j
    BY <1>2
  <2> SUFFICES ASSUME NEW i \in 1..Len(saving'), NEW j \in 1..Len(saving'),
                      saving'[i].pool = saving'[j].pool
               PROVE  i = j
    BY DEF PoolsDiffer
  <2>2. i + 1 = j + 1
    BY <1>2, <1>4
  <2> QED
    BY <2>1, <2>2
<1>7. PoolsDiffer(batch)' /\ NotBoth'
  BY <1>1, <1>2, <1>4 DEF LoopInv, PoolsDiffer, NotBoth
<1>8. SavingIsHeard'
  <2>1. \A i \in 1..Len(saving') : heard[saving'[i].pool] = Tells(saving'[i].state)
    BY <1>2, <1>4
  <2> QED
    BY <1>1, <2>1 DEF SavingIsHeard, Tells
<1>9. ASSUME NEW q \in Pools, BeingSaved(q), q # saving[1].pool PROVE BeingSaved(q)'
  <2>1. PICK i \in 1..Len(saving) : saving[i].pool = q
    BY <1>9 DEF BeingSaved
  <2>2. i # 1
    BY <1>9, <2>1
  <2>3. i - 1 \in 1..Len(saving') /\ (i - 1) + 1 = i
    BY <1>2, <2>2
  <2>4. saving'[i - 1].pool = q
    BY <1>2, <2>1, <2>3
  <2> QED
    BY <2>3, <2>4 DEF BeingSaved
<1>10. \A i \in 1..Len(batch) : batch[i].pool # saving[1].pool
  BY <1>2, <1>4
<1> QED
  BY <1>1, <1>2, <1>3, <1>5, <1>6, <1>7, <1>8, <1>9, <1>10

\* A state saved tells what was heard; an insert that finds a row writes nothing.
LEMMA SaveKeeps ==
    ASSUME LoopInv, TypeOK', Save
    PROVE  /\ LoopInv'
           /\ \A q \in Pools : Tells(row'[q]) # Tells(row[q]) => heard[q] = Tells(row'[q])
<1> DEFINE x == saving[1]
<1>1. Saved /\ torn' = torn /\ SaveAlertState(x.pool, x.state, x.insert)
  BY DEF Save
<1>2. /\ batch' = batch /\ kind' = kind /\ heard' = heard
  BY <1>1 DEF Saved
<1>3. /\ saving # <<>> /\ x \in Note /\ SavingIsHeard'
      /\ Stages' /\ PoolsDiffer(batch)' /\ PoolsDiffer(saving)' /\ NotBoth'
      /\ \A i \in 1..Len(saving') :
           /\ i + 1 \in 1..Len(saving) /\ saving'[i] = saving[i + 1]
           /\ saving'[i].pool # x.pool
      /\ \A i \in 1..Len(batch) : batch[i].pool # x.pool
      /\ \A q \in Pools : BeingSaved(q) => BeingSaved(q)' \/ q = x.pool
  BY <1>1, SavedKeeps
<1>4. /\ x.pool \in Pools /\ 1 \in 1..Len(saving) /\ row \in [Pools -> State]
      /\ \A i \in 1..Len(batch) : batch[i].pool \in Pools
      /\ \A i \in 1..Len(saving) : saving[i].pool \in Pools
  <2>1. TypeOK /\ saving \in Seq(Note)
    BY DEF LoopInv, TypeOK
  <2> QED
    BY <1>3, <2>1, NotePools, TailFacts DEF TypeOK
<1>5. heard[x.pool] = Tells(x.state) /\ Crossed(x.state)
  BY <1>4 DEF LoopInv, SavingIsHeard, LevelsCrossed
<1> HIDE DEF x
<1>6. /\ \A q \in Pools : q # x.pool => row'[q] = row[q]
      /\ IF x.insert /\ row[x.pool].status # "none" THEN row'[x.pool] = row[x.pool]
                                                    ELSE row'[x.pool] = x.state
  BY <1>1, <1>4 DEF SaveAlertState
<1>7. \A q \in Pools : Tells(row'[q]) # Tells(row[q]) => heard[q] = Tells(row'[q])
  BY <1>5, <1>6
<1>8. LevelsCrossed'
  <2>1. /\ \A q \in Pools : Crossed(row[q])
        /\ \A i \in 1..Len(batch) : Crossed(batch[i].state)
        /\ \A i \in 1..Len(saving) : Crossed(saving[i].state)
    BY DEF LoopInv, LevelsCrossed
  <2>2. \A q \in Pools : Crossed(row'[q])
    BY <1>5, <1>6, <2>1
  <2>3. \A i \in 1..Len(saving') : Crossed(saving'[i].state)
    BY <1>3, <2>1
  <2> QED
    BY <1>2, <2>1, <2>2, <2>3 DEF LevelsCrossed, Crossed
<1>9. InStep'
  <2> SUFFICES ASSUME ~torn PROVE InStep'
    BY <1>1 DEF InStep
  <2>1. /\ \A q \in Pools : ~BeingSaved(q) => heard[q] = Tells(row[q])
        /\ \A i \in 1..Len(saving) :
             saving[i].insert => row[saving[i].pool].status = "none"
        /\ \A i \in 1..Len(batch) :
             /\ batch[i].insert => row[batch[i].pool].status = "none"
             /\ batch[i].text # "reminder" =>
                  Tells(batch[i].state) # Tells(row[batch[i].pool])
    BY DEF LoopInv, InStep
  <2>2. row'[x.pool] = x.state
    BY <1>4, <1>6, <2>1 DEF x
  <2>3. \A q \in Pools : ~BeingSaved(q)' => heard[q] = Tells(row'[q])
    BY <1>3, <1>5, <1>6, <2>1, <2>2
  <2>4. \A i \in 1..Len(saving') :
             saving'[i].insert => row'[saving'[i].pool].status = "none"
    <3>1. \A i \in 1..Len(saving') : row'[saving'[i].pool] = row[saving'[i].pool]
      BY <1>3, <1>4, <1>6
    <3> QED
      BY <1>3, <2>1, <3>1
  <2>5. \A i \in 1..Len(batch) : row'[batch[i].pool] = row[batch[i].pool]
    BY <1>3, <1>4, <1>6
  <2>6. \A i \in 1..Len(batch) :
             /\ batch[i].insert => row'[batch[i].pool].status = "none"
             /\ batch[i].text # "reminder" =>
                  Tells(batch[i].state) # Tells(row'[batch[i].pool])
    BY <2>1, <2>5
  <2> QED
    BY <1>2, <2>3, <2>4, <2>6 DEF InStep, Tells
<1> QED
  BY <1>3, <1>7, <1>8, <1>9 DEF LoopInv

\* A save that fails leaves the table as it was, and parts it from what was heard.
LEMMA SaveFailsKeeps == ASSUME LoopInv, TypeOK', SaveFails PROVE LoopInv'
<1>1. Saved /\ torn' = TRUE /\ row' = row /\ batch' = batch /\ kind' = kind
  BY DEF SaveFails, Saved
<1>2. /\ SavingIsHeard' /\ Stages' /\ PoolsDiffer(batch)' /\ PoolsDiffer(saving)' /\ NotBoth'
      /\ \A i \in 1..Len(saving') : i + 1 \in 1..Len(saving) /\ saving'[i] = saving[i + 1]
  BY <1>1, SavedKeeps
<1>3. LevelsCrossed'
  <2>1. \A i \in 1..Len(saving') : Crossed(saving'[i].state)
    BY <1>2 DEF LoopInv, LevelsCrossed
  <2> QED
    BY <1>1, <2>1 DEF LoopInv, LevelsCrossed, Crossed
<1>4. InStep'
  BY <1>1 DEF InStep
<1> QED
  BY <1>2, <1>3, <1>4 DEF LoopInv

\* The passing of the reminder interval changes nothing a row tells.
LEMMA ReminderKeeps ==
    ASSUME LoopInv, TypeOK', NEW p \in Pools, ReminderElapses(p)
    PROVE  /\ LoopInv'
           /\ \A q \in Pools : Tells(row'[q]) = Tells(row[q])
<1> USE DEF loopVars, lifeVars, seenVars
<1>1. /\ kind' = kind /\ pc' = pc /\ batch' = batch /\ saving' = saving
      /\ heard' = heard /\ torn' = torn /\ row' = [row EXCEPT ![p].due = TRUE]
  BY DEF ReminderElapses
<1>2. \A q \in Pools : row'[q].status = row[q].status /\ row'[q].level = row[q].level
  <2>1. row \in [Pools -> State]
    BY DEF LoopInv, TypeOK
  <2> QED
    BY <1>1, <2>1 DEF State
<1>3. /\ \A q \in Pools : Tells(row'[q]) = Tells(row[q])
      /\ \A q \in Pools : Crossed(row[q]) => Crossed(row'[q])
  BY <1>2 DEF Tells, Crossed
<1>4. Stages' /\ PoolsDiffer(batch)' /\ PoolsDiffer(saving)' /\ NotBoth' /\ SavingIsHeard'
  BY <1>1 DEF LoopInv, Stages, PoolsDiffer, NotBoth, SavingIsHeard, Tells
<1>5. LevelsCrossed'
  BY <1>1, <1>3 DEF LoopInv, LevelsCrossed, Crossed
<1>6. InStep'
  <2>1. /\ \A i \in 1..Len(batch) : batch[i].pool \in Pools
        /\ \A i \in 1..Len(saving) : saving[i].pool \in Pools
    BY NotePools DEF LoopInv
  <2> SUFFICES ASSUME ~torn PROVE InStep'
    BY <1>1 DEF InStep
  <2>2. /\ \A q \in Pools : ~BeingSaved(q) => heard[q] = Tells(row'[q])
        /\ \A i \in 1..Len(saving) :
             saving[i].insert => row'[saving[i].pool].status = "none"
        /\ \A i \in 1..Len(batch) :
             /\ batch[i].insert => row'[batch[i].pool].status = "none"
             /\ batch[i].text # "reminder" =>
                  Tells(batch[i].state) # Tells(row'[batch[i].pool])
    BY <1>2, <1>3, <2>1 DEF LoopInv, InStep
  <2> QED
    BY <1>1, <2>2 DEF InStep, BeingSaved, Tells
<1> QED
  BY <1>3, <1>4, <1>5, <1>6 DEF LoopInv

\* A crash loses the notes; the table lags behind only if some were to be saved.
LEMMA CrashKeeps == ASSUME LoopInv, TypeOK', Crash PROVE LoopInv'
<1>1. /\ kind' = kind /\ row' = row /\ heard' = heard /\ pc' = "wait"
      /\ batch' = <<>> /\ saving' = <<>> /\ Len(batch') = 0 /\ Len(saving') = 0
      /\ torn' = (torn \/ saving # <<>>)
  BY DEF Crash
<1>2. Stages' /\ PoolsDiffer(batch)' /\ PoolsDiffer(saving)' /\ NotBoth' /\ SavingIsHeard'
  BY <1>1 DEF Stages, PoolsDiffer, NotBoth, SavingIsHeard
<1>3. LevelsCrossed'
  BY <1>1 DEF LoopInv, LevelsCrossed, Crossed
<1>4. InStep'
  <2> SUFFICES ASSUME ~torn' PROVE InStep'
    BY DEF InStep
  <2>1. ~torn /\ saving = <<>> /\ Len(saving) = 0
    BY <1>1
  <2>2. \A q \in Pools : heard[q] = Tells(row[q])
    BY <2>1 DEF LoopInv, InStep, BeingSaved
  <2> QED
    BY <1>1, <2>2 DEF InStep, Tells
<1> QED
  BY <1>2, <1>3, <1>4 DEF LoopInv

\* A step changes what a row tells to what the recipient has heard, or not at all.
RowsFollow == \A p \in Pools : Tells(row'[p]) # Tells(row[p]) => heard[p] = Tells(row'[p])

\* A message that tells a pool nothing new reminds of it.
NewsOrReminder ==
    \A p \in Pools, n \in 1..Len(batch) :
        Deliver(n) /\ Carries(n, p) /\ ~torn /\ heard'[p] = heard[p]
           => \E i \in 1..n : batch[i].pool = p /\ batch[i].text = "reminder"

\* Every step keeps the invariant, and saves only what was heard.
LEMMA NextLoopInv == LoopInv /\ [Next]_vars => LoopInv' /\ RowsFollow
<1> SUFFICES ASSUME LoopInv, [Next]_vars PROVE LoopInv' /\ RowsFollow
  OBVIOUS
<1> USE DEF loopVars, lifeVars, seenVars
<1>0. TypeOK /\ Stages /\ LevelsCrossed /\ TypeOK'
  BY LoopTypes DEF LoopInv
<1>1. CASE Save
  BY <1>0, <1>1, SaveKeeps DEF RowsFollow
<1>2. CASE SaveFails
  BY <1>0, <1>2, SaveFailsKeeps DEF SaveFails, RowsFollow
<1>3. ASSUME NEW p \in Pools, Assess(p) PROVE LoopInv' /\ RowsFollow
  <2>1. /\ AtListing(p) /\ Evaluate(p, Stored(p), row[p].status = "none") /\ torn' = torn
    BY <1>3 DEF Assess
  <2>2. Stored(p) \in State /\ Crossed(Stored(p)) /\ Tells(Stored(p)) = Tells(row[p])
    BY <1>0, StoredFacts DEF LevelsCrossed
  <2> QED
    BY <1>0, <2>1, <2>2, EvaluateKeeps DEF RowsFollow
<1>4. ASSUME NEW p \in Pools, LoadFails(p) PROVE LoopInv' /\ RowsFollow
  <2>1. AtListing(p) /\ Evaluate(p, Fresh, TRUE) /\ torn' = TRUE
    BY <1>4 DEF LoadFails
  <2>2. /\ Fresh \in State /\ Crossed(Fresh)
        /\ Tells(Fresh) = Tells(row[p]) \/ row[p].status # "none"
    BY <1>0, StoredFacts DEF Tells
  <2> QED
    BY <1>0, <2>1, <2>2, EvaluateKeeps DEF RowsFollow
<1>5. ASSUME NEW n \in 1..Len(batch), Deliver(n) PROVE LoopInv' /\ RowsFollow
  BY <1>0, <1>5, DeliverKeeps DEF Deliver, RowsFollow
<1>6. ASSUME NEW n \in 1..Len(batch), ReplyLost(n) \/ Withhold(n) PROVE LoopInv' /\ RowsFollow
  BY <1>0, <1>6, DropKeeps DEF ReplyLost, Withhold, RowsFollow
<1>7. ASSUME NEW p \in Pools, ReminderElapses(p) PROVE LoopInv' /\ RowsFollow
  BY <1>0, <1>7, ReminderKeeps DEF RowsFollow
<1>8. CASE Crash
  BY <1>0, <1>8, CrashKeeps DEF Crash, RowsFollow
<1>9. CASE StartPass \/ Flush \/ Shutdown \/ Restart \/ UNCHANGED vars
  <2>1. /\ kind' = kind /\ row' = row /\ batch' = batch /\ saving' = saving
        /\ heard' = heard /\ torn' = torn
    BY <1>9 DEF StartPass, Flush, Shutdown, Restart, vars
  <2>2. Stages'
    BY <1>0, <1>9 DEF Stages, StartPass, Flush, Shutdown, Restart, vars
  <2> QED
    BY <1>0, <2>1, <2>2, IdleKeeps DEF RowsFollow
<1>10. ASSUME NEW p \in Pools, SkipListing(p) \/ Worsen(p) \/ Improve(p)
       PROVE  LoopInv' /\ RowsFollow
  <2>1. /\ kind' = kind /\ row' = row /\ batch' = batch /\ saving' = saving
        /\ heard' = heard /\ torn' = torn /\ pc' = pc
    BY <1>10 DEF SkipListing, Worsen, Improve
  <2>2. Stages'
    BY <1>0, <2>1 DEF Stages
  <2> QED
    BY <1>0, <2>1, <2>2, IdleKeeps DEF RowsFollow
<1> QED
  BY <1>1, <1>2, <1>3, <1>4, <1>5, <1>6, <1>7, <1>8, <1>9, <1>10
  DEF Next, LoopNext, EnvNext

\* In step, a note that is no reminder tells news, so a message that tells a
\* pool nothing new carries a reminder of it.
LEMMA DeliversNews == LoopInv => NewsOrReminder
<1> SUFFICES ASSUME LoopInv, NEW p \in Pools, NEW n \in 1..Len(batch),
                    Deliver(n), Carries(n, p), ~torn, heard'[p] = heard[p]
             PROVE  \E i \in 1..n : batch[i].pool = p /\ batch[i].text = "reminder"
  BY DEF NewsOrReminder
<1>1. TypeOK /\ saving = <<>> /\ Len(saving) = 0 /\ heard' = Heard(n)
  BY DEF LoopInv, Stages, Deliver, Sends
<1>2. PICK i \in 1..n : batch[i].pool = p /\ Heard(n)[p] = Tells(batch[i].state)
  BY <1>1, HeardFacts
<1>3. i \in 1..Len(batch)
  BY <1>1, NotePools
<1>4. heard[p] = Tells(row[p])
  BY <1>1 DEF LoopInv, InStep, BeingSaved
<1>5. batch[i].text # "reminder" => Tells(batch[i].state) # Tells(row[p])
  BY <1>2, <1>3 DEF LoopInv, InStep
<1> QED
  BY <1>1, <1>2, <1>4, <1>5

\* ---------------------------------------------------------------- theorems

\* The invariant holds throughout.
LEMMA LoopInvariant == Spec => []LoopInv
<1>1. LoopInv /\ [Next]_vars => LoopInv'
  BY NextLoopInv
<1> QED
  BY <1>1, InitLoopInv, PTL DEF Spec

\* The rows, the notes and the tiers a loop of the monitor handles are well
\* typed, whatever fails: a stored level never leaves the tiers.
THEOREM AlertTypes == Spec => []TypeOK
<1>1. LoopInv => TypeOK
  BY DEF LoopInv
<1> QED
  BY <1>1, LoopInvariant, PTL

\* However often a pool is listed and wherever a batch is split, a pass notifies
\* of it at most once.
THEOREM OneNoteEach == Spec => []OnePerPass
<1>1. LoopInv => OnePerPass
  <2> SUFFICES ASSUME LoopInv PROVE OnePerPass
    OBVIOUS
  <2> DEFINE notes == saving \o batch
             m == Len(saving)
             k == Len(batch)
  <2>1. saving \in Seq(Note) /\ batch \in Seq(Note)
    BY DEF LoopInv, TypeOK
  <2>2. /\ Len(notes) = m + k /\ m \in Nat /\ k \in Nat
        /\ \A i \in 1..(m + k) : notes[i] = IF i <= m THEN saving[i] ELSE batch[i - m]
    BY <2>1, ConcatProperties, LenProperties
  <2>3. /\ \A i, j \in 1..m : saving[i].pool = saving[j].pool => i = j
        /\ \A i, j \in 1..k : batch[i].pool = batch[j].pool => i = j
        /\ \A i \in 1..m, j \in 1..k : saving[i].pool # batch[j].pool
    BY DEF LoopInv, PoolsDiffer, NotBoth
  <2> SUFFICES ASSUME NEW i \in 1..Len(notes), NEW j \in 1..Len(notes),
                      notes[i].pool = notes[j].pool
               PROVE  i = j
    BY DEF OnePerPass
  <2> HIDE DEF notes, m, k
  <2>4. CASE i <= m /\ j <= m
    BY <2>2, <2>3, <2>4
  <2>5. CASE i <= m /\ ~(j <= m)
    <3>1. i \in 1..m /\ j - m \in 1..k
      BY <2>2, <2>5
    <3> QED
      BY <2>2, <2>3, <2>5, <3>1
  <2>6. CASE ~(i <= m) /\ j <= m
    <3>1. j \in 1..m /\ i - m \in 1..k
      BY <2>2, <2>6
    <3> QED
      BY <2>2, <2>3, <2>6, <3>1
  <2>7. CASE ~(i <= m) /\ ~(j <= m)
    <3>1. i - m \in 1..k /\ j - m \in 1..k
      BY <2>2, <2>7
    <3>2. i - m = j - m
      BY <2>2, <2>3, <2>7, <3>1
    <3> QED
      BY <2>2, <3>2
  <2> QED
    BY <2>4, <2>5, <2>6, <2>7
<1> QED
  BY <1>1, LoopInvariant, PTL

\* Whatever fails, an alert state is advanced only to what a delivered message
\* has told: no alert is marked as told and never sent.
THEOREM CommitsAreTold == Spec => CommitFollowsDelivery
<1>1. LoopInv /\ [Next]_vars =>
        [\A p \in Pools : Tells(row'[p]) # Tells(row[p]) => heard[p] = Tells(row'[p])]_vars
  BY NextLoopInv DEF RowsFollow
<1> QED
  BY <1>1, LoopInvariant, PTL DEF Spec, CommitFollowsDelivery

\* While the table and the recipient are in step, a message repeats what the
\* recipient knows of a pool only as a reminder.
THEOREM OnlyNewsIsTold == Spec => NothingToldTwice
<1>1. LoopInv =>
        [\A p \in Pools, n \in 1..Len(batch) :
           Deliver(n) /\ Carries(n, p) /\ ~torn /\ heard'[p] = heard[p]
             => \E i \in 1..n : batch[i].pool = p /\ batch[i].text = "reminder"]_vars
  BY DeliversNews DEF NewsOrReminder
<1> QED
  BY <1>1, LoopInvariant, PTL DEF Spec, NothingToldTwice
=============================================================================
