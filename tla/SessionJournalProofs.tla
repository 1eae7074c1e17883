------------------------ MODULE SessionJournalProofs ------------------------
(***************************************************************************)
(* Proofs about SessionJournal, for any number of coordinators, any         *)
(* digests and any number of failed or unanswered writes.                   *)
(*                                                                          *)
(* A transition is New when it is neither pending nor completed, and an     *)
(* intent leaves the pending slot only into the completed list: so one that *)
(* was answered New once is on record for good (NewIsRecorded).  That a     *)
(* session never gets stuck needs a measure of the table of validate: every *)
(* edge leads to a phase of a higher rank, so a session never comes back to *)
(* a phase and the list of completed transitions cannot fill up.            *)
(*                                                                          *)
(* At the end SupervisedRun, whose run the journal's coordinator waits for:  *)
(* what the guard of a durable use leaves in the store.                      *)
(***************************************************************************)
EXTENDS SessionJournal, WellFoundedInduction, TLAPS

\* How far a phase is from Created on the longest way of the table.
Rank(phase) ==
    CASE phase = "Created" -> 0
      [] phase = "AuthorityEvaluated" -> 1
      [] phase = "AuthorityDenied" -> 1
      [] phase = "LeaseReserved" -> 2
      [] phase = "PermitActive" -> 3
      [] phase = "WorkerObserved" -> 4
      [] phase = "PermitTerminal" -> 5
      [] phase = "RollbackResolved" -> 6
      [] phase = "EvidenceFinalized" -> 7
      [] phase = "ReceiptPersisted" -> 8
      [] OTHER -> 9

\* A transition that was answered New is pending or completed.
NewIsRecorded == \A t \in Asked : news[t] # 0 => state.pending = t \/ IsCompleted(t)

\* The session is past every phase it has left, and it has left no more phases
\* than the rank of the one it is in.
PhaseAdvances ==
    /\ \A i \in 1..Len(state.completed) : Rank(state.completed[i].id.edge.from) < Rank(state.phase)
    /\ Len(state.completed) <= Rank(state.phase)

Inv ==
    /\ TypeOK /\ CompletedIsAWalk /\ GenerationCountsRecords
    /\ NewOnlyOnce /\ NewIsRecorded /\ PhaseAdvances

-----------------------------------------------------------------------------
(* The table of validate.                                                    *)

LEMMA EdgeFacts ==
    ASSUME NEW e \in Edges
    PROVE  /\ e.from \in Phases /\ e.to \in Phases /\ e.step \in Steps
           /\ Rank(e.from) \in Nat /\ Rank(e.to) \in Nat
           /\ Rank(e.from) < Rank(e.to) /\ Rank(e.to) <= 9
<1>1. e.step \in Steps
  BY DEF Steps
<1>2. /\ e.from \in Phases /\ e.to \in Phases
      /\ Rank(e.from) \in Nat /\ Rank(e.to) \in Nat
      /\ Rank(e.from) < Rank(e.to) /\ Rank(e.to) <= 9
  BY SMTT(60) DEF Edges, Phases, Rank
<1> QED
  BY <1>1, <1>2

LEMMA RankBounds ==
    ASSUME NEW p \in Phases
    PROVE  Rank(p) \in 0..9
BY DEF Phases, Rank

\* Only Complete has no way out.
LEMMA WayOut ==
    ASSUME NEW p \in Phases, p # "Complete"
    PROVE  \E e \in Edges : e.from = p
BY SMTT(60) DEF Phases, Edges

LEMMA AskedFacts ==
    ASSUME NEW t \in Asked
    PROVE  t # NoTransition
<1>1. PICK e, d : t = [edge |-> e, digest |-> d]
  BY DEF Asked
<1>2. DOMAIN t = {"edge", "digest"} /\ DOMAIN NoTransition = {"edge"}
  BY <1>1 DEF NoTransition
<1> QED
  BY <1>2

LEMMA EdgeIsAsked ==
    ASSUME NEW e \in Edges, NEW d \in Digests
    PROVE  [edge |-> e, digest |-> d] \in Asked
BY DEF Asked

-----------------------------------------------------------------------------
(* The state file after an intent and after a completion.                    *)

\* The body that intend writes.
Intended(t) == [state EXCEPT !.pending = t, !.generation = @ + 1]

LEMMA IntendedFields ==
    ASSUME TypeOK, NEW t \in Asked
    PROVE  /\ Intended(t) \in [generation : Nat, phase : Phases,
                               pending : Asked \cup {NoTransition}, completed : Seq(Completions)]
           /\ Intended(t).generation = state.generation + 1
           /\ Intended(t).phase = state.phase
           /\ Intended(t).pending = t
           /\ Intended(t).completed = state.completed
<1> DEFINE BodyType == [generation : Nat, phase : Phases, pending : Asked \cup {NoTransition},
                        completed : Seq(Completions)]
           body == [state EXCEPT !.pending = t]
<1>1. state \in BodyType /\ state.generation + 1 \in Nat
  BY DEF TypeOK
<1>2. /\ body \in BodyType /\ body.pending = t /\ body.generation = state.generation
      /\ body.phase = state.phase /\ body.completed = state.completed
  BY <1>1
<1>3. Intended(t) = [body EXCEPT !.generation = state.generation + 1]
  BY <1>1 DEF Intended
<1> HIDE DEF body
<1> QED
  BY <1>1, <1>2, <1>3

\* The body that complete writes: one record more, the earlier ones as they were.
LEMMA CompletionFields ==
    ASSUME TypeOK, NEW t \in Asked, NEW result \in [step : Steps, digest : Results],
           t.edge \in Edges
    PROVE  LET new == Completion(t, result)
               n == Len(state.completed)
           IN  /\ new \in [generation : Nat, phase : Phases,
                           pending : Asked \cup {NoTransition}, completed : Seq(Completions)]
               /\ new.generation = state.generation + 1
               /\ new.phase = t.edge.to
               /\ new.pending = NoTransition
               /\ n \in Nat
               /\ Len(new.completed) = n + 1
               /\ \A i \in 1..n : new.completed[i] = state.completed[i]
               /\ new.completed[n + 1] = [id |-> t, result |-> result]
<1> DEFINE n == Len(state.completed)
           r == [id |-> t, result |-> result]
           done == Append(state.completed, r)
<1>1. state.completed \in Seq(Completions) /\ state.generation \in Nat
  BY DEF TypeOK
<1>2. r \in Completions
  BY DEF Completions
<1>3. /\ done \in Seq(Completions) /\ n \in Nat /\ Len(done) = n + 1
      /\ \A i \in 1..n : done[i] = state.completed[i]
      /\ done[n + 1] = r
  BY <1>1, <1>2
<1>4. t.edge.to \in Phases
  BY EdgeFacts
<1> QED
  BY <1>1, <1>3, <1>4 DEF Completion

-----------------------------------------------------------------------------
(* The steps.                                                                *)

LEMMA InitInv ==
    ASSUME SessionAssumption, Init
    PROVE  Inv
<1>1. /\ state.generation = 0 /\ state.phase = "Created" /\ state.pending = NoTransition
      /\ state.completed = <<>> /\ Len(state.completed) = 0
  BY DEF Init
<1>2. TypeOK
  <2>1. state \in [generation : Nat, phase : Phases, pending : Asked \cup {NoTransition},
                   completed : Seq(Completions)]
    BY DEF Init, Phases
  <2> QED
    BY <2>1 DEF Init, TypeOK, SessionAssumption
<1>3. CompletedIsAWalk /\ GenerationCountsRecords
  BY <1>1 DEF CompletedIsAWalk, GenerationCountsRecords
<1>4. NewOnlyOnce /\ NewIsRecorded
  BY DEF Init, NewOnlyOnce, NewIsRecorded
<1>5. PhaseAdvances
  BY <1>1 DEF PhaseAdvances, Rank
<1> QED
  BY <1>2, <1>3, <1>4, <1>5 DEF Inv

\* A step that only changes what coordinators know, or counts a fault.
LEMMA StateStays ==
    ASSUME Inv, UNCHANGED <<state, news>>,
           known' \in [Coordinators -> [generation : Nat, id : Asked \cup {NoTransition}]],
           faults' \in 0..MaxFaults
    PROVE  Inv'
BY DEF Inv, TypeOK, CompletedIsAWalk, Legal, GenerationCountsRecords, NewOnlyOnce, NewIsRecorded,
       IsCompleted, PhaseAdvances

\* What Existing, recover and a restart tell a coordinator has the right type.
LEMMA LearnsOK ==
    ASSUME TypeOK, NEW c \in Coordinators, NEW g \in Nat, NEW t \in Asked \cup {NoTransition}
    PROVE  [known EXCEPT ![c] = [generation |-> g, id |-> t]]
              \in [Coordinators -> [generation : Nat, id : Asked \cup {NoTransition}]]
BY DEF TypeOK

\* intend with a new transition, the write answered or not.
LEMMA IntendNewStep ==
    ASSUME Inv, SessionAssumption, NEW c \in Coordinators, NEW t \in Asked, IntendNew(c, t)
    PROVE  Inv'
<1> DEFINE new == Intended(t)
<1>0. TypeOK /\ t # NoTransition /\ state.pending = NoTransition /\ ~IsCompleted(t)
  BY AskedFacts DEF Inv, IntendNew
<1>1. /\ new.generation = state.generation + 1 /\ new.phase = state.phase
      /\ new.pending = t /\ new.completed = state.completed
      /\ new \in [generation : Nat, phase : Phases,
                  pending : Asked \cup {NoTransition}, completed : Seq(Completions)]
  BY <1>0, IntendedFields
<1>2. WriteState(c, new, t, TRUE)
  BY DEF IntendNew, Intended
<1>3. [known EXCEPT ![c] = [generation |-> new.generation, id |-> t]]
              \in [Coordinators -> [generation : Nat, id : Asked \cup {NoTransition}]]
  BY <1>0, <1>1, LearnsOK
<1> HIDE DEF new
<1>4. known' \in [Coordinators -> [generation : Nat, id : Asked \cup {NoTransition}]]
  BY <1>0, <1>2, <1>3 DEF WriteState, TypeOK
<1>5. faults' \in 0..MaxFaults
  BY <1>0, <1>2 DEF WriteState, TypeOK, SessionAssumption
<1>6. CASE state' = state /\ news' = news
  BY <1>4, <1>5, <1>6, StateStays
<1>7. CASE state' = new /\ news' \in {news, [news EXCEPT ![t] = @ + 1]}
  <2>1. TypeOK'
    <3>1. news' \in [Asked -> Nat]
      <4>1. news \in [Asked -> Nat] /\ news[t] + 1 \in Nat
        BY <1>0 DEF TypeOK
      <4> QED
        BY <1>7, <4>1
    <3> QED
      BY <1>1, <1>4, <1>5, <1>7, <3>1 DEF TypeOK
  <2>2. CompletedIsAWalk'
    BY <1>0, <1>1, <1>7 DEF Inv, CompletedIsAWalk, IntendNew, Legal
  <2>3. GenerationCountsRecords'
    <3>1. state.generation = 2 * Len(state.completed) /\ Len(state.completed) \in Nat
      BY <1>0 DEF Inv, GenerationCountsRecords, TypeOK
    <3> QED
      BY <1>0, <1>1, <1>7, <3>1 DEF GenerationCountsRecords
  <2>4. NewOnlyOnce' /\ NewIsRecorded'
    <3>1. news[t] = 0
      BY <1>0 DEF Inv, NewIsRecorded
    <3>2. \A u \in Asked : /\ news'[u] # 0 => u = t \/ news[u] # 0
                           /\ news'[u] <= 1
      BY <1>0, <1>7, <3>1 DEF Inv, TypeOK, NewOnlyOnce
    <3>3. \A u \in Asked : news[u] # 0 => IsCompleted(u)
      BY <1>0, AskedFacts DEF Inv, NewIsRecorded
    <3>4. state'.completed = state.completed /\ state'.pending = t
      BY <1>1, <1>7
    <3>5. \A u \in Asked : IsCompleted(u) => IsCompleted(u)'
      BY <3>4 DEF IsCompleted
    <3> QED
      BY <3>2, <3>3, <3>4, <3>5 DEF NewOnlyOnce, NewIsRecorded
  <2>5. PhaseAdvances'
    BY <1>1, <1>7 DEF Inv, PhaseAdvances
  <2> QED
    BY <2>1, <2>2, <2>3, <2>4, <2>5 DEF Inv
<1> QED
  BY <1>2, <1>6, <1>7 DEF WriteState

\* complete of the pending transition, the write answered or not.
LEMMA CompleteNewStep ==
    ASSUME Inv, SessionAssumption, NEW c \in Coordinators,
           NEW step \in Steps, NEW r \in Results,
           CompleteNew(c, [step |-> step, digest |-> r])
    PROVE  Inv'
<1> DEFINE result == [step |-> step, digest |-> r]
           t == known[c].id
           new == Completion(t, result)
           n == Len(state.completed)
<1>0. /\ TypeOK /\ t \in Asked /\ t # NoTransition /\ state.pending = t
      /\ result.step = t.edge.step /\ n \in Nat
  BY DEF Inv, TypeOK, CompleteNew
<1>1. t.edge \in Edges /\ t.edge.from = state.phase
  BY <1>0 DEF Inv, CompletedIsAWalk, Legal
<1>2. result \in [step : Steps, digest : Results]
  OBVIOUS
<1>3. /\ new \in [generation : Nat, phase : Phases,
                  pending : Asked \cup {NoTransition}, completed : Seq(Completions)]
      /\ new.generation = state.generation + 1
      /\ new.phase = t.edge.to
      /\ new.pending = NoTransition
      /\ Len(new.completed) = n + 1
      /\ \A i \in 1..n : new.completed[i] = state.completed[i]
      /\ new.completed[n + 1].id = t /\ new.completed[n + 1].result = result
  <2> HIDE DEF t, result
  <2>1. new.completed[n + 1] = [id |-> t, result |-> result]
    BY <1>0, <1>1, <1>2, CompletionFields
  <2>2. new.completed[n + 1].id = t /\ new.completed[n + 1].result = result
    BY <2>1
  <2> HIDE DEF new
  <2> QED BY <1>0, <1>1, <1>2, <2>2, CompletionFields DEF new
<1>4. WriteState(c, new, t, FALSE)
  BY DEF CompleteNew
<1>5. [known EXCEPT ![c] = [generation |-> new.generation, id |-> t]]
              \in [Coordinators -> [generation : Nat, id : Asked \cup {NoTransition}]]
  <2> HIDE DEF t, new
  <2> QED BY <1>0, <1>3, LearnsOK
<1> HIDE DEF new, t, result
<1>6. known' \in [Coordinators -> [generation : Nat, id : Asked \cup {NoTransition}]]
  BY <1>0, <1>4, <1>5 DEF WriteState, TypeOK
<1>7. faults' \in 0..MaxFaults
  BY <1>0, <1>4 DEF WriteState, TypeOK, SessionAssumption
<1>8. news' = news /\ state' \in {state, new}
  BY <1>4 DEF WriteState
<1>9. CASE state' = state
  BY <1>6, <1>7, <1>8, <1>9, StateStays
<1>10. CASE state' = new
  <2>0. /\ state'.generation = state.generation + 1
        /\ state'.phase = t.edge.to
        /\ state'.pending = NoTransition
        /\ Len(state'.completed) = n + 1
        /\ \A i \in 1..n : state'.completed[i] = state.completed[i]
        /\ state'.completed[n + 1].id = t /\ state'.completed[n + 1].result = result
    BY <1>3, <1>10
  <2>1. TypeOK'
    BY <1>0, <1>3, <1>6, <1>7, <1>8, <1>10 DEF TypeOK
  <2>2. CompletedIsAWalk'
    <3>1. \A i \in 1..n : /\ state.completed[i].id.edge \in Edges
                          /\ state.completed[i].id.edge.from =
                               IF i = 1 THEN "Created" ELSE state.completed[i - 1].id.edge.to
                          /\ state.completed[i].result.step = state.completed[i].id.edge.step
      BY DEF Inv, CompletedIsAWalk, n
    <3>2. state.phase = IF n = 0 THEN "Created" ELSE state.completed[n].id.edge.to
      BY <1>0 DEF Inv, CompletedIsAWalk, n, TypeOK
    <3>3. \A i \in 1..Len(state'.completed) :
             /\ state'.completed[i].id.edge \in Edges
             /\ state'.completed[i].id.edge.from =
                  IF i = 1 THEN "Created" ELSE state'.completed[i - 1].id.edge.to
             /\ state'.completed[i].result.step = state'.completed[i].id.edge.step
      <4> TAKE i \in 1..Len(state'.completed)
      <4>1. CASE i \in 1..n
        <5>1. i = 1 \/ i - 1 \in 1..n
          BY <4>1, <1>0
        <5> QED BY <5>1, <4>1, <3>1, <2>0
      <4>2. CASE i = n + 1
        <5>1. i = 1 \/ n \in 1..n
          BY <4>2, <1>0
        <5>2. CASE n = 0
          BY <5>2, <4>2, <3>2, <2>0, <1>0, <1>1
        <5>3. CASE n # 0
          <6>1. i # 1 /\ i - 1 = n /\ n \in 1..n
            BY <5>3, <4>2, <1>0
          <6> QED BY <6>1, <5>3, <4>2, <3>2, <2>0, <1>0, <1>1
        <5> QED BY <5>2, <5>3
      <4> QED BY <4>1, <4>2, <2>0, <1>0
    <3>4. state'.completed # <<>>
      BY <2>0, <1>0
    <3>5. state'.phase = state'.completed[Len(state'.completed)].id.edge.to
      BY <2>0, <1>0
    <3> QED
      BY <2>0, <3>3, <3>4, <3>5 DEF CompletedIsAWalk
  <2>3. GenerationCountsRecords'
    <3>1. state.generation = 2 * n + 1
      BY <1>0 DEF Inv, GenerationCountsRecords, n
    <3>2. state'.generation = 2 * (n + 1)
      BY <1>0, <2>0, <3>1
    <3> QED
      BY <2>0, <3>2, <1>0, <2>1 DEF GenerationCountsRecords, TypeOK
  <2>4. NewOnlyOnce' /\ NewIsRecorded'
    <3>1. \A u \in Asked : u = t \/ IsCompleted(u) => IsCompleted(u)'
      <4>1. n + 1 \in 1..Len(state'.completed) /\ \A i \in 1..n : i \in 1..Len(state'.completed)
        BY <1>0, <2>0
      <4> QED
        BY <4>1, <2>0 DEF IsCompleted, n
    <3> QED
      BY <3>1, <1>0, <1>8 DEF Inv, NewOnlyOnce, NewIsRecorded
  <2>5. PhaseAdvances'
    <3>1. /\ Rank(t.edge.from) < Rank(t.edge.to)
          /\ Rank(t.edge.from) \in Nat /\ Rank(t.edge.to) \in Nat
      BY <1>1, EdgeFacts
    <3>2. n + 1 <= Rank(t.edge.to)
      BY <3>1, <1>0, <1>1 DEF Inv, PhaseAdvances, n
    <3>3. \A i \in 1..n : Rank(state.completed[i].id.edge.from) < Rank(t.edge.from)
      BY <1>1 DEF Inv, PhaseAdvances, n
    <3>4. \A i \in 1..n : Rank(state.completed[i].id.edge.from) \in Nat
      BY EdgeFacts DEF Inv, CompletedIsAWalk, n
    <3>5. \A i \in 1..n : Rank(state.completed[i].id.edge.from) < Rank(t.edge.to)
      BY <3>1, <3>3, <3>4
    <3>6. \A i \in 1..(n + 1) : Rank(state'.completed[i].id.edge.from) < Rank(t.edge.to)
      <4> TAKE i \in 1..(n + 1)
      <4>1. CASE i \in 1..n
        BY <4>1, <3>5, <2>0
      <4>2. CASE i = n + 1
        BY <4>2, <3>1, <2>0
      <4> QED BY <4>1, <4>2, <1>0
    <3> QED
      BY <3>2, <3>6, <2>0 DEF PhaseAdvances
  <2> QED
    BY <2>1, <2>2, <2>3, <2>4, <2>5 DEF Inv
<1> QED
  BY <1>8, <1>9, <1>10

\* The file stays as it is when the answer is Existing, on recover and on a
\* restart.
LEMMA LearningStep ==
    ASSUME Inv, NEW c \in Coordinators, NEW g \in Nat, NEW t \in Asked \cup {NoTransition},
           known' = [known EXCEPT ![c] = [generation |-> g, id |-> t]],
           UNCHANGED <<state, news, faults>>
    PROVE  Inv'
<1>1. known' \in [Coordinators -> [generation : Nat, id : Asked \cup {NoTransition}]]
  BY LearnsOK DEF Inv
<1>2. faults' \in 0..MaxFaults
  BY DEF Inv, TypeOK
<1> QED
  BY <1>1, <1>2, StateStays

LEMMA NextInv ==
    ASSUME SessionAssumption, Inv, [Next]_vars
    PROVE  Inv'
<1>0. /\ state.generation \in Nat /\ state.pending \in Asked \cup {NoTransition} /\ 0 \in Nat
      /\ \A c \in Coordinators : known[c].id \in Asked \cup {NoTransition}
  BY DEF Inv, TypeOK
<1>1. ASSUME NEW c \in Coordinators, Intend(c)
      PROVE  Inv'
  <2>1. PICK t \in Asked : IntendPending(c, t) \/ IntendCompleted(c, t) \/ IntendNew(c, t)
    BY <1>1 DEF Intend
  <2>2. CASE IntendPending(c, t) \/ IntendCompleted(c, t)
    BY <1>0, <2>2, LearningStep DEF IntendPending, IntendCompleted, Existing
  <2>3. CASE IntendNew(c, t)
    BY <2>3, IntendNewStep
  <2> QED
    BY <2>1, <2>2, <2>3
<1>2. ASSUME NEW c \in Coordinators, Complete(c)
      PROVE  Inv'
  <2>1. PICK step \in Steps, r \in Results :
          \/ CompleteExisting(c, [step |-> step, digest |-> r])
          \/ CompleteNew(c, [step |-> step, digest |-> r])
    BY <1>2 DEF Complete
  <2>2. CASE CompleteExisting(c, [step |-> step, digest |-> r])
    BY <1>0, <2>2, LearningStep DEF CompleteExisting, Existing
  <2>3. CASE CompleteNew(c, [step |-> step, digest |-> r])
    BY <2>3, CompleteNewStep
  <2> QED
    BY <2>1, <2>2, <2>3
<1>3. ASSUME NEW c \in Coordinators, Recover(c)
      PROVE  Inv'
  BY <1>0, <1>3, LearningStep DEF Recover
<1>4. ASSUME NEW c \in Coordinators, Restart(c)
      PROVE  Inv'
  BY <1>0, <1>4, LearningStep DEF Restart
<1>5. CASE UNCHANGED vars
  <2>1. /\ UNCHANGED <<state, news>> /\ faults' \in 0..MaxFaults
        /\ known' \in [Coordinators -> [generation : Nat, id : Asked \cup {NoTransition}]]
    BY <1>5 DEF vars, Inv, TypeOK
  <2> QED
    BY <2>1, StateStays
<1> QED
  BY <1>1, <1>2, <1>3, <1>4, <1>5 DEF Next

-----------------------------------------------------------------------------
(* The theorems.                                                             *)

\* The inductive invariant of the journal.
THEOREM JournalInv ==
    ASSUME SessionAssumption
    PROVE  Spec => []Inv
<1>1. Init => Inv
  BY InitInv
<1>2. Inv /\ [Next]_vars => Inv'
  BY NextInv
<1> QED
  BY <1>1, <1>2, PTL DEF Spec

\* intend, complete and recover under any interleaving, retry and failed
\* write: the completed transitions are one walk of validate's table from
\* Created to the phase, the generation counts the records, and no transition
\* is answered New twice.
THEOREM JournalSafety ==
    ASSUME SessionAssumption
    PROVE  Spec => []JournalSafe
<1>1. Inv => JournalSafe
  BY DEF Inv, JournalSafe
<1> QED
  BY <1>1, JournalInv, PTL

\* MAX_COMPLETED_TRANSITIONS is out of reach: a session short of Complete has
\* room for the next record, and a pending transition or a legal one that was
\* not yet completed.
THEOREM JournalNeverStuck ==
    ASSUME SessionAssumption
    PROVE  Spec => []NeverStuck
<1>1. ASSUME Inv PROVE NeverStuck
  <2>1. SUFFICES ASSUME state.phase # "Complete"
                 PROVE  /\ Len(state.completed) < MaxCompleted
                        /\ state.pending = NoTransition =>
                             \E t \in Asked : Legal(t, state.phase) /\ ~IsCompleted(t)
    BY DEF NeverStuck
  <2>2. state.phase \in Phases /\ state.completed \in Seq(Completions)
    BY <1>1 DEF Inv, TypeOK
  <2>3. Rank(state.phase) \in 0..9
    BY <2>2, RankBounds
  <2>4. Len(state.completed) < MaxCompleted
    BY <1>1, <2>2, <2>3 DEF Inv, PhaseAdvances, MaxCompleted
  <2>5. PICK e \in Edges : e.from = state.phase
    BY <2>1, <2>2, WayOut
  <2>6. PICK d \in Digests : TRUE
    BY DEF SessionAssumption
  <2> DEFINE t == [edge |-> e, digest |-> d]
  <2>7. t \in Asked /\ t.edge = e
    BY EdgeIsAsked
  <2>8. ~IsCompleted(t)
    <3>1. SUFFICES ASSUME NEW i \in 1..Len(state.completed), state.completed[i].id = t
                   PROVE  FALSE
      BY DEF IsCompleted
    <3>2. state.completed[i].id.edge.from = state.phase
      BY <3>1, <2>5, <2>7
    <3>3. Rank(state.completed[i].id.edge.from) < Rank(state.phase)
      BY <1>1 DEF Inv, PhaseAdvances
    <3> QED
      BY <3>2, <3>3, <2>3
  <2>9. Legal(t, state.phase)
    BY <2>5, <2>7 DEF Legal
  <2> QED
    BY <2>4, <2>7, <2>8, <2>9
<1> QED
  BY <1>1, JournalInv, PTL

\* A step of the journal in terms of its list: it stays, or the pending
\* transition is appended to it.
LEMMA HistoryStep ==
    ASSUME Inv, [Next]_vars
    PROVE  \/ state'.completed = state.completed /\ state'.pending = state.pending
           \/ state'.completed = state.completed /\ state.pending = NoTransition
           \/ \E r \in Completions :
                 state'.completed = Append(state.completed, r) /\ r.id = state.pending
<1>0. TypeOK
  BY DEF Inv
<1>1. ASSUME NEW c \in Coordinators, Intend(c)
      PROVE  /\ state'.completed = state.completed
             /\ state'.pending = state.pending \/ state.pending = NoTransition
  <2>1. PICK t \in Asked : IntendPending(c, t) \/ IntendCompleted(c, t) \/ IntendNew(c, t)
    BY <1>1 DEF Intend
  <2>2. CASE IntendPending(c, t) \/ IntendCompleted(c, t)
    BY <2>2 DEF IntendPending, IntendCompleted, Existing
  <2>3. CASE IntendNew(c, t)
    <3>1. state' \in {state, Intended(t)} /\ state.pending = NoTransition
      BY <2>3 DEF IntendNew, Intended, WriteState
    <3> QED
      BY <1>0, <3>1, IntendedFields
  <2> QED
    BY <2>1, <2>2, <2>3
<1>2. ASSUME NEW c \in Coordinators, Complete(c)
      PROVE  \/ state' = state
             \/ \E r \in Completions :
                   state'.completed = Append(state.completed, r) /\ r.id = state.pending
  <2>1. PICK step \in Steps, d \in Results :
          \/ CompleteExisting(c, [step |-> step, digest |-> d])
          \/ CompleteNew(c, [step |-> step, digest |-> d])
    BY <1>2 DEF Complete
  <2> DEFINE result == [step |-> step, digest |-> d]
  <2>2. CASE CompleteExisting(c, result)
    BY <2>2 DEF CompleteExisting, Existing
  <2>3. CASE CompleteNew(c, result) /\ state' # state
    <3>1. state' = Completion(state.pending, result) /\ state.pending \in Asked
      BY <1>0, <2>3 DEF CompleteNew, WriteState, TypeOK
    <3>2. state'.completed = Append(state.completed, [id |-> state.pending, result |-> result])
      BY <3>1 DEF Completion
    <3>3. [id |-> state.pending, result |-> result] \in Completions
      BY <3>1 DEF Completions
    <3> QED
      BY <3>2, <3>3
  <2> QED
    BY <2>1, <2>2, <2>3
<1>3. ASSUME NEW c \in Coordinators, Recover(c) \/ Restart(c)
      PROVE  state' = state
  BY <1>3 DEF Recover, Restart
<1>4. CASE UNCHANGED vars
  BY <1>4 DEF vars
<1> QED
  BY <1>1, <1>2, <1>3, <1>4 DEF Next

\* complete never rewrites what it recorded, and an intent leaves the pending
\* slot only as the newest completion.
THEOREM JournalHistory ==
    ASSUME SessionAssumption
    PROVE  Spec => HistoryIsFinal
<1>1. ASSUME Inv, [Next]_vars
      PROVE  KeepsHistory
  <2> DEFINE done == state.completed
             n == Len(done)
  <2>0. done \in Seq(Completions) /\ n \in Nat
    BY <1>1 DEF Inv, TypeOK
  <2>1. CASE state'.completed = done /\ (state'.pending = state.pending \/ state.pending = NoTransition)
    <3>1. SubSeq(done, 1, n) = done
      BY <2>0
    <3> QED
      BY <2>1, <3>1 DEF KeepsHistory
  <2>2. CASE \E r \in Completions : state'.completed = Append(done, r) /\ r.id = state.pending
    <3>1. PICK r \in Completions : state'.completed = Append(done, r) /\ r.id = state.pending
      BY <2>2
    <3>2. /\ Len(Append(done, r)) = n + 1
          /\ Append(done, r)[n + 1] = r
          /\ Append(done, r) \in Seq(Completions)
          /\ \A i \in 1..n : Append(done, r)[i] = done[i]
      BY <2>0
    <3>3. SubSeq(Append(done, r), 1, n) = done
      BY <2>0, <3>2
    <3>4. Append(done, r) # done
      BY <2>0, <3>2
    <3> QED
      BY <3>1, <3>2, <3>3, <3>4 DEF KeepsHistory
  <2> QED
    BY <1>1, <2>1, <2>2, HistoryStep
<1> QED
  BY <1>1, JournalInv, PTL DEF Spec, HistoryIsFinal

-----------------------------------------------------------------------------
(* The supervised run, whose end the session waits for.  It shares nothing *)
(* with the journal, so its constants and variables are its own.           *)

CONSTANTS RunFaults, MayDrop

VARIABLES pc, branch, token, woken, timer, child, group, kind, use, revokedUse, result, runFaults

Run == INSTANCE SupervisedRun WITH faults <- runFaults, MaxFaults <- RunFaults

Kinds == Run!Tokens \cup {"none", "error", "timedOut", "exited"}

\* The uses the store can hold.
Uses ==
    {Run!Active, Run!Completing("finished"), Run!Completing("abandoned"),
     Run!Ended("finished"), Run!Ended("abandoned")}

\* The processes at each place of execute: none before the spawn, and none left
\* once the run is to be finished.
ProcessInv ==
    /\ pc \in {"build", "check", "spawn"} => child = "none" /\ group = FALSE
    /\ pc = "kill" => child = "reaped"
    /\ pc \in {"finish", "commitFinish", "ok"} => child \in {"none", "reaped"} /\ group = FALSE

\* The caller gets its result last, and the kind of an outcome names something
\* that has happened.
KindInv ==
    /\ pc # "done" => result = "none"
    /\ kind \in Kinds
    /\ kind \in Run!Tokens => token[kind].flag = TRUE
    /\ kind = "timedOut" => timer = TRUE

\* The store at each place of the guard: a revocation has ended the use, and a
\* place that leaves it active has met a failing write.
UseInv ==
    /\ revokedUse => use # Run!Active
    /\ pc = "commitFinish" => use \in {Run!Completing("finished"), Run!Ended("finished")}
    /\ pc \in {"commitAbandon", "commitDrop"} => use # Run!Active
    /\ pc = "ok" => use = Run!Ended("finished")
    /\ pc = "failed" => use # Run!Active \/ runFaults > 0

\* Only a cancelled() is looked at.
LookInv == pc = "look" => branch \in 1..3

RunInv == Run!RunSafe /\ timer \in BOOLEAN /\ ProcessInv /\ KindInv /\ UseInv /\ LookInv

LEMMA UsesDiffer ==
  /\ Run!Active # Run!Completing("finished") /\ Run!Active # Run!Completing("abandoned")
  /\ Run!Active # Run!Ended("finished") /\ Run!Active # Run!Ended("abandoned")
  /\ Run!Completing("finished") # Run!Ended("finished")
  /\ Run!Completing("abandoned") # Run!Ended("finished")
  /\ Run!Ended("abandoned") # Run!Ended("finished")
BY DEF Run!Active, Run!Completing, Run!Ended

LEMMA RunTypes ==
  Run!TypeOK <=>
    /\ pc \in {"build", "check", "spawn", "select", "look", "terminate", "kill", "finish",
               "commitFinish", "abandon", "commitAbandon", "drop", "commitDrop", "ok",
               "failed", "done"}
    /\ branch \in 1..6
    /\ token \in [Run!Tokens -> [flag : BOOLEAN, told : BOOLEAN,
                                 waiter : {"none", "created", "notified"}]]
    /\ child \in {"none", "running", "exited", "reaped"}
    /\ use \in Uses
    /\ result \in Kinds
    /\ runFaults \in 0..RunFaults
BY DEF Run!TypeOK, Run!Dispositions, Uses, Kinds

LEMMA RunInit ==
  ASSUME Run!RunAssumption, Run!Init
  PROVE  RunInv
<1>1. Run!FreshToken \in [flag : BOOLEAN, told : BOOLEAN, waiter : {"none", "created", "notified"}]
  BY DEF Run!FreshToken
<1>2. Run!TypeOK
  BY <1>1, RunTypes DEF Run!Init, Run!RunAssumption, Uses, Kinds
<1> QED
  BY <1>2 DEF RunInv, Run!RunSafe, Run!OutcomeIsDurable, Run!UseIsEnded, Run!Init,
              ProcessInv, KindInv, UseInv, LookInv, Kinds, Run!Tokens

\* Where the run is not over the caller has nothing, and only the last places
\* of the guard say something about the store.
LEMMA Underway ==
  ASSUME RunInv, Run!TypeOK', pc # "done", pc' # "done",
         UNCHANGED <<use, revokedUse, result, runFaults>>,
         pc' \notin {"commitFinish", "commitAbandon", "commitDrop", "ok", "failed"},
         ProcessInv', LookInv', timer' \in BOOLEAN,
         kind' \in Kinds,
         kind' \in Run!Tokens => token'[kind'].flag = TRUE,
         kind' = "timedOut" => timer' = TRUE
  PROVE  RunInv'
BY DEF RunInv, Run!RunSafe, Run!OutcomeIsDurable, Run!UseIsEnded, ProcessInv, KindInv, UseInv

\* The steps of execute up to the wait.
LEMMA StartKeeps ==
  ASSUME RunInv, Run!Build \/ Run!Check \/ Run!Spawn
  PROVE  RunInv'
<1>1. UNCHANGED <<branch, token, timer, use, revokedUse, result, runFaults>>
  BY DEF Run!Build, Run!Check, Run!Spawn, Run!store
<1>2. /\ pc \in {"build", "check", "spawn"}
      /\ pc' \in {"check", "spawn", "select", "drop", "abandon", "finish"}
      /\ pc' \in {"check", "spawn", "finish"} => UNCHANGED <<child, group>>
      /\ child' \in {child, "running"}
      /\ kind' \in Kinds
      /\ kind' \in Run!Tokens => token[kind'].flag
      /\ kind' = "timedOut" => timer
  BY DEF Run!Build, Run!Check, Run!Spawn, Run!process, RunInv, KindInv, Kinds, Run!Tokens
<1>3. Run!TypeOK'
  BY <1>1, <1>2, RunTypes DEF RunInv, Run!RunSafe, Run!TypeOK
<1>4. ProcessInv' /\ LookInv' /\ timer' \in BOOLEAN
  BY <1>1, <1>2 DEF RunInv, ProcessInv, LookInv
<1> QED
  BY <1>1, <1>2, <1>3, <1>4, Underway

\* The wait: select! and its branches.
LEMMA SelectKeeps ==
  ASSUME RunInv,
         \/ Run!CreateNotified \/ Run!Look \/ Run!StillPending \/ Run!PollTimer
         \/ Run!PollChild \/ Run!Repoll
  PROVE  RunInv'
<1>1. UNCHANGED <<timer, use, revokedUse, result, runFaults>> /\ Run!TypeOK
  BY DEF Run!CreateNotified, Run!Look, Run!StillPending, Run!PollTimer, Run!PollChild,
         Run!Repoll, Run!store, RunInv, Run!RunSafe
<1>2. /\ pc \in {"select", "look"}
      /\ pc' \in {"select", "look", "terminate", "kill", "abandon"}
      /\ pc' = "kill" => child' = "reaped"
      /\ child' \in {child, "reaped"}
  BY DEF Run!CreateNotified, Run!Look, Run!StillPending, Run!PollTimer, Run!PollChild,
         Run!Repoll, Run!process
<1>3. branch' \in 1..6
  BY <1>1, RunTypes DEF Run!CreateNotified, Run!Look, Run!StillPending, Run!PollTimer,
     Run!PollChild, Run!Repoll, RunInv, LookInv
<1>4. /\ token' \in [Run!Tokens -> [flag : BOOLEAN, told : BOOLEAN,
                                    waiter : {"none", "created", "notified"}]]
      /\ \A t \in Run!Tokens : token'[t].flag = token[t].flag
  <2>1. CASE Run!CreateNotified
    <3>1. PICK p : p = Run!Polled
      OBVIOUS
    <3>2. token' = [token EXCEPT ![p].waiter = "created"]
      BY <2>1, <3>1 DEF Run!CreateNotified
    <3> QED
      BY <1>1, <3>2, RunTypes
  <2>2. CASE ~Run!CreateNotified
    <3>1. token' = token
      BY <2>2 DEF Run!Look, Run!StillPending, Run!PollTimer, Run!PollChild, Run!Repoll
    <3> QED
      BY <1>1, <3>1, RunTypes
  <2> QED
    BY <2>1, <2>2
<1>5. Run!TypeOK'
  BY <1>1, <1>2, <1>3, <1>4, RunTypes DEF Run!TypeOK, Uses, Run!Dispositions
<1>6. /\ kind' \in Kinds
      /\ kind' \in Run!Tokens => token[kind'].flag = TRUE
      /\ kind' = "timedOut" => timer = TRUE
  <2>1. CASE Run!Look
    <3>1. PICK p : p = Run!Polled
      OBVIOUS
    <3>2. p \in Run!Tokens
      BY <1>1, <2>1, <3>1, RunTypes DEF Run!Polled, Run!Branches, Run!Tokens, RunInv, LookInv, Run!Look
    <3>3. kind' = kind \/ (kind' = p /\ token[p].flag)
      BY <2>1, <3>1 DEF Run!Look
    <3> QED
      BY <1>1, <3>2, <3>3, RunTypes DEF RunInv, KindInv, Kinds, Run!Tokens
  <2>2. CASE ~Run!Look
    <3>1. kind' = kind \/ kind' \in {"error", "exited"} \/ (timer /\ kind' = "timedOut")
      BY <2>2 DEF Run!CreateNotified, Run!StillPending, Run!PollTimer, Run!PollChild, Run!Repoll
    <3> QED
      BY <3>1 DEF RunInv, KindInv, Kinds, Run!Tokens
  <2> QED
    BY <2>1, <2>2
<1>7. ProcessInv' /\ timer' \in BOOLEAN
  BY <1>1, <1>2 DEF RunInv, ProcessInv
<1>8. LookInv'
  <2>1. CASE Run!CreateNotified
    BY <1>1, <2>1, RunTypes DEF LookInv, Run!CreateNotified
  <2>2. CASE ~Run!CreateNotified
    <3>1. pc' = "look" => pc = "look" /\ branch' = branch
      BY <2>2 DEF Run!Look, Run!StillPending, Run!PollTimer, Run!PollChild, Run!Repoll
    <3> QED
      BY <3>1 DEF LookInv, RunInv
  <2> QED
    BY <2>1, <2>2
<1> QED
  BY <1>1, <1>2, <1>4, <1>5, <1>6, <1>7, <1>8, Underway

\* The end of the processes, and a future that is dropped.
LEMMA EndKeeps ==
  ASSUME RunInv, Run!Terminate \/ Run!Kill \/ Run!DropFuture
  PROVE  RunInv'
<1>1. UNCHANGED <<branch, token, timer, use, revokedUse, result, runFaults>>
  BY DEF Run!Terminate, Run!Kill, Run!DropFuture, Run!store
<1>2. /\ pc \in {"terminate", "kill", "select"} /\ pc' \in {"kill", "abandon", "finish", "drop"}
      /\ child' \in {child, "reaped", "exited"}
      /\ pc' = "kill" => child' = "reaped"
      /\ pc' = "finish" => pc = "kill" /\ child' = child /\ group' = FALSE
      /\ kind' \in {kind, "error"}
  BY DEF Run!Terminate, Run!Kill, Run!DropFuture
<1>3. Run!TypeOK'
  BY <1>1, <1>2, RunTypes DEF RunInv, Run!RunSafe, Run!TypeOK
<1>4. ProcessInv' /\ LookInv' /\ timer' \in BOOLEAN
  BY <1>1, <1>2 DEF RunInv, ProcessInv, LookInv
<1>5. /\ kind' \in Kinds
      /\ kind' \in Run!Tokens => token[kind'].flag = TRUE
      /\ kind' = "timedOut" => timer = TRUE
  BY <1>2 DEF RunInv, KindInv, Kinds, Run!Tokens
<1> QED
  BY <1>1, <1>2, <1>3, <1>4, <1>5, Underway

\* A write of the store, with its two ways to fail.
LEMMA WriteFacts ==
  ASSUME Run!RunAssumption, runFaults \in 0..RunFaults, NEW u, NEW good, NEW bad, Run!Write(u, good, bad)
  PROVE  /\ use' \in {use, u} /\ runFaults' \in 0..RunFaults
         /\ \/ pc' = good /\ use' = u /\ runFaults' = runFaults
            \/ pc' = bad /\ runFaults' > 0
BY DEF Run!Write, Run!Faulty, Run!RunAssumption

\* A completion with a disposition begins, is resumed, is there already, or
\* is refused.
LEMMA BeginFacts ==
  ASSUME Run!RunAssumption, RunInv, NEW d \in {"finished", "abandoned"},
         NEW commit, NEW good, NEW bad, Run!BeginCompletion(d, commit, good, bad)
  PROVE  /\ use' \in Uses /\ runFaults' \in 0..RunFaults /\ runFaults' >= runFaults
         /\ use # Run!Active => use' = use
         /\ revokedUse => use' = use
         /\ \/ pc' = commit /\ use' = Run!Completing(d)
            \/ pc' = good /\ use' = Run!Ended(d)
            \/ pc' = bad /\ (use' # Run!Active \/ runFaults' > 0)
<1>1. use \in Uses /\ runFaults \in 0..RunFaults /\ RunFaults \in Nat
  BY RunTypes DEF RunInv, Run!RunSafe, Run!RunAssumption
<1>2. Run!Completing(d) \in Uses /\ Run!Ended(d) \in Uses
  BY DEF Uses
<1>3. CASE use = Run!Active /\ ~revokedUse /\ Run!Write(Run!Completing(d), commit, bad)
  <2>1. /\ use' \in {use, Run!Completing(d)} /\ runFaults' \in 0..RunFaults
        /\ \/ pc' = commit /\ use' = Run!Completing(d) /\ runFaults' = runFaults
           \/ pc' = bad /\ runFaults' > 0
    BY <1>1, <1>3, WriteFacts
  <2>2. runFaults' >= runFaults
    BY <1>1, <1>3 DEF Run!Write, Run!Faulty
  <2> QED
    BY <1>1, <1>2, <1>3, <2>1, <2>2
<1>4. CASE ~(use = Run!Active /\ ~revokedUse /\ Run!Write(Run!Completing(d), commit, bad))
  <2>1. /\ UNCHANGED <<use, runFaults>>
        /\ \/ use = Run!Completing(d) /\ pc' = commit
           \/ use = Run!Ended(d) /\ pc' = good
           \/ (revokedUse \/ use # Run!Active) /\ pc' = bad
    BY <1>4 DEF Run!BeginCompletion
  <2>2. revokedUse => use # Run!Active
    BY DEF RunInv, UseInv
  <2> QED
    BY <1>1, <2>1, <2>2
<1> QED
  BY <1>3, <1>4 DEF Run!BeginCompletion

LEMMA CommitFacts ==
  ASSUME Run!RunAssumption, RunInv, NEW d \in {"finished", "abandoned"},
         NEW good, NEW bad, Run!CommitCompletion(d, good, bad)
  PROVE  /\ use' \in Uses /\ runFaults' \in 0..RunFaults /\ runFaults' >= runFaults
         /\ use' # Run!Active
         /\ \/ pc' = good /\ use' = Run!Ended(d)
            \/ pc' = bad
<1>1. use \in Uses /\ runFaults \in 0..RunFaults /\ RunFaults \in Nat
  BY RunTypes DEF RunInv, Run!RunSafe, Run!RunAssumption
<1>2. /\ Run!Completing(d) \in Uses /\ Run!Ended(d) \in Uses
      /\ Run!Completing(d) # Run!Active /\ Run!Ended(d) # Run!Active
  BY UsesDiffer DEF Uses
<1>3. CASE use = Run!Completing(d) /\ Run!Write(Run!Ended(d), good, bad)
  <2>1. /\ use' \in {use, Run!Ended(d)} /\ runFaults' \in 0..RunFaults
        /\ \/ pc' = good /\ use' = Run!Ended(d) /\ runFaults' = runFaults
           \/ pc' = bad /\ runFaults' > 0
    BY <1>1, <1>3, WriteFacts
  <2>2. runFaults' >= runFaults
    BY <1>1, <1>3 DEF Run!Write, Run!Faulty
  <2> QED
    BY <1>1, <1>2, <1>3, <2>1, <2>2
<1>4. CASE use = Run!Ended(d) /\ pc' = good /\ UNCHANGED <<use, runFaults>>
  BY <1>1, <1>2, <1>4
<1> QED
  BY <1>3, <1>4 DEF Run!CommitCompletion

\* The guard: finish, abandon and Drop.
LEMMA GuardKeeps ==
  ASSUME Run!RunAssumption, RunInv, Run!Finish \/ Run!Abandon \/ Run!Drop
  PROVE  RunInv'
<1>1. /\ UNCHANGED <<branch, token, timer, child, group, kind, revokedUse, result>>
      /\ pc \in {"finish", "commitFinish", "abandon", "commitAbandon", "drop", "commitDrop"}
  BY DEF Run!Finish, Run!Abandon, Run!Drop, Run!process
<1>2. /\ use' \in Uses /\ runFaults' \in 0..RunFaults
      /\ use # Run!Active => use' # Run!Active
  BY BeginFacts, CommitFacts DEF Run!Finish, Run!Abandon, Run!Drop
<1>3. /\ pc' \in {"commitFinish", "ok", "drop", "commitAbandon", "commitDrop", "failed"}
      /\ pc' \in {"commitFinish", "ok"} => pc \in {"finish", "commitFinish"}
      /\ pc' = "commitFinish" => use' = Run!Completing("finished")
      /\ pc' \in {"commitAbandon", "commitDrop"} => use' = Run!Completing("abandoned")
      /\ pc' = "ok" => use' = Run!Ended("finished")
      /\ pc' = "failed" => use' # Run!Active \/ runFaults' > 0
  <2>1. CASE Run!Finish
    <3>1. CASE Run!BeginCompletion("finished", "commitFinish", "ok", "drop")
      BY <2>1, <3>1, BeginFacts DEF Run!Finish
    <3>2. CASE Run!CommitCompletion("finished", "ok", "drop")
      BY <2>1, <3>2, CommitFacts DEF Run!Finish
    <3> QED
      BY <2>1, <3>1, <3>2 DEF Run!Finish
  <2>2. CASE Run!Abandon
    <3>1. CASE Run!BeginCompletion("abandoned", "commitAbandon", "failed", "drop")
      BY <2>2, <3>1, BeginFacts, UsesDiffer DEF Run!Abandon
    <3>2. CASE Run!CommitCompletion("abandoned", "failed", "drop")
      BY <2>2, <3>2, CommitFacts DEF Run!Abandon
    <3> QED
      BY <2>2, <3>1, <3>2 DEF Run!Abandon
  <2>3. CASE Run!Drop
    <3>1. CASE Run!BeginCompletion("abandoned", "commitDrop", "failed", "failed")
      BY <2>3, <3>1, BeginFacts, UsesDiffer DEF Run!Drop
    <3>2. CASE Run!CommitCompletion("abandoned", "failed", "failed")
      BY <2>3, <3>2, CommitFacts DEF Run!Drop
    <3> QED
      BY <2>3, <3>1, <3>2 DEF Run!Drop
  <2> QED
    BY <2>1, <2>2, <2>3
<1>4. Run!TypeOK'
  BY <1>1, <1>2, <1>3, RunTypes DEF RunInv, Run!RunSafe, Run!TypeOK, Uses, Run!Dispositions
<1>5. ProcessInv' /\ LookInv' /\ KindInv' /\ timer' \in BOOLEAN
  BY <1>1, <1>3 DEF RunInv, ProcessInv, LookInv, KindInv
<1>6. UseInv'
  BY <1>1, <1>2, <1>3, UsesDiffer DEF RunInv, UseInv
<1>7. Run!OutcomeIsDurable' /\ Run!UseIsEnded'
  BY <1>1, <1>3 DEF RunInv, KindInv, Run!OutcomeIsDurable, Run!UseIsEnded
<1> QED
  BY <1>4, <1>5, <1>6, <1>7 DEF RunInv, Run!RunSafe

LEMMA ReturnKeeps ==
  ASSUME RunInv, Run!Return
  PROVE  RunInv' /\ Run!OutcomeStep
<1>1. /\ UNCHANGED <<branch, token, timer, child, group, kind, use, revokedUse, runFaults>>
      /\ pc \in {"ok", "failed"} /\ pc' = "done"
      /\ result' = IF pc = "ok" THEN kind ELSE "error"
  BY DEF Run!Return, Run!process, Run!store
<1>2. result' \in Kinds
  BY <1>1 DEF RunInv, KindInv, Kinds
<1>3. Run!TypeOK'
  BY <1>1, <1>2, RunTypes DEF RunInv, Run!RunSafe, Run!TypeOK, Kinds
<1>4. ProcessInv' /\ LookInv' /\ KindInv' /\ UseInv' /\ timer' \in BOOLEAN
  BY <1>1 DEF RunInv, ProcessInv, LookInv, KindInv, UseInv
<1>5. Run!OutcomeIsDurable' /\ Run!UseIsEnded'
  BY <1>1, UsesDiffer DEF RunInv, ProcessInv, UseInv, Run!OutcomeIsDurable, Run!UseIsEnded
<1>6. Run!OutcomeStep
  BY <1>1 DEF RunInv, KindInv, Run!OutcomeStep, Run!Tokens
<1> QED
  BY <1>3, <1>4, <1>5, <1>6 DEF RunInv, Run!RunSafe

\* What others do: the lease is revoked, a token is set and its waiters told,
\* time passes, the child exits.
LEMMA OthersKeep ==
  ASSUME RunInv,
         \/ Run!RevokeLease \/ Run!Elapse \/ Run!Exit
         \/ \E t \in Run!Tokens : Run!Cancel(t) \/ Run!Notify(t)
  PROVE  RunInv'
<1>0. revokedUse => use # Run!Active
  BY DEF RunInv, UseInv
<1>1. /\ UNCHANGED <<pc, branch, kind, result, runFaults>>
      /\ use' = use \/ (use = Run!Active /\ use' = Run!Ended("abandoned"))
      /\ revokedUse' => use' = Run!Ended("abandoned") \/ use # Run!Active
      /\ timer' = timer \/ timer' = TRUE
      /\ UNCHANGED <<child, group>> \/ (child = "running" /\ child' = "exited")
  <2>1. CASE Run!RevokeLease
    BY <2>1 DEF Run!RevokeLease, Run!process
  <2>2. CASE Run!Elapse \/ Run!Exit
    <3>1. /\ UNCHANGED <<pc, branch, kind, result, runFaults, use, revokedUse>>
          /\ timer' = timer \/ timer' = TRUE
          /\ UNCHANGED <<child, group>> \/ (child = "running" /\ child' = "exited")
      BY <2>2 DEF Run!Elapse, Run!Exit, Run!process, Run!store
    <3>2. revokedUse' <=> revokedUse
      BY <3>1
    <3> QED
      BY <1>0, <3>1, <3>2
  <2>3. CASE \E t \in Run!Tokens : Run!Cancel(t) \/ Run!Notify(t)
    <3>1. UNCHANGED <<pc, branch, kind, result, runFaults, use, revokedUse, timer, child, group>>
      BY <2>3 DEF Run!Cancel, Run!Notify, Run!process, Run!store
    <3>2. revokedUse' <=> revokedUse
      BY <3>1
    <3> QED
      BY <1>0, <3>1, <3>2
  <2> QED
    BY <2>1, <2>2, <2>3
<1>2. /\ token' \in [Run!Tokens -> [flag : BOOLEAN, told : BOOLEAN,
                                    waiter : {"none", "created", "notified"}]]
      /\ \A t \in Run!Tokens : token[t].flag = TRUE => token'[t].flag = TRUE
  <2>0. token \in [Run!Tokens -> [flag : BOOLEAN, told : BOOLEAN,
                                  waiter : {"none", "created", "notified"}]]
    BY RunTypes DEF RunInv, Run!RunSafe
  <2>1. ASSUME NEW t \in Run!Tokens, Run!Cancel(t)
        PROVE  <1>2!1 /\ <1>2!2
    <3>1. token' = [token EXCEPT ![t].flag = TRUE]
      BY <2>1 DEF Run!Cancel
    <3> QED
      BY <2>0, <3>1
  <2>2. ASSUME NEW t \in Run!Tokens, Run!Notify(t)
        PROVE  <1>2!1 /\ <1>2!2
    <3>1. PICK x \in {token[t].waiter, "notified"} :
             token' = [token EXCEPT ![t].told = TRUE, ![t].waiter = x]
      BY <2>2 DEF Run!Notify
    <3>2. token[t].waiter \in {"none", "created", "notified"}
      BY <2>0
    <3>3. x \in {"none", "created", "notified"}
      BY <3>1, <3>2
    <3> DEFINE mid == [token EXCEPT ![t].told = TRUE]
    <3>4. mid \in [Run!Tokens -> [flag : BOOLEAN, told : BOOLEAN,
                                  waiter : {"none", "created", "notified"}]]
          /\ \A r \in Run!Tokens : mid[r].flag = token[r].flag
      BY <2>0
    <3>5. token' = [mid EXCEPT ![t].waiter = x]
      BY <3>1
    <3> HIDE DEF mid
    <3> QED
      BY <2>0, <3>3, <3>4, <3>5
  <2>3. CASE token' = token
    BY <2>0, <2>3
  <2> QED
    BY <2>1, <2>2, <2>3 DEF Run!RevokeLease, Run!Elapse, Run!Exit
<1>3. use' \in Uses
  BY <1>1, RunTypes DEF RunInv, Run!RunSafe, Uses
<1>4. Run!TypeOK'
  BY <1>1, <1>2, <1>3, RunTypes DEF RunInv, Run!RunSafe, Run!TypeOK, Uses, Run!Dispositions
<1>5. ProcessInv' /\ LookInv' /\ KindInv' /\ timer' \in BOOLEAN
  BY <1>1, <1>2 DEF RunInv, ProcessInv, LookInv, KindInv
<1>6. UseInv'
  BY <1>1, UsesDiffer DEF RunInv, UseInv
<1>7. Run!OutcomeIsDurable' /\ Run!UseIsEnded'
  BY <1>1, UsesDiffer DEF RunInv, Run!RunSafe, Run!OutcomeIsDurable, Run!UseIsEnded
<1> QED
  BY <1>4, <1>5, <1>6, <1>7 DEF RunInv, Run!RunSafe

LEMMA RunStep ==
  ASSUME Run!RunAssumption, RunInv, [Run!Next]_(Run!vars)
  PROVE  RunInv' /\ Run!OutcomeStep
<1>1. CASE Run!Return
  BY <1>1, ReturnKeeps
<1>2. CASE Run!Done \/ UNCHANGED Run!vars
  <2>1. UNCHANGED <<pc, branch, token, timer, child, group, kind, use, revokedUse, result, runFaults>>
    BY <1>2 DEF Run!Done, Run!vars, Run!process, Run!store
  <2>2. Run!TypeOK'
    BY <2>1, RunTypes DEF RunInv, Run!RunSafe, Run!TypeOK, Uses, Run!Dispositions
  <2>3. ProcessInv' /\ LookInv' /\ KindInv' /\ UseInv' /\ timer' \in BOOLEAN
    BY <2>1 DEF RunInv, ProcessInv, LookInv, KindInv, UseInv
  <2>4. Run!OutcomeIsDurable' /\ Run!UseIsEnded'
    BY <2>1 DEF RunInv, Run!RunSafe, Run!OutcomeIsDurable, Run!UseIsEnded
  <2>5. Run!OutcomeStep
    BY <2>1 DEF Run!OutcomeStep
  <2> QED
    BY <2>2, <2>3, <2>4, <2>5 DEF RunInv, Run!RunSafe
<1>3. CASE Run!Next /\ ~Run!Return /\ ~Run!Done
  <2>1. RunInv'
    BY <1>3, StartKeeps, SelectKeeps, EndKeeps, GuardKeeps, OthersKeep DEF Run!Next, Run!Run
  <2>2. result' = result
    BY <1>3 DEF Run!Next, Run!Run, Run!Build, Run!Check, Run!Spawn, Run!CreateNotified, Run!Look,
       Run!StillPending, Run!PollTimer, Run!PollChild, Run!Repoll, Run!Terminate, Run!Kill,
       Run!Finish, Run!Abandon, Run!Drop, Run!RevokeLease, Run!Cancel, Run!Notify, Run!Elapse,
       Run!Exit, Run!DropFuture
  <2> QED
    BY <2>1, <2>2 DEF Run!OutcomeStep
<1> QED
  BY <1>1, <1>2, <1>3

\* An outcome that execute returns is in the store as a finished use and its
\* processes are gone; no end of a run leaves its use active unless a write of
\* the store failed: wherever writes fail, the lease is revoked, a token is
\* set, the child exits or the caller drops the future.
THEOREM RunsAreSafe ==
  ASSUME Run!RunAssumption
  PROVE  Run!Spec => []Run!RunSafe
<1>1. Run!Init => RunInv
  BY RunInit
<1>2. RunInv /\ [Run!Next]_(Run!vars) => RunInv'
  BY RunStep
<1>3. RunInv => Run!RunSafe
  BY DEF RunInv
<1> QED
  BY <1>1, <1>2, <1>3, PTL DEF Run!Spec

\* What the returned outcome names has happened: the token that is said to have
\* stopped the run was set, the time that is said to have run out had, however
\* select! and the cancellations interleave.
THEOREM RunOutcomesAreTrue ==
  ASSUME Run!RunAssumption
  PROVE  Run!Spec => Run!OutcomeIsTrue
<1>1. Run!Init => RunInv
  BY RunInit
<1>2. RunInv /\ [Run!Next]_(Run!vars) => RunInv'
  BY RunStep
<1>3. RunInv /\ [Run!Next]_(Run!vars) => [Run!OutcomeStep]_(Run!vars)
  BY RunStep
<1> QED
  BY <1>1, <1>2, <1>3, PTL DEF Run!Spec, Run!OutcomeIsTrue

-----------------------------------------------------------------------------
(* The audit log that a run writes its events to, for any writers, deaths,   *)
(* failing calls and power losses.  Only the writer with the lock is in      *)
(* write_event (AloneInv), StepOf says what it knows of the log, and the     *)
(* lines an fsync has covered stay (DurableStays).  The chain is a property  *)
(* of sequences of lines (Chained): a line that Follows keeps it, and so     *)
(* does cutting the log short.                                               *)

CONSTANTS Writers, MaxEvents, MaxAuditFaults, LogReadFails, Reorders

VARIABLES log, synced, dir, maybe, writer, lock, events, acked, settled, verifier, auditFaults

Audit == INSTANCE AuditLog WITH faults <- auditFaults, MaxFaults <- MaxAuditFaults

AuditPhases == {"idle", "key", "publish", "keysync", "marker", "markersync", "markerdir", "read",
                "append", "appendsync", "appenddir", "head", "headsync"}

WriterTypes == [pc : AuditPhases, required : BOOLEAN, signed : BOOLEAN, created : BOOLEAN,
                line : Audit!Lines]

\* A line and what may have become of it: only its newline changes.
SameLine(l, k) == k.kind = l.kind /\ k.seq = l.seq /\ k.prev = l.prev /\ k.id = l.id

\* The lines of s are the first lines of t.
Keeps(s, t) == Len(s) <= Len(t) /\ \A i \in 1..Len(s) : SameLine(s[i], t[i])

\* The last place of S.
IsLast(m, S) == m \in S /\ \A k \in S : k <= m

\* What line l has to say to be the next signed one after s.
Follows(s, l) ==
    /\ Audit!Signed(s) = {} => l.prev = Audit!Genesis /\ l.seq \in {0, 1}
    /\ \A m \in Audit!Signed(s) : IsLast(m, Audit!Signed(s)) => l.prev = s[m].id /\ l.seq = s[m].seq + 1

\* Each signed line follows those before it.
Chained(s) ==
    \A i \in Audit!Signed(s) :
        /\ (\A j \in Audit!Signed(s) : ~(j < i)) => s[i].prev = Audit!Genesis /\ s[i].seq \in {0, 1}
        /\ \A j \in Audit!Signed(s) :
              j < i /\ (\A k \in Audit!Signed(s) : ~(j < k /\ k < i)) =>
                  s[i].prev = s[j].id /\ s[i].seq = s[j].seq + 1

\* A set of places that is not empty has a last one, and Max finds it.
LEMMA MaxIsLast ==
  ASSUME NEW n \in Nat, NEW S \in SUBSET (1..n), S # {}
  PROVE  IsLast(Audit!Max(S), S)
<1> DEFINE left == {n - i : i \in S}
<1>1. left \subseteq Nat /\ left # {}
  <2>1. \A i \in S : i \in 1..n
    OBVIOUS
  <2>2. \A i \in S : n - i \in Nat
    BY <2>1
  <2> QED BY <2>2
<1>2. PICK m \in left : \A k \in left : ~(<<k, m>> \in OpToRel(<, Nat))
  <2> HIDE DEF left
  <2> QED BY <1>1, WFMin, NatLessThanWellFounded, Zenon
<1>3. \A k \in left : ~(k < m)
  <2> HIDE DEF left
  <2> QED BY <1>1, <1>2 DEF OpToRel
<1>4. PICK i \in S : m = n - i
  OBVIOUS
<1>5. \A j \in S : i >= j
  <2> TAKE j \in S
  <2>1. n - j \in left
    OBVIOUS
  <2>2. ~(n - j < n - i)
    BY <1>3, <1>4, <2>1
  <2> QED BY <2>2
<1>6. \E x \in S : \A y \in S : x >= y
  BY <1>5
<1>7. Audit!Max(S) \in S /\ \A y \in S : Audit!Max(S) >= y
  BY <1>6 DEF Audit!Max
<1> QED BY <1>7 DEF IsLast

\* The places of the signed lines.
LEMMA SignedPlaces ==
  ASSUME NEW s \in Seq(Audit!Lines)
  PROVE  /\ Len(s) \in Nat /\ Audit!Signed(s) \in SUBSET (1..Len(s))
         /\ \A i \in 1..Len(s) : s[i] \in Audit!Lines
BY DEF Audit!Signed

\* What is read back of a log: the last signed line.
LEMMA LastIsRead ==
  ASSUME NEW s \in Seq(Audit!Lines)
  PROVE  /\ Audit!LastHmac(s) \in Nat /\ Audit!LastSeq(s) \in Nat
         /\ Audit!Signed(s) = {} => Audit!LastHmac(s) = Audit!Genesis /\ Audit!LastSeq(s) = 0
         /\ \A m \in Audit!Signed(s) : IsLast(m, Audit!Signed(s)) =>
               /\ Audit!LastHmac(s) = s[m].id
               /\ s[m].seq > 0 \/ Chained(s) => Audit!LastSeq(s) = s[m].seq
<1> DEFINE S == Audit!Signed(s)
           Q == {i \in S : s[i].seq > 0}
<1>1. /\ Len(s) \in Nat /\ S \in SUBSET (1..Len(s)) /\ Q \in SUBSET (1..Len(s))
      /\ \A i \in 1..Len(s) : s[i] \in Audit!Lines
  BY SignedPlaces
<1>2. /\ Audit!LastHmac(s) = (IF S = {} THEN Audit!Genesis ELSE s[Audit!Max(S)].id)
      /\ Audit!LastSeq(s) = (IF Q = {} THEN 0 ELSE s[Audit!Max(Q)].seq)
  BY DEF Audit!LastHmac, Audit!LastSeq
<1>3. /\ S # {} => IsLast(Audit!Max(S), S)
      /\ Q # {} => IsLast(Audit!Max(Q), Q)
  <2> HIDE DEF S, Q
  <2> QED BY <1>1, MaxIsLast
<1>4. \A l \in Audit!Lines : l.id \in Nat /\ l.seq \in Nat
  BY DEF Audit!Lines
<1>5. Audit!LastHmac(s) \in Nat /\ Audit!LastSeq(s) \in Nat
  BY <1>1, <1>2, <1>3, <1>4 DEF IsLast, Audit!Genesis
<1>6. S = {} => Audit!LastHmac(s) = Audit!Genesis /\ Audit!LastSeq(s) = 0
  BY <1>2
<1>7. ASSUME NEW m \in S, IsLast(m, S)
      PROVE  /\ Audit!LastHmac(s) = s[m].id
             /\ s[m].seq > 0 \/ Chained(s) => Audit!LastSeq(s) = s[m].seq
  <2>1. m = Audit!Max(S) /\ m \in 1..Len(s) /\ s[m].seq \in Nat
    BY <1>1, <1>3, <1>4, <1>7 DEF IsLast
  <2>2. Audit!LastHmac(s) = s[m].id
    BY <1>2, <1>7, <2>1
  <2>3. CASE s[m].seq > 0
    <3>1. m \in Q /\ IsLast(Audit!Max(Q), Q) /\ Audit!Max(Q) \in S
      BY <1>3, <1>7, <2>3 DEF IsLast
    <3>2. Audit!Max(Q) <= m /\ m <= Audit!Max(Q) /\ Audit!Max(Q) \in 1..Len(s)
      BY <1>1, <1>7, <3>1 DEF IsLast
    <3>3. Audit!Max(Q) = m
      <4> HIDE DEF Q
      <4> QED BY <2>1, <3>2
    <3> QED BY <1>2, <2>2, <3>1, <3>3
  <2>4. CASE ~(s[m].seq > 0) /\ Chained(s)
    <3>1. s[m].seq = 0
      BY <2>1, <2>4
    <3>2. ASSUME NEW j \in S, j # m PROVE FALSE
      <4> DEFINE E == {i \in S : i < m}
      <4>1. j < m /\ j \in E /\ E \in SUBSET (1..Len(s))
        BY <1>1, <1>7, <3>2 DEF IsLast
      <4>2. IsLast(Audit!Max(E), E)
        <5> HIDE DEF E
        <5> QED BY <1>1, <4>1, MaxIsLast
      <4>3. /\ Audit!Max(E) \in S /\ Audit!Max(E) < m /\ \A k \in S : ~(Audit!Max(E) < k /\ k < m)
        <5>1. \A k \in S : k < m => k <= Audit!Max(E)
          BY <4>2 DEF IsLast
        <5>2. Audit!Max(E) \in S /\ Audit!Max(E) < m /\ Audit!Max(E) \in 1..Len(s)
          BY <1>1, <4>2 DEF IsLast
        <5> HIDE DEF E
        <5> QED BY <1>1, <5>1, <5>2
      <4>4. s[m].seq = s[Audit!Max(E)].seq + 1
        <5> HIDE DEF E
        <5> QED BY <2>4, <4>3, <1>7 DEF Chained
      <4>5. s[Audit!Max(E)].seq \in Nat
        <5> HIDE DEF E
        <5> QED BY <1>1, <1>4, <4>3
      <4> HIDE DEF E
      <4> QED BY <3>1, <4>4, <4>5
    <3>3. Q = {}
      BY <3>1, <3>2
    <3> QED BY <1>2, <2>2, <3>1, <3>3
  <2> QED BY <2>2, <2>3, <2>4
<1> QED BY <1>5, <1>6, <1>7

\* The chain as the log's reader states it.
LEMMA ChainedIsUnbroken ==
  ASSUME log \in Seq(Audit!Lines), Chained(log)
  PROVE  Audit!ChainIsUnbroken
<1> SUFFICES ASSUME NEW i \in Audit!Signed(log)
             PROVE  LET earlier == {j \in Audit!Signed(log) : j < i}
                        before == log[Audit!Max(earlier)]
                    IN  IF earlier = {} THEN log[i].prev = Audit!Genesis /\ log[i].seq \in {0, 1}
                        ELSE log[i].prev = before.id /\ log[i].seq = before.seq + 1
  BY DEF Audit!ChainIsUnbroken
<1> DEFINE S == Audit!Signed(log)
           E == {j \in S : j < i}
<1>1. Len(log) \in Nat /\ S \in SUBSET (1..Len(log)) /\ E \in SUBSET (1..Len(log))
  BY SignedPlaces
<1>2. CASE E = {}
  <2>1. \A j \in S : ~(j < i)
    BY <1>2
  <2> QED BY <1>2, <2>1 DEF Chained
<1>3. CASE E # {}
  <2>1. IsLast(Audit!Max(E), E)
    <3> HIDE DEF E
    <3> QED BY <1>1, <1>3, MaxIsLast
  <2>2. \A k \in S : k < i => k <= Audit!Max(E)
    BY <2>1 DEF IsLast
  <2>3. Audit!Max(E) \in S /\ Audit!Max(E) < i /\ Audit!Max(E) \in 1..Len(log)
    BY <1>1, <2>1 DEF IsLast
  <2>4. \A k \in S : ~(Audit!Max(E) < k /\ k < i)
    <3> HIDE DEF E
    <3> QED BY <1>1, <2>2, <2>3
  <2>5. log[i].prev = log[Audit!Max(E)].id /\ log[i].seq = log[Audit!Max(E)].seq + 1
    <3> HIDE DEF E
    <3> QED BY <2>3, <2>4 DEF Chained
  <2> QED BY <1>3, <2>5
<1> QED BY <1>2, <1>3

\* A beginning of a chain is a chain.
LEMMA BeginningIsChained ==
  ASSUME NEW s \in Seq(Audit!Lines), NEW t \in Seq(Audit!Lines), Keeps(s, t), Chained(t)
  PROVE  Chained(s)
<1>1. /\ \A i \in 1..Len(s) : SameLine(s[i], t[i]) /\ i \in 1..Len(t)
      /\ Len(s) \in Nat /\ Len(t) \in Nat
  BY DEF Keeps
<1>2. \A i \in 1..Len(s) : i \in Audit!Signed(s) <=> i \in Audit!Signed(t)
  BY <1>1 DEF Audit!Signed, Audit!HasHmac, SameLine
<1>3. Audit!Signed(s) \subseteq 1..Len(s) /\ Audit!Signed(t) \subseteq 1..Len(t)
  BY SignedPlaces
<1> SUFFICES ASSUME NEW i \in Audit!Signed(s)
             PROVE  /\ (\A j \in Audit!Signed(s) : ~(j < i)) => s[i].prev = Audit!Genesis /\ s[i].seq \in {0, 1}
                    /\ \A j \in Audit!Signed(s) :
                          j < i /\ (\A k \in Audit!Signed(s) : ~(j < k /\ k < i)) =>
                              s[i].prev = s[j].id /\ s[i].seq = s[j].seq + 1
  BY DEF Chained
<1>4. i \in Audit!Signed(t) /\ i \in 1..Len(s) /\ SameLine(s[i], t[i])
  BY <1>1, <1>2, <1>3
<1>5. \A k \in Audit!Signed(t) : k < i => k \in Audit!Signed(s)
  BY <1>1, <1>2, <1>3, <1>4
<1>6. ASSUME \A j \in Audit!Signed(s) : ~(j < i) PROVE s[i].prev = Audit!Genesis /\ s[i].seq \in {0, 1}
  <2>1. \A j \in Audit!Signed(t) : ~(j < i)
    BY <1>5, <1>6
  <2>2. t[i].prev = Audit!Genesis /\ t[i].seq \in {0, 1}
    BY <1>4, <2>1 DEF Chained
  <2> QED BY <1>4, <2>2 DEF SameLine
<1>7. ASSUME NEW j \in Audit!Signed(s), j < i, \A k \in Audit!Signed(s) : ~(j < k /\ k < i)
      PROVE  s[i].prev = s[j].id /\ s[i].seq = s[j].seq + 1
  <2>1. j \in Audit!Signed(t) /\ SameLine(s[j], t[j])
    BY <1>1, <1>2, <1>3
  <2>2. \A k \in Audit!Signed(t) : ~(j < k /\ k < i)
    BY <1>5, <1>7
  <2>3. t[i].prev = t[j].id /\ t[i].seq = t[j].seq + 1
    BY <1>4, <1>7, <2>1, <2>2 DEF Chained
  <2> QED BY <1>4, <2>1, <2>3 DEF SameLine
<1> QED BY <1>6, <1>7

\* One more line that is not signed, or follows, keeps the chain.
LEMMA LongerIsChained ==
  ASSUME NEW s \in Seq(Audit!Lines), NEW t \in Seq(Audit!Lines), Keeps(s, t), Len(t) = Len(s) + 1,
         Chained(s), Audit!HasHmac(t[Len(t)]) => Follows(s, t[Len(t)])
  PROVE  Chained(t)
<1> DEFINE n == Len(s) + 1
<1>1. /\ \A i \in 1..Len(s) : SameLine(s[i], t[i])
      /\ Len(s) \in Nat /\ Len(t) \in Nat /\ Len(t) = n
  BY DEF Keeps
<1>2. \A i \in 1..Len(s) : i \in Audit!Signed(s) <=> i \in Audit!Signed(t)
  BY <1>1 DEF Audit!Signed, Audit!HasHmac, SameLine
<1>3. Audit!Signed(s) \subseteq 1..Len(s) /\ \A i \in Audit!Signed(t) : i \in Audit!Signed(s) \/ i = n
  <2>1. Audit!Signed(s) \subseteq 1..Len(s) /\ Audit!Signed(t) \subseteq 1..n
    BY <1>1, SignedPlaces
  <2> QED BY <1>1, <1>2, <2>1
<1> SUFFICES ASSUME NEW i \in Audit!Signed(t)
             PROVE  /\ (\A j \in Audit!Signed(t) : ~(j < i)) => t[i].prev = Audit!Genesis /\ t[i].seq \in {0, 1}
                    /\ \A j \in Audit!Signed(t) :
                          j < i /\ (\A k \in Audit!Signed(t) : ~(j < k /\ k < i)) =>
                              t[i].prev = t[j].id /\ t[i].seq = t[j].seq + 1
  BY DEF Chained
<1>4. CASE i \in Audit!Signed(s)
  <2>1. i \in 1..Len(s) /\ SameLine(s[i], t[i]) /\ \A k \in Audit!Signed(t) : k < i => k \in Audit!Signed(s)
    BY <1>1, <1>3, <1>4
  <2>2. \A k \in Audit!Signed(s) : k \in Audit!Signed(t) /\ SameLine(s[k], t[k])
    BY <1>1, <1>2, <1>3
  <2>3. ASSUME \A j \in Audit!Signed(t) : ~(j < i) PROVE t[i].prev = Audit!Genesis /\ t[i].seq \in {0, 1}
    <3>1. \A j \in Audit!Signed(s) : ~(j < i)
      BY <2>2, <2>3
    <3>2. s[i].prev = Audit!Genesis /\ s[i].seq \in {0, 1}
      BY <1>4, <3>1 DEF Chained
    <3> QED BY <2>1, <3>2 DEF SameLine
  <2>4. ASSUME NEW j \in Audit!Signed(t), j < i, \A k \in Audit!Signed(t) : ~(j < k /\ k < i)
        PROVE  t[i].prev = t[j].id /\ t[i].seq = t[j].seq + 1
    <3>1. j \in Audit!Signed(s) /\ SameLine(s[j], t[j]) /\ \A k \in Audit!Signed(s) : ~(j < k /\ k < i)
      BY <2>1, <2>2, <2>4
    <3>2. s[i].prev = s[j].id /\ s[i].seq = s[j].seq + 1
      BY <1>4, <2>4, <3>1 DEF Chained
    <3> QED BY <2>1, <3>1, <3>2 DEF SameLine
  <2> QED BY <2>3, <2>4
<1>5. CASE i = n
  <2>1. Audit!HasHmac(t[n]) /\ Follows(s, t[n])
    BY <1>1, <1>5 DEF Audit!Signed
  <2>2. \A k \in Audit!Signed(s) : k \in Audit!Signed(t) /\ k < n
    BY <1>1, <1>2, <1>3
  <2>3. ASSUME \A j \in Audit!Signed(t) : ~(j < i) PROVE t[i].prev = Audit!Genesis /\ t[i].seq \in {0, 1}
    <3>1. Audit!Signed(s) = {}
      BY <1>5, <2>2, <2>3
    <3> QED BY <1>5, <2>1, <3>1 DEF Follows
  <2>4. ASSUME NEW j \in Audit!Signed(t), j < i, \A k \in Audit!Signed(t) : ~(j < k /\ k < i)
        PROVE  t[i].prev = t[j].id /\ t[i].seq = t[j].seq + 1
    <3>1. j \in Audit!Signed(s) /\ j \in 1..Len(s)
      BY <1>1, <1>3, <1>5, <2>4
    <3>2. \A k \in Audit!Signed(s) : k <= j
      BY <1>1, <1>3, <1>5, <2>2, <2>4, <3>1
    <3>3. t[n].prev = s[j].id /\ t[n].seq = s[j].seq + 1
      BY <2>1, <3>1, <3>2 DEF Follows, IsLast
    <3> QED BY <1>1, <1>5, <3>1, <3>3 DEF SameLine
  <2> QED BY <2>3, <2>4
<1> QED BY <1>3, <1>4, <1>5

\* append_line leaves the lines that were there and adds one.
LEMMA AppendedIs ==
  ASSUME NEW s \in Seq(Audit!Lines), NEW l \in Audit!Lines
  PROVE  /\ Audit!Appended(s, l) \in Seq(Audit!Lines) /\ Len(Audit!Appended(s, l)) = Len(s) + 1
         /\ Keeps(s, Audit!Appended(s, l)) /\ Audit!Appended(s, l)[Len(s) + 1] = l
<1>1. CASE s # <<>> /\ ~s[Len(s)].nl
  <2> DEFINE e == [s[Len(s)] EXCEPT !.nl = TRUE]
             u == [s EXCEPT ![Len(s)] = e]
  <2>1. Len(s) \in 1..Len(s) /\ s[Len(s)] \in Audit!Lines
    BY <1>1
  <2>2. e \in Audit!Lines /\ SameLine(s[Len(s)], e)
    BY <2>1 DEF Audit!Lines, SameLine
  <2>3. u \in Seq(Audit!Lines) /\ Len(u) = Len(s) /\ \A i \in 1..Len(s) : SameLine(s[i], u[i])
    <3> HIDE DEF e
    <3> QED BY <2>1, <2>2 DEF SameLine
  <2>4. Audit!Appended(s, l) = u \o <<l>>
    BY <1>1 DEF Audit!Appended
  <2> HIDE DEF u
  <2>5. /\ u \o <<l>> \in Seq(Audit!Lines) /\ Len(u \o <<l>>) = Len(s) + 1 /\ (u \o <<l>>)[Len(s) + 1] = l
        /\ \A i \in 1..Len(s) : (u \o <<l>>)[i] = u[i]
    BY <2>3
  <2>6. Keeps(s, u \o <<l>>)
    BY <2>3, <2>5 DEF Keeps
  <2> QED BY <2>4, <2>5, <2>6
<1>2. CASE ~(s # <<>> /\ ~s[Len(s)].nl)
  <2>1. Audit!Appended(s, l) = s \o <<l>>
    BY <1>2 DEF Audit!Appended
  <2>2. /\ s \o <<l>> \in Seq(Audit!Lines) /\ Len(s \o <<l>>) = Len(s) + 1 /\ (s \o <<l>>)[Len(s) + 1] = l
        /\ \A i \in 1..Len(s) : (s \o <<l>>)[i] = s[i]
    OBVIOUS
  <2>3. Keeps(s, s \o <<l>>)
    BY <2>2 DEF Keeps, SameLine
  <2> QED BY <2>1, <2>2, <2>3
<1> QED BY <1>1, <1>2

\* The last line of a log whose line is cut short, if there is one.
Cut(t, l) == t[Len(t)].kind = "fragment" \/ SameLine(l, t[Len(t)])

\* A write that is cut short leaves the lines that were there, too.
LEMMA PartialIs ==
  ASSUME NEW s \in Seq(Audit!Lines), NEW l \in Audit!Lines, NEW t \in Audit!Partial(s, l)
  PROVE  /\ t \in Seq(Audit!Lines) /\ Keeps(s, t)
         /\ t = s \/ (Len(t) = Len(s) + 1 /\ Cut(t, l))
<1> DEFINE k == [l EXCEPT !.nl = FALSE]
<1>1. Audit!Fragment \in Audit!Lines /\ Audit!Fragment.kind = "fragment"
  BY DEF Audit!Fragment, Audit!Line, Audit!Lines, Audit!Genesis
<1>2. k \in Audit!Lines /\ SameLine(l, k)
  BY DEF Audit!Lines, SameLine
<1>3. t = s \/ t = Audit!Appended(s, Audit!Fragment) \/ t = Audit!Appended(s, k)
  BY DEF Audit!Partial
<1>4. CASE t = s
  BY <1>4 DEF Keeps, SameLine
<1>5. CASE t = Audit!Appended(s, Audit!Fragment)
  BY <1>1, <1>5, AppendedIs DEF Cut
<1>6. CASE t = Audit!Appended(s, k)
  <2> HIDE DEF k
  <2> QED BY <1>2, <1>6, AppendedIs DEF Cut
<1> QED BY <1>3, <1>4, <1>5, <1>6

\* What a power failure leaves of the log.
LEMMA LostIs ==
  ASSUME NEW s \in Seq(Audit!Lines), NEW n \in 0..Len(s), NEW t,
         t \in IF n = Len(s) THEN {s} ELSE Audit!Partial(SubSeq(s, 1, n), s[n + 1])
  PROVE  /\ t \in Seq(Audit!Lines) /\ n <= Len(t) /\ \A i \in 1..n : SameLine(s[i], t[i])
         /\ Chained(s) => Chained(t)
<1>1. CASE n = Len(s)
  BY <1>1 DEF SameLine
<1>2. CASE n # Len(s)
  <2> DEFINE u == SubSeq(s, 1, n)
  <2>1. /\ u \in Seq(Audit!Lines) /\ Len(u) = n /\ s[n + 1] \in Audit!Lines
        /\ \A i \in 1..n : u[i] = s[i]
    BY <1>2
  <2>2. t \in Audit!Partial(u, s[n + 1])
    BY <1>2
  <2> HIDE DEF u
  <2>3. /\ t \in Seq(Audit!Lines) /\ Keeps(u, t)
        /\ t = u \/ (Len(t) = n + 1 /\ Cut(t, s[n + 1]))
    BY <2>1, <2>2, PartialIs
  <2>4. n <= Len(t) /\ \A i \in 1..n : SameLine(s[i], t[i])
    BY <2>1, <2>3 DEF Keeps, SameLine
  <2>5. ASSUME Chained(s) PROVE Chained(t)
    <3>1. Keeps(u, s)
      BY <2>1 DEF Keeps, SameLine
    <3>2. Chained(u)
      BY <2>1, <2>5, <3>1, BeginningIsChained
    <3>3. CASE t = u
      BY <3>2, <3>3
    <3>4. CASE Len(t) = n + 1 /\ t[Len(t)].kind = "fragment"
      BY <2>1, <2>3, <3>2, <3>4, LongerIsChained DEF Audit!HasHmac
    <3>5. CASE Len(t) = n + 1 /\ SameLine(s[n + 1], t[n + 1])
      <4>1. Keeps(t, s)
        <5>1. Len(t) <= Len(s)
          BY <1>2, <3>5
        <5>2. \A i \in 1..Len(t) : SameLine(t[i], s[i])
          <6> TAKE i \in 1..Len(t)
          <6>1. i \in 1..n \/ i = n + 1
            BY <3>5
          <6> QED BY <2>4, <3>5, <6>1 DEF SameLine
        <5> QED BY <5>1, <5>2 DEF Keeps
      <4> QED BY <2>3, <2>5, <4>1, BeginningIsChained
    <3> QED BY <2>3, <3>3, <3>4, <3>5 DEF Cut
  <2> QED BY <2>3, <2>4, <2>5
<1> QED BY <1>1, <1>2

\* A signed line among the first n of the log.
Stored(n, e, q) == \E i \in 1..n : log[i].kind = "signed" /\ log[i].id = e /\ log[i].seq = q

\* What a writer knows at each step: r is its record.
StepOf(r) ==
    /\ r.pc \notin {"idle", "key", "publish", "keysync"} /\ r.required => r.signed
    /\ r.pc \in {"append", "appendsync", "appenddir"} =>
          r.line.kind = (IF r.signed THEN "signed" ELSE "unsigned")
    /\ r.pc \in {"append", "appendsync", "appenddir"} /\ r.signed => r.line.seq > 0
    /\ r.pc = "append" /\ r.signed /\ LogReadFails = FALSE => Follows(log, r.line)
    /\ r.pc \in {"appendsync", "appenddir", "head", "headsync"} => Len(log) > 0 /\ log[Len(log)] = r.line
    /\ r.pc \in {"appenddir", "head", "headsync"} => synced = Len(log)
    /\ r.pc \in {"head", "headsync"} => r.signed /\ r.line.kind = "signed" /\ r.line.seq > 0
    /\ r.pc = "headsync" => dir.head = [seq |-> r.line.seq, hmac |-> r.line.id]

StepsInv == \A p \in Writers : StepOf(writer[p])

\* One process at a time is in write_event.
AloneInv == \A p \in Writers : writer[p].pc # "idle" => lock = p

\* A checkpoint that may be there when the power fails has its line in a log
\* that is there; where directory changes are reordered the log may be gone.
DurableInv ==
    /\ Audit!AcknowledgedIsDurable
    /\ Reorders = FALSE => Audit!HeadNotAhead
    /\ Len(log) > 0 => dir.log

\* After a signed write the checkpoint names the last line, for good.
SettledInv ==
    settled = TRUE =>
        /\ \A p \in Writers : writer[p].pc = "idle"
        /\ synced = Len(log) /\ maybe = {dir}
        /\ Len(log) > 0 /\ log[Len(log)].kind = "signed" /\ log[Len(log)].seq > 0
        /\ dir.head = [seq |-> log[Len(log)].seq, hmac |-> log[Len(log)].id]

ChainInv == LogReadFails = FALSE => Chained(log)

AuditTypes ==
    /\ log \in Seq(Audit!Lines) /\ synced \in 0..Len(log)
    /\ dir \in Audit!Directories /\ maybe \in SUBSET Audit!Directories /\ dir \in maybe
    /\ writer \in [Writers -> WriterTypes]
    /\ lock \in Writers \cup {Audit!NoWriter}
    /\ events \in Nat /\ acked \subseteq Nat /\ settled \in BOOLEAN
    /\ verifier \in [pc : {"idle", "absent", "waiting"}, locked : BOOLEAN,
                     verdict : {"none", "clean", "dirty"}]
    /\ auditFaults \in Nat

AuditInv ==
    AuditTypes /\ AloneInv /\ StepsInv /\ DurableInv /\ SettledInv /\ ChainInv

\* The synced lines stay.
LinesStay == /\ log' \in Seq(Audit!Lines) /\ synced' \in 0..Len(log') /\ synced <= synced'
             /\ \A i \in 1..synced : SameLine(log[i], log'[i])

\* What a change may make of the directory: the log stays, and a checkpoint that
\* is new names a synced line.
NewDirectory(d) ==
    \/ d.head = dir.head /\ (dir.log => d.log)
    \/ d.log /\ Stored(synced, d.head.hmac, d.head.seq)

DirectoryStays ==
    /\ dir' \in Audit!Directories /\ maybe' \in SUBSET Audit!Directories /\ dir' \in maybe'
    /\ dir.log => dir'.log
    /\ (\A d \in maybe : d.log) => \A d \in maybe' : d.log
    /\ Reorders = FALSE => \A d \in maybe' : d \in maybe \/ NewDirectory(d)

Stays == LinesStay /\ DirectoryStays /\ (Len(log') > 0 => dir'.log)

\* ChangeDirectory and SyncDirectory are such changes.
LEMMA DirectoryChanges ==
  ASSUME AuditTypes, NEW d \in Audit!Directories, dir.log => d.log, NewDirectory(d),
         Audit!ChangeDirectory(d)
  PROVE  DirectoryStays /\ dir' = d
<1> DEFINE more == maybe \cup {d}
<1>1. more \in SUBSET Audit!Directories /\ dir \in more /\ d \in more /\ dir' = d
  BY DEF AuditTypes, Audit!ChangeDirectory
<1>2. (\A q \in maybe : q.log) => \A q \in more : q.log
  BY DEF AuditTypes
<1>3. CASE Reorders = FALSE
  <2>1. maybe' = more
    BY <1>3 DEF Audit!ChangeDirectory
  <2>2. \A q \in more : q \in maybe \/ NewDirectory(q)
    OBVIOUS
  <2> HIDE DEF more
  <2> QED BY <1>1, <1>2, <2>1, <2>2 DEF DirectoryStays
<1>4. CASE Reorders # FALSE
  <2> DEFINE all == [log : {q.log : q \in more}, key : {q.key : q \in more}, head : {q.head : q \in more}]
  <2>1. maybe' = IF Reorders THEN all ELSE more
    BY DEF Audit!ChangeDirectory
  <2> HIDE DEF more
  <2>2. /\ {q.log : q \in more} \subseteq BOOLEAN /\ {q.key : q \in more} \subseteq BOOLEAN
        /\ {q.head : q \in more} \subseteq Audit!Heads
    BY <1>1 DEF Audit!Directories
  <2>3. all \in SUBSET Audit!Directories
    BY <2>2 DEF Audit!Directories
  <2>4. d \in all
    <3>1. d = [log |-> d.log, key |-> d.key, head |-> d.head]
      BY DEF Audit!Directories
    <3>2. /\ d.log \in {q.log : q \in more} /\ d.key \in {q.key : q \in more}
          /\ d.head \in {q.head : q \in more}
      BY <1>1
    <3> QED BY <3>1, <3>2
  <2>5. (\A q \in maybe : q.log) => \A q \in all : q.log
    <3> SUFFICES ASSUME \A q \in maybe : q.log, NEW q \in all PROVE q.log
      OBVIOUS
    <3>1. PICK r \in more : q.log = r.log
      OBVIOUS
    <3> QED BY <1>2, <3>1
  <2> HIDE DEF all
  <2> QED BY <1>1, <1>2, <1>4, <2>1, <2>3, <2>4, <2>5 DEF DirectoryStays
<1> QED BY <1>1, <1>3, <1>4

LEMMA DirectorySyncs ==
  ASSUME AuditTypes, UNCHANGED <<dir, maybe>> \/ Audit!SyncDirectory
  PROVE  DirectoryStays /\ dir' = dir
BY DEF AuditTypes, Audit!SyncDirectory, DirectoryStays, NewDirectory

\* A synced line stays synced.
LEMMA StoredStays ==
  ASSUME AuditTypes, LinesStay
  PROVE  \A e, q : Stored(synced, e, q) => Stored(synced, e, q)'
<1>1. synced \in Nat /\ synced' \in Nat /\ \A i \in 1..synced : i \in 1..synced' /\ SameLine(log[i], log'[i])
  BY DEF AuditTypes, LinesStay
<1> QED BY <1>1 DEF Stored, SameLine

\* What was acknowledged is a synced line.
LEMMA AckedStays ==
  ASSUME AuditTypes, LinesStay, Audit!AcknowledgedIsDurable
  PROVE  \A e \in acked : \E i \in 1..synced' : log'[i].kind = "signed" /\ log'[i].id = e
<1>1. synced \in Nat /\ synced' \in Nat /\ \A i \in 1..synced : i \in 1..synced' /\ SameLine(log[i], log'[i])
  BY DEF AuditTypes, LinesStay
<1> QED BY <1>1 DEF SameLine, Audit!AcknowledgedIsDurable

\* So what is acknowledged and checkpointed stays durable.
LEMMA DurableStays ==
  ASSUME AuditInv, Stays,
         \/ acked' = acked
         \/ \E e \in Nat, q \in Nat : acked' = acked \cup {e} /\ Stored(synced, e, q) /\ \A d \in maybe' : d.log
  PROVE  DurableInv'
<1>1. \A e, q : Stored(synced, e, q) => Stored(synced, e, q)'
  BY StoredStays DEF AuditInv, Stays
<1>2. \A e \in acked : \E i \in 1..synced' : log'[i].kind = "signed" /\ log'[i].id = e
  BY AckedStays DEF AuditInv, Stays, DurableInv
<1>3. acked # {} => \A d \in maybe' : d.log
  BY DEF AuditInv, DurableInv, Audit!AcknowledgedIsDurable, Stays, DirectoryStays
<1>4. Audit!AcknowledgedIsDurable'
  <2>1. CASE acked' = acked
    BY <1>2, <1>3, <2>1 DEF Audit!AcknowledgedIsDurable
  <2>2. CASE \E e \in Nat, q \in Nat :
                acked' = acked \cup {e} /\ Stored(synced, e, q) /\ \A d \in maybe' : d.log
    <3>1. PICK e \in Nat, q \in Nat :
                acked' = acked \cup {e} /\ Stored(synced, e, q) /\ \A d \in maybe' : d.log
      BY <2>2
    <3>2. \E i \in 1..synced' : log'[i].kind = "signed" /\ log'[i].id = e
      BY <1>1, <3>1 DEF Stored
    <3> QED BY <1>2, <3>1, <3>2 DEF Audit!AcknowledgedIsDurable
  <2> QED BY <2>1, <2>2
<1>5. ASSUME Reorders = FALSE PROVE Audit!HeadNotAhead'
  <2>1. \A d \in maybe : d.head # Audit!NoHead => d.log /\ Stored(synced, d.head.hmac, d.head.seq)
    BY <1>5 DEF AuditInv, DurableInv, Audit!HeadNotAhead, Stored
  <2>2. dir \in maybe /\ \A d \in maybe' : d \in maybe \/ NewDirectory(d)
    BY <1>5 DEF AuditInv, AuditTypes, Stays, DirectoryStays
  <2>3. \A d \in maybe' : d.head # Audit!NoHead => d.log /\ Stored(synced, d.head.hmac, d.head.seq)
    BY <2>1, <2>2 DEF NewDirectory
  <2>4. \A d \in maybe' : d.head # Audit!NoHead => d.log /\ Stored(synced, d.head.hmac, d.head.seq)'
    BY <1>1, <2>3
  <2> QED BY <2>4 DEF Audit!HeadNotAhead, Stored
<1>6. (Len(log) > 0 => dir.log)'
  BY DEF Stays
<1> QED BY <1>4, <1>5, <1>6 DEF DurableInv

\* A step of the writer with the lock.
LEMMA WriterMoves ==
  ASSUME Audit!AuditAssumption, AuditInv, NEW p \in Writers, writer[p].pc # "idle" \/ lock = Audit!NoWriter,
         NEW a \in WriterTypes, writer' = [writer EXCEPT ![p] = a], a.pc # "idle" => lock' = p,
         StepOf(a)'
  PROVE  AloneInv' /\ StepsInv' /\ writer' \in [Writers -> WriterTypes]
<1>1. \A q \in Writers : q # p => writer[q].pc = "idle"
  BY DEF AuditInv, AloneInv, Audit!NoWriter, Audit!AuditAssumption
<1>2. \A q \in Writers : writer'[q] = IF q = p THEN a ELSE writer[q]
  BY DEF AuditInv, AuditTypes
<1>3. AloneInv'
  BY <1>1, <1>2 DEF AloneInv
<1>4. \A q \in Writers : q # p => writer'[q].pc = "idle"
  BY <1>1, <1>2
<1>5. StepsInv'
  BY <1>2, <1>4 DEF StepsInv, StepOf
<1> QED BY <1>3, <1>5 DEF AuditInv, AuditTypes

\* The other writers are idle.
LEMMA OthersRest ==
  ASSUME Audit!AuditAssumption, AuditInv, NEW p \in Writers, writer[p].pc # "idle"
  PROVE  /\ \A q \in Writers : q # p => writer[q].pc = "idle"
         /\ settled = FALSE /\ lock = p
BY DEF AuditInv, AloneInv, SettledInv, AuditTypes, Audit!AuditAssumption

\* The record of a writer that does nothing.
LEMMA IdleIs == Audit!Idle \in WriterTypes /\ Audit!Idle.pc = "idle"
BY DEF Audit!Idle, WriterTypes, AuditPhases, Audit!Marker, Audit!Line, Audit!Lines, Audit!Genesis

\* The records of the steps.
LEMMA PlaceIs ==
  ASSUME NEW r \in WriterTypes, NEW place \in AuditPhases
  PROVE  \E a \in WriterTypes :
            /\ a = [r EXCEPT !.pc = place] /\ a.pc = place
            /\ a.required = r.required /\ a.signed = r.signed /\ a.line = r.line
<1>1. [r EXCEPT !.pc = place] \in WriterTypes
  BY DEF WriterTypes
<1> QED BY <1>1 DEF WriterTypes

LEMMA SignedIs ==
  ASSUME NEW r \in WriterTypes, NEW place \in AuditPhases, NEW b \in BOOLEAN
  PROVE  \E a \in WriterTypes :
            /\ a = [r EXCEPT !.pc = place, !.signed = b] /\ a.pc = place
            /\ a.required = r.required /\ a.signed = b /\ a.line = r.line
<1>1. [r EXCEPT !.pc = place, !.signed = b] \in WriterTypes
  BY DEF WriterTypes
<1> QED BY <1>1 DEF WriterTypes

LEMMA CreatedIs ==
  ASSUME NEW r \in WriterTypes, NEW place \in AuditPhases, NEW b \in BOOLEAN
  PROVE  \E a \in WriterTypes :
            /\ a = [r EXCEPT !.pc = place, !.created = b] /\ a.pc = place
            /\ a.required = r.required /\ a.signed = r.signed /\ a.line = r.line
<1>1. [r EXCEPT !.pc = place, !.created = b] \in WriterTypes
  BY DEF WriterTypes
<1> QED BY <1>1 DEF WriterTypes

\* The lines that writers build.
LEMMA LinesAre ==
  /\ Audit!Marker \in Audit!Lines /\ ~Audit!HasHmac(Audit!Marker)
  /\ \A s \in Nat, h \in Nat, e \in Nat, k \in {"signed", "unsigned"} :
        /\ Audit!Line(k, s, h, e) \in Audit!Lines /\ Audit!Line(k, s, h, e).kind = k
        /\ Audit!Line(k, s, h, e).seq = s /\ Audit!Line(k, s, h, e).prev = h /\ Audit!Line(k, s, h, e).id = e
  /\ \A l \in Audit!Lines : l.id \in Nat /\ l.seq \in Nat
BY DEF Audit!Marker, Audit!Line, Audit!Lines, Audit!Genesis, Audit!HasHmac

\* Faults are counted.
LEMMA FaultIs == ASSUME AuditTypes, Audit!Fault PROVE auditFaults' \in Nat
BY DEF AuditTypes, Audit!Fault

\* A step inside write_event.
LEMMA Moves ==
  ASSUME Audit!AuditAssumption, AuditInv, NEW p \in Writers, writer[p].pc # "idle",
         NEW a \in WriterTypes, Audit!Onward(p, a), StepOf(a)', auditFaults' \in Nat,
         Stays, ChainInv'
  PROVE  AuditInv'
<1>1. /\ settled = FALSE /\ lock = p /\ writer' = [writer EXCEPT ![p] = a]
      /\ UNCHANGED <<lock, events, acked, settled, verifier>>
  BY OthersRest DEF Audit!Onward
<1>2. AloneInv' /\ StepsInv' /\ writer' \in [Writers -> WriterTypes]
  BY <1>1, WriterMoves
<1>3. DurableInv'
  BY <1>1, DurableStays
<1>4. SettledInv'
  BY <1>1 DEF SettledInv
<1>5. AuditTypes'
  BY <1>1, <1>2 DEF AuditInv, AuditTypes, Stays, LinesStay, DirectoryStays
<1> QED BY <1>2, <1>3, <1>4, <1>5 DEF AuditInv

\* The end of a write that did not sign, or failed: nothing is acknowledged.
LEMMA Ends ==
  ASSUME Audit!AuditAssumption, AuditInv, NEW p \in Writers, writer[p].pc # "idle",
         writer' = [writer EXCEPT ![p] = Audit!Idle], lock' = Audit!NoWriter, settled' = FALSE,
         UNCHANGED <<events, acked, verifier>>, auditFaults' \in Nat,
         Stays, ChainInv'
  PROVE  AuditInv'
<1>1. StepOf(Audit!Idle)'
  BY DEF StepOf, Audit!Idle
<1>2. AloneInv' /\ StepsInv' /\ writer' \in [Writers -> WriterTypes]
  BY <1>1, IdleIs, WriterMoves
<1>3. DurableInv'
  BY DurableStays
<1>4. SettledInv'
  BY DEF SettledInv
<1>5. AuditTypes'
  BY <1>2 DEF AuditInv, AuditTypes, Stays, LinesStay, DirectoryStays
<1> QED BY <1>2, <1>3, <1>4, <1>5 DEF AuditInv

\* A write that fails, and a key that cannot be had.
LEMMA Breaks ==
  ASSUME Audit!AuditAssumption, AuditInv, NEW p \in Writers, writer[p].pc # "idle",
         Audit!Return(p, FALSE) \/ Audit!KeyError(p) \/ Audit!LineFails(p), auditFaults' \in Nat,
         Stays, ChainInv'
  PROVE  AuditInv'
<1>1. CASE Audit!Return(p, FALSE)
  BY <1>1, Ends DEF Audit!Return
<1>2. CASE Audit!KeyError(p)
  <2>1. CASE writer[p].required = TRUE
    BY <1>1, <1>2, <2>1 DEF Audit!KeyError
  <2>2. CASE writer[p].required = FALSE
    <3>1. writer[p] \in WriterTypes /\ "read" \in AuditPhases
      BY DEF AuditInv, AuditTypes, AuditPhases
    <3>2. PICK a \in WriterTypes :
              /\ a = [writer[p] EXCEPT !.pc = "read", !.signed = FALSE]
              /\ a.pc = "read" /\ a.signed = FALSE /\ a.required = FALSE
      <4>1. \E a \in WriterTypes :
                /\ a = [writer[p] EXCEPT !.pc = "read", !.signed = FALSE] /\ a.pc = "read"
                /\ a.required = writer[p].required /\ a.signed = FALSE /\ a.line = writer[p].line
        BY <3>1, SignedIs, Zenon
      <4> QED BY <2>2, <4>1
    <3>3. Audit!Onward(p, a)
      BY <1>2, <2>2, <3>2 DEF Audit!KeyError
    <3>4. StepOf(a)'
      BY <3>2 DEF StepOf
    <3> QED BY <3>3, <3>4, Moves
  <2> QED BY <2>1, <2>2 DEF AuditInv, AuditTypes, WriterTypes
<1> QED BY <1>1, <1>2 DEF Audit!LineFails

\* A log that a step leaves alone.
LEMMA Unmoved ==
  ASSUME AuditInv, UNCHANGED <<log, synced>>, DirectoryStays
  PROVE  Stays /\ ChainInv'
<1>1. LinesStay /\ ChainInv'
  BY DEF AuditInv, AuditTypes, LinesStay, SameLine, ChainInv, Chained, Audit!Signed, Audit!HasHmac
<1>2. Len(log') > 0 => dir'.log
  BY DEF AuditInv, DurableInv, DirectoryStays
<1> QED BY <1>1, <1>2 DEF Stays

\* The next step of a writer that changes no more than its place.
LEMMA GotoIs ==
  ASSUME AuditInv, NEW p \in Writers, NEW place \in AuditPhases, Audit!Goto(p, place)
  PROVE  \E a \in WriterTypes :
            /\ a.pc = place /\ a.required = writer[p].required /\ a.signed = writer[p].signed
            /\ a.line = writer[p].line /\ Audit!Onward(p, a)
<1>1. writer[p] \in WriterTypes
  BY DEF AuditInv, AuditTypes
<1>2. PICK a \in WriterTypes :
          /\ a = [writer[p] EXCEPT !.pc = place] /\ a.pc = place
          /\ a.required = writer[p].required /\ a.signed = writer[p].signed /\ a.line = writer[p].line
  BY <1>1, PlaceIs, Zenon
<1> QED BY <1>2 DEF Audit!Goto

\* Start: a writer comes in when nobody writes.
LEMMA StartStep ==
  ASSUME Audit!AuditAssumption, AuditInv, NEW p \in Writers, NEW b \in BOOLEAN, Audit!Start(p, b)
  PROVE  AuditInv'
<1> DEFINE l == Audit!Line("unsigned", 1, Audit!Genesis, events + 1)
           a == [Audit!Idle EXCEPT !.pc = "key", !.required = b, !.line = l]
<1>1. /\ lock = Audit!NoWriter /\ lock' = p /\ events' = events + 1 /\ settled' = FALSE
      /\ writer' = [writer EXCEPT ![p] = a]
      /\ UNCHANGED <<log, synced, dir, maybe, acked, verifier, auditFaults>>
  BY DEF Audit!Start
<1>2. events \in Nat
  BY DEF AuditInv, AuditTypes
<1>3. l \in Audit!Lines
  BY <1>2, LinesAre DEF Audit!Genesis
<1>4. a \in WriterTypes /\ a.pc = "key"
  <2> HIDE DEF l
  <2> QED BY <1>3, IdleIs DEF WriterTypes, AuditPhases
<1>5. PICK r \in WriterTypes : r.pc = "key" /\ writer' = [writer EXCEPT ![p] = r]
  <2> HIDE DEF a
  <2> QED BY <1>1, <1>4
<1>6. StepOf(r)'
  BY <1>5 DEF StepOf
<1>7. AloneInv' /\ StepsInv' /\ writer' \in [Writers -> WriterTypes]
  BY <1>1, <1>5, <1>6, WriterMoves
<1>8. Stays /\ ChainInv'
  BY <1>1, Unmoved, DirectorySyncs DEF AuditInv
<1>9. DurableInv'
  BY <1>1, <1>8, DurableStays
<1>10. SettledInv'
  BY <1>1 DEF SettledInv
<1>11. AuditTypes'
  <2> HIDE DEF a
  <2>1. events' \in Nat /\ lock' \in Writers
    BY <1>1, <1>2
  <2> QED BY <1>1, <1>7, <1>8, <2>1 DEF AuditInv, AuditTypes, Stays, LinesStay, DirectoryStays
<1> QED BY <1>7, <1>8, <1>9, <1>10, <1>11 DEF AuditInv

\* The steps that have the key.
LEMMA KeySteps ==
  ASSUME Audit!AuditAssumption, AuditInv, NEW p \in Writers,
         Audit!LoadKey(p) \/ Audit!PublishKey(p) \/ Audit!SyncKey(p)
  PROVE  AuditInv'
<1>1. /\ writer[p].pc # "idle" /\ UNCHANGED <<log, synced>> /\ auditFaults \in Nat
      /\ writer[p] \in WriterTypes /\ AuditTypes
      /\ {"publish", "keysync", "read", "marker"} \subseteq AuditPhases
  BY DEF Audit!LoadKey, Audit!PublishKey, Audit!SyncKey, Audit!At, AuditInv, AuditTypes, AuditPhases
<1>2. ASSUME DirectoryStays PROVE Stays /\ ChainInv'
  BY <1>1, <1>2, Unmoved
<1>3. CASE Audit!Fault /\ Audit!KeyError(p) /\ UNCHANGED <<dir, maybe>>
  <2>1. auditFaults' \in Nat
    BY <1>1, <1>3, FaultIs
  <2> QED BY <1>1, <1>2, <1>3, <2>1, DirectorySyncs, Breaks
<1>4. ASSUME NEW place \in {"publish", "keysync"}, Audit!Goto(p, place), DirectoryStays, UNCHANGED auditFaults
      PROVE  AuditInv'
  <2>1. PICK a \in WriterTypes : a.pc = place /\ Audit!Onward(p, a)
    BY <1>1, <1>4, GotoIs
  <2>2. StepOf(a)'
    BY <2>1 DEF StepOf
  <2> QED BY <1>1, <1>2, <1>4, <2>1, <2>2, Moves
<1>5. ASSUME NEW place \in {"read", "marker"},
             Audit!Onward(p, [writer[p] EXCEPT !.pc = place, !.signed = TRUE]),
             DirectoryStays, UNCHANGED auditFaults
      PROVE  AuditInv'
  <2>1. \E a \in WriterTypes :
            /\ a = [writer[p] EXCEPT !.pc = place, !.signed = TRUE] /\ a.pc = place
            /\ a.required = writer[p].required /\ a.signed = TRUE /\ a.line = writer[p].line
    <3>1. place \in AuditPhases /\ TRUE \in BOOLEAN
      BY <1>1
    <3> QED BY <1>1, <3>1, SignedIs, Zenon
  <2>2. PICK a \in WriterTypes : a.pc = place /\ a.signed = TRUE /\ Audit!Onward(p, a)
    BY <1>5, <2>1
  <2>3. StepOf(a)'
    BY <2>2 DEF StepOf
  <2> QED BY <1>1, <1>2, <1>5, <2>2, <2>3, Moves
<1>6. CASE Audit!LoadKey(p)
  <2>1. DirectoryStays
    BY <1>1, <1>6, DirectorySyncs DEF Audit!LoadKey
  <2> QED BY <1>3, <1>4, <1>5, <1>6, <2>1 DEF Audit!LoadKey
<1>7. CASE Audit!PublishKey(p)
  <2>1. CASE /\ Audit!ChangeDirectory([dir EXCEPT !.key = TRUE]) /\ Audit!Goto(p, "keysync")
             /\ UNCHANGED auditFaults
    <3> DEFINE d == [dir EXCEPT !.key = TRUE]
    <3>1. d \in Audit!Directories /\ d.log = dir.log /\ d.head = dir.head
      BY <1>1 DEF AuditTypes, Audit!Directories
    <3> HIDE DEF d
    <3>2. NewDirectory(d)
      BY <3>1 DEF NewDirectory
    <3>3. DirectoryStays
      BY <1>1, <2>1, <3>1, <3>2, DirectoryChanges DEF d
    <3> QED BY <1>4, <2>1, <3>3
  <2> QED BY <1>3, <1>7, <2>1 DEF Audit!PublishKey
<1>8. CASE Audit!SyncKey(p)
  <2>1. CASE /\ Audit!SyncDirectory /\ UNCHANGED auditFaults
             /\ Audit!Onward(p, [writer[p] EXCEPT !.pc = "marker", !.signed = TRUE])
    BY <1>1, <1>5, <2>1, DirectorySyncs
  <2> QED BY <1>3, <1>8, <2>1 DEF Audit!SyncKey
<1> QED BY <1>6, <1>7, <1>8

\* ReadLast: the line says what it has to say to follow the log.
LEMMA ReadLastStep ==
  ASSUME Audit!AuditAssumption, AuditInv, NEW p \in Writers, Audit!ReadLast(p)
  PROVE  AuditInv'
<1>1. /\ writer[p].pc = "read" /\ UNCHANGED <<log, synced, dir, maybe>>
      /\ writer[p] \in WriterTypes /\ StepOf(writer[p]) /\ log \in Seq(Audit!Lines) /\ auditFaults \in Nat
  BY DEF Audit!ReadLast, Audit!At, AuditInv, AuditTypes, StepsInv
<1>2. PICK forHmac \in {log} \cup (IF LogReadFails THEN {<<>>} ELSE {}),
           forSeq \in {log} \cup (IF LogReadFails THEN {<<>>} ELSE {}) :
          /\ IF forHmac = log /\ forSeq = log THEN UNCHANGED auditFaults ELSE Audit!Fault
          /\ Audit!Onward(p, [writer[p] EXCEPT !.pc = "append", !.line =
                IF writer[p].signed
                THEN Audit!Line("signed", Audit!LastSeq(forSeq) + 1, Audit!LastHmac(forHmac), @.id)
                ELSE Audit!Line("unsigned", 1, Audit!Genesis, @.id)])
  BY DEF Audit!ReadLast
<1>3. /\ forHmac \in Seq(Audit!Lines) /\ forSeq \in Seq(Audit!Lines)
      /\ LogReadFails = FALSE => forHmac = log /\ forSeq = log
  <2>1. \A x \in {log} \cup (IF LogReadFails THEN {<<>>} ELSE {}) :
          x = log \/ (LogReadFails # FALSE /\ x = <<>>)
    OBVIOUS
  <2>2. <<>> \in Seq(Audit!Lines)
    OBVIOUS
  <2>3. /\ forHmac = log \/ (LogReadFails # FALSE /\ forHmac = <<>>)
        /\ forSeq = log \/ (LogReadFails # FALSE /\ forSeq = <<>>)
    BY <2>1
  <2> QED BY <1>1, <2>2, <2>3
<1>4. Audit!LastSeq(forSeq) \in Nat /\ Audit!LastHmac(forHmac) \in Nat
  BY <1>3, LastIsRead
<1> DEFINE q == Audit!LastSeq(forSeq) + 1
           h == Audit!LastHmac(forHmac)
           l == IF writer[p].signed THEN Audit!Line("signed", q, h, writer[p].line.id)
                ELSE Audit!Line("unsigned", 1, Audit!Genesis, writer[p].line.id)
           r == [writer[p] EXCEPT !.pc = "append", !.line = l]
<1>5. Audit!Onward(p, r)
  BY <1>2
<1>6. q \in Nat /\ q > 0 /\ h \in Nat
  BY <1>4
<1>7. /\ l \in Audit!Lines /\ l.kind = (IF writer[p].signed THEN "signed" ELSE "unsigned")
      /\ writer[p].signed => l.seq = q /\ l.prev = h
  <2> HIDE DEF q, h
  <2>1. writer[p].line.id \in Nat
    BY <1>1, LinesAre DEF WriterTypes
  <2>2. CASE writer[p].signed = TRUE
    <3>1. l = Audit!Line("signed", q, h, writer[p].line.id)
      BY <2>2
    <3>2. /\ Audit!Line("signed", q, h, writer[p].line.id) \in Audit!Lines
          /\ Audit!Line("signed", q, h, writer[p].line.id).kind = "signed"
          /\ Audit!Line("signed", q, h, writer[p].line.id).seq = q
          /\ Audit!Line("signed", q, h, writer[p].line.id).prev = h
      BY <1>6, <2>1 DEF Audit!Line, Audit!Lines
    <3> HIDE DEF l
    <3> QED BY <2>2, <3>1, <3>2
  <2>3. CASE writer[p].signed = FALSE
    <3>1. l = Audit!Line("unsigned", 1, Audit!Genesis, writer[p].line.id) /\ ~writer[p].signed
      BY <2>3
    <3>2. 1 \in Nat /\ Audit!Genesis \in Nat
      BY DEF Audit!Genesis
    <3> HIDE DEF l
    <3> QED BY <2>1, <3>1, <3>2 DEF Audit!Line, Audit!Lines
  <2> QED BY <1>1, <2>2, <2>3 DEF WriterTypes
<1>8. /\ r \in WriterTypes /\ r.pc = "append" /\ r.signed = writer[p].signed
      /\ r.required = writer[p].required /\ r.line = l
  <2> HIDE DEF l
  <2> QED BY <1>1, <1>7 DEF WriterTypes, AuditPhases
<1>9. ASSUME LogReadFails = FALSE, writer[p].signed PROVE Follows(log, l)
  <2>1. Chained(log) /\ q = Audit!LastSeq(log) + 1 /\ h = Audit!LastHmac(log)
    BY <1>3, <1>9 DEF AuditInv, ChainInv
  <2>2. l.seq = Audit!LastSeq(log) + 1 /\ l.prev = Audit!LastHmac(log)
    BY <1>7, <1>9, <2>1
  <2> HIDE DEF l
  <2>3. Audit!Signed(log) = {} => l.prev = Audit!Genesis /\ l.seq \in {0, 1}
    BY <1>1, <2>2, LastIsRead
  <2>4. \A m \in Audit!Signed(log) : IsLast(m, Audit!Signed(log)) =>
            l.prev = log[m].id /\ l.seq = log[m].seq + 1
    BY <1>1, <2>1, <2>2, LastIsRead
  <2> QED BY <2>3, <2>4 DEF Follows
<1>10. PICK a \in WriterTypes :
          /\ Audit!Onward(p, a) /\ a.pc = "append" /\ a.signed = writer[p].signed
          /\ a.required = writer[p].required
          /\ a.line.kind = (IF a.signed THEN "signed" ELSE "unsigned")
          /\ a.signed => a.line.seq > 0
          /\ a.signed /\ LogReadFails = FALSE => Follows(log, a.line)
  <2> HIDE DEF l, q, h
  <2>1. writer[p].signed => l.seq > 0
    BY <1>6, <1>7
  <2>2. /\ r.line.kind = (IF r.signed THEN "signed" ELSE "unsigned")
        /\ r.signed => r.line.seq > 0
        /\ r.signed /\ LogReadFails = FALSE => Follows(log, r.line)
    BY <1>7, <1>8, <1>9, <2>1
  <2> HIDE DEF r
  <2> QED BY <1>5, <1>8, <2>2
<1>11. Follows(log, a.line) => Follows(log, a.line)'
  BY <1>1 DEF Follows, Audit!Signed, Audit!HasHmac, IsLast
<1>12. StepOf(a)'
  BY <1>1, <1>10, <1>11 DEF StepOf
<1>13. auditFaults' \in Nat
  BY <1>1, <1>2, FaultIs DEF AuditInv
<1>14. Stays /\ ChainInv'
  BY <1>1, Unmoved, DirectorySyncs DEF AuditInv
<1> QED BY <1>1, <1>10, <1>12, <1>13, <1>14, Moves

\* WriteLine: the line is there, or some of it.
LEMMA WriteLineStep ==
  ASSUME Audit!AuditAssumption, AuditInv, NEW p \in Writers, Audit!WriteLine(p)
  PROVE  AuditInv'
<1> DEFINE l == IF Audit!InMarker(p) THEN Audit!Marker ELSE writer[p].line
           opened == [dir EXCEPT !.log = TRUE]
           place == IF Audit!InMarker(p) THEN "markersync" ELSE "appendsync"
<1>1. /\ writer[p].pc \in {"marker", "append"} /\ UNCHANGED synced
      /\ writer[p] \in WriterTypes /\ StepOf(writer[p]) /\ log \in Seq(Audit!Lines) /\ auditFaults \in Nat
      /\ synced \in 0..Len(log) /\ AuditTypes
      /\ Audit!InMarker(p) <=> writer[p].pc = "marker"
  BY DEF Audit!WriteLine, Audit!InMarker, AuditInv, AuditTypes, StepsInv
<1>2. l \in Audit!Lines
  BY <1>1, LinesAre DEF WriterTypes
<1>3. LogReadFails = FALSE /\ Audit!HasHmac(l) => Follows(log, l)
  <2>1. CASE Audit!InMarker(p)
    BY <2>1, LinesAre
  <2>2. CASE ~Audit!InMarker(p)
    <3>1. writer[p].pc = "append" /\ l = writer[p].line
      BY <1>1, <2>2
    <3>2. Audit!HasHmac(l) => writer[p].signed = TRUE
      BY <1>1, <3>1 DEF StepOf, Audit!HasHmac, WriterTypes
    <3> QED BY <1>1, <3>1, <3>2 DEF StepOf
  <2> QED BY <2>1, <2>2
<1>4. \/ /\ log' = Audit!Appended(log, l)
         /\ Audit!ChangeDirectory(opened)
         /\ Audit!Onward(p, [writer[p] EXCEPT !.pc = place, !.created = ~dir.log])
         /\ UNCHANGED auditFaults
      \/ /\ Audit!Fault
         /\ \/ log' \in Audit!Partial(log, l) /\ Audit!ChangeDirectory(opened)
            \/ UNCHANGED <<log, dir, maybe>>
         /\ Audit!LineFails(p)
  BY DEF Audit!WriteLine
<1> HIDE DEF l
<1>5. Audit!ChangeDirectory(opened) => DirectoryStays /\ dir'.log
  <2>1. opened \in Audit!Directories /\ opened.log = TRUE /\ opened.head = dir.head
    BY <1>1 DEF AuditTypes, Audit!Directories
  <2> HIDE DEF opened
  <2>2. NewDirectory(opened)
    BY <2>1 DEF NewDirectory
  <2> QED BY <1>1, <2>1, <2>2, DirectoryChanges
<1> HIDE DEF opened
<1>6. ASSUME NEW t \in Seq(Audit!Lines), log' = t, Keeps(log, t), DirectoryStays, dir'.log PROVE Stays
  BY <1>1, <1>6 DEF Keeps, Stays, LinesStay
<1>7. ASSUME NEW t \in Seq(Audit!Lines), log' = t, Keeps(log, t), Len(t) = Len(log) + 1, Cut(t, l)
      PROVE  ChainInv'
  <2>1. ASSUME LogReadFails = FALSE, Audit!HasHmac(t[Len(t)]) PROVE Follows(log, t[Len(t)])
    BY <1>3, <1>7, <2>1 DEF Cut, SameLine, Audit!HasHmac, Follows
  <2>2. LogReadFails = FALSE => Chained(t)
    BY <1>1, <1>7, <2>1, LongerIsChained DEF AuditInv, ChainInv
  <2>3. LogReadFails = FALSE => Chained(log')
    BY <1>7, <2>2
  <2> QED BY <2>3 DEF ChainInv, Chained, Audit!Signed, Audit!HasHmac
<1>8. CASE /\ log' = Audit!Appended(log, l)
           /\ Audit!ChangeDirectory(opened)
           /\ Audit!Onward(p, [writer[p] EXCEPT !.pc = place, !.created = ~dir.log])
           /\ UNCHANGED auditFaults
  <2>1. PICK t \in Seq(Audit!Lines) :
            /\ log' = t /\ Keeps(log, t) /\ Len(t) = Len(log) + 1
            /\ t[Len(t)] = l
    <3>1. /\ Audit!Appended(log, l) \in Seq(Audit!Lines) /\ Len(Audit!Appended(log, l)) = Len(log) + 1
          /\ Keeps(log, Audit!Appended(log, l)) /\ Audit!Appended(log, l)[Len(log) + 1] = l
      BY <1>1, <1>2, AppendedIs
    <3> QED BY <1>8, <3>1
  <2>2. Stays /\ ChainInv'
    BY <1>5, <1>6, <1>7, <1>8, <2>1 DEF Cut, SameLine
  <2>3. \E a \in WriterTypes :
            /\ a = [writer[p] EXCEPT !.pc = place, !.created = ~dir.log] /\ a.pc = place
            /\ a.required = writer[p].required /\ a.signed = writer[p].signed /\ a.line = writer[p].line
    <3>1. PICK q \in AuditPhases : q = place
      BY DEF AuditPhases
    <3>2. PICK b \in BOOLEAN : b = (~dir.log)
      BY Zenon
    <3>3. PICK r \in WriterTypes : r = writer[p]
      BY <1>1, Zenon
    <3>4. \E a \in WriterTypes :
            /\ a = [r EXCEPT !.pc = q, !.created = b] /\ a.pc = q
            /\ a.required = r.required /\ a.signed = r.signed /\ a.line = r.line
      BY CreatedIs, Zenon
    <3> HIDE DEF place
    <3> QED BY <3>1, <3>2, <3>3, <3>4, Zenon
  <2>4. PICK a \in WriterTypes :
            /\ a.pc = place /\ Audit!Onward(p, a)
            /\ a.required = writer[p].required /\ a.signed = writer[p].signed /\ a.line = writer[p].line
    BY <1>8, <2>3
  <2>5. /\ place \in {"markersync", "appendsync"}
        /\ place = "appendsync" => l = writer[p].line /\ writer[p].pc = "append"
    BY <1>1 DEF l
  <2>6. Len(log') > 0 /\ log'[Len(log')] = l
    BY <1>1, <2>1
  <2> HIDE DEF place
  <2>7. StepOf(a)'
    BY <1>1, <2>4, <2>5, <2>6 DEF StepOf
  <2> QED BY <1>1, <1>8, <2>2, <2>4, <2>7, Moves
<1>9. CASE /\ Audit!Fault /\ log' \in Audit!Partial(log, l) /\ Audit!ChangeDirectory(opened)
           /\ Audit!LineFails(p)
  <2>1. PICK t \in Seq(Audit!Lines) :
            /\ log' = t /\ Keeps(log, t)
            /\ t = log \/ (Len(t) = Len(log) + 1 /\ Cut(t, l))
    BY <1>1, <1>2, <1>9, PartialIs
  <2>2. Stays
    BY <1>5, <1>6, <1>9, <2>1
  <2>3. ChainInv'
    <3>1. CASE t = log
      BY <1>1, <1>5, <1>9, <2>1, <3>1, Unmoved
    <3> QED BY <1>7, <2>1, <3>1
  <2>4. auditFaults' \in Nat
    BY <1>1, <1>9, FaultIs
  <2> QED BY <1>1, <1>9, <2>2, <2>3, <2>4, Breaks
<1>10. CASE Audit!Fault /\ UNCHANGED <<log, dir, maybe>> /\ Audit!LineFails(p)
  <2>1. Stays /\ ChainInv' /\ auditFaults' \in Nat
    BY <1>1, <1>10, DirectorySyncs, Unmoved, FaultIs
  <2> QED BY <1>1, <1>10, <2>1, Breaks
<1> QED BY <1>4, <1>8, <1>9, <1>10

\* The end of append_line: the log is synced.
LEMMA LineDoneStep ==
  ASSUME Audit!AuditAssumption, AuditInv, NEW p \in Writers,
         writer[p].pc \in {"markersync", "markerdir", "appendsync", "appenddir"},
         Audit!LineDone(p), synced' = Len(log), UNCHANGED <<log, auditFaults>>, Stays, ChainInv'
  PROVE  AuditInv'
<1>1. /\ writer[p] \in WriterTypes /\ StepOf(writer[p]) /\ log \in Seq(Audit!Lines) /\ auditFaults \in Nat
      /\ {"read", "head"} \subseteq AuditPhases
  BY DEF AuditInv, AuditTypes, StepsInv, AuditPhases
<1>2. ASSUME NEW place \in {"read", "head"}, Audit!Goto(p, place),
             place = "head" => writer[p].pc \in {"appendsync", "appenddir"} /\ writer[p].signed
      PROVE  AuditInv'
  <2>1. PICK a \in WriterTypes :
            /\ a.pc = place /\ a.required = writer[p].required /\ a.signed = writer[p].signed
            /\ a.line = writer[p].line /\ Audit!Onward(p, a)
    BY <1>1, <1>2, GotoIs
  <2>2. StepOf(a)'
    BY <1>1, <1>2, <2>1 DEF StepOf
  <2> QED BY <1>1, <2>1, <2>2, Moves
<1>3. CASE Audit!InMarker(p)
  BY <1>2, <1>3 DEF Audit!LineDone
<1>4. CASE ~Audit!InMarker(p) /\ writer[p].signed
  BY <1>2, <1>4 DEF Audit!LineDone, Audit!InMarker
<1>5. CASE ~Audit!InMarker(p) /\ ~writer[p].signed
  <2>1. Audit!Return(p, TRUE) /\ ~writer[p].required
    BY <1>1, <1>5 DEF Audit!LineDone, StepOf
  <2>2. /\ writer' = [writer EXCEPT ![p] = Audit!Idle] /\ lock' = Audit!NoWriter /\ settled' = FALSE
        /\ UNCHANGED <<events, acked, verifier>>
    BY <1>1, <1>5, <2>1 DEF Audit!Return, WriterTypes
  <2> QED BY <1>1, <2>2, Ends
<1> QED BY <1>3, <1>4, <1>5

\* SyncLine: what is in the log is synced, and if need be the directory is next.
LEMMA SyncLineStep ==
  ASSUME Audit!AuditAssumption, AuditInv, NEW p \in Writers, Audit!SyncLine(p)
  PROVE  AuditInv'
<1>1. /\ writer[p].pc \in {"markersync", "appendsync"} /\ UNCHANGED <<log, dir, maybe>>
      /\ writer[p] \in WriterTypes /\ StepOf(writer[p]) /\ log \in Seq(Audit!Lines) /\ auditFaults \in Nat
      /\ synced \in 0..Len(log) /\ AuditTypes /\ {"markerdir", "appenddir"} \subseteq AuditPhases
      /\ Audit!InMarker(p) <=> writer[p].pc = "markersync"
  BY DEF Audit!SyncLine, Audit!InMarker, AuditInv, AuditTypes, StepsInv, AuditPhases
<1>2. ASSUME synced' = Len(log) \/ synced' = synced PROVE Stays /\ ChainInv'
  <2>1. LinesStay
    BY <1>1, <1>2 DEF LinesStay, SameLine
  <2>2. ChainInv'
    BY <1>1 DEF AuditInv, ChainInv, Chained, Audit!Signed, Audit!HasHmac
  <2>3. DirectoryStays /\ (Len(log') > 0 => dir'.log)
    BY <1>1, DirectorySyncs DEF AuditInv, DurableInv
  <2> QED BY <2>1, <2>2, <2>3 DEF Stays
<1>3. CASE synced' = Len(log) /\ Audit!LineDone(p) /\ UNCHANGED auditFaults
  BY <1>1, <1>2, <1>3, LineDoneStep
<1>4. CASE /\ synced' = Len(log) /\ UNCHANGED auditFaults
           /\ Audit!Goto(p, IF Audit!InMarker(p) THEN "markerdir" ELSE "appenddir")
  <2>1. PICK place \in {"markerdir", "appenddir"} :
          /\ Audit!Goto(p, place)
          /\ place = "appenddir" => writer[p].pc = "appendsync"
    BY <1>1, <1>4
  <2>2. PICK a \in WriterTypes :
            /\ a.pc = place /\ a.required = writer[p].required /\ a.signed = writer[p].signed
            /\ a.line = writer[p].line /\ Audit!Onward(p, a)
    BY <1>1, <2>1, GotoIs
  <2>3. StepOf(a)'
    BY <1>1, <1>4, <2>1, <2>2 DEF StepOf
  <2> QED BY <1>1, <1>2, <1>4, <2>2, <2>3, Moves
<1>5. CASE Audit!Fault /\ Audit!LineFails(p) /\ UNCHANGED synced
  <2>1. auditFaults' \in Nat
    BY <1>1, <1>5, FaultIs
  <2> QED BY <1>1, <1>2, <1>5, <2>1, Breaks
<1> QED BY <1>3, <1>4, <1>5 DEF Audit!SyncLine

\* SyncLogEntry: the entry of a log that was created is durable.
LEMMA SyncLogEntryStep ==
  ASSUME Audit!AuditAssumption, AuditInv, NEW p \in Writers, Audit!SyncLogEntry(p)
  PROVE  AuditInv'
<1>1. /\ writer[p].pc \in {"markerdir", "appenddir"} /\ UNCHANGED <<log, synced>> /\ AuditTypes
      /\ log \in Seq(Audit!Lines) /\ synced \in 0..Len(log)
  BY DEF Audit!SyncLogEntry, AuditInv, AuditTypes
<1>2. CASE Audit!Fault /\ Audit!LineFails(p) /\ UNCHANGED <<dir, maybe>>
  <2>1. Stays /\ ChainInv' /\ auditFaults' \in Nat
    BY <1>1, <1>2, DirectorySyncs, Unmoved, FaultIs
  <2> QED BY <1>1, <1>2, <2>1, Breaks
<1>3. CASE Audit!SyncDirectory /\ Audit!LineDone(p) /\ UNCHANGED auditFaults
  <2>1. Stays /\ ChainInv'
    BY <1>1, <1>3, DirectorySyncs, Unmoved
  <2>2. CASE writer[p].pc = "appenddir"
    <3>1. synced = Len(log)
      BY <2>2 DEF AuditInv, StepsInv, StepOf
    <3> QED BY <1>1, <1>3, <2>1, <2>2, <3>1, LineDoneStep
  <2>3. CASE writer[p].pc = "markerdir"
    <3>1. Audit!Goto(p, "read") /\ "read" \in AuditPhases /\ StepOf(writer[p])
      BY <1>3, <2>3 DEF Audit!LineDone, Audit!InMarker, AuditPhases, AuditInv, StepsInv
    <3>2. PICK a \in WriterTypes :
              /\ a.pc = "read" /\ a.required = writer[p].required /\ a.signed = writer[p].signed
              /\ Audit!Onward(p, a)
      BY <3>1, GotoIs
    <3>3. StepOf(a)'
      BY <2>3, <3>1, <3>2 DEF StepOf
    <3>4. auditFaults' \in Nat
      BY <1>1, <1>3 DEF AuditTypes
    <3> QED BY <2>1, <2>3, <3>2, <3>3, <3>4, Moves
  <2> QED BY <1>1, <2>2, <2>3
<1> QED BY <1>2, <1>3 DEF Audit!SyncLogEntry

\* The checkpoint is written when its line is durable, and then is settled.
LEMMA HeadSteps ==
  ASSUME Audit!AuditAssumption, AuditInv, NEW p \in Writers, Audit!PublishHead(p) \/ Audit!SyncHead(p)
  PROVE  AuditInv'
<1> DEFINE l == writer[p].line
           q == [seq |-> l.seq, hmac |-> l.id]
           d == [dir EXCEPT !.head = q]
<1>1. /\ writer[p].pc \in {"head", "headsync"} /\ UNCHANGED <<log, synced>>
      /\ writer[p] \in WriterTypes /\ StepOf(writer[p]) /\ log \in Seq(Audit!Lines) /\ auditFaults \in Nat
      /\ synced \in 0..Len(log) /\ writer[p].signed = TRUE /\ writer[p].line \in Audit!Lines
      /\ AuditTypes /\ dir \in Audit!Directories
  BY DEF Audit!PublishHead, Audit!SyncHead, Audit!At, AuditInv, AuditTypes, StepsInv, StepOf, WriterTypes
<1>2. /\ Len(log) > 0 /\ log[Len(log)] = l /\ synced = Len(log) /\ l.kind = "signed" /\ l.seq > 0
      /\ l.id \in Nat /\ l.seq \in Nat
  BY <1>1, LinesAre DEF StepOf
<1>3. Stored(synced, l.id, l.seq) /\ q \in Audit!Heads /\ q.seq = l.seq /\ q.hmac = l.id
  BY <1>1, <1>2 DEF Stored, Audit!Heads
<1>4. dir.log
  BY <1>2 DEF AuditInv, DurableInv
<1>5. CASE Audit!Fault /\ Audit!Return(p, FALSE) /\ UNCHANGED <<dir, maybe>>
  <2>1. Stays /\ ChainInv' /\ auditFaults' \in Nat
    BY <1>1, <1>5, DirectorySyncs, Unmoved, FaultIs
  <2> QED BY <1>1, <1>5, <2>1, Breaks
<1>6. CASE /\ Audit!ChangeDirectory(d) /\ Audit!Goto(p, "headsync") /\ writer[p].pc = "head"
           /\ UNCHANGED auditFaults
  <2> HIDE DEF q
  <2>1. d \in Audit!Directories /\ d.head = q /\ d.log = dir.log
    BY <1>1, <1>3 DEF Audit!Directories
  <2>2. Audit!ChangeDirectory(d)
    BY <1>6
  <2> HIDE DEF d
  <2>3. NewDirectory(d)
    BY <1>3, <1>4, <2>1 DEF NewDirectory
  <2>4. DirectoryStays /\ dir' = d
    BY <1>1, <1>4, <2>1, <2>2, <2>3, DirectoryChanges
  <2>5. Stays /\ ChainInv'
    BY <1>1, <2>4, Unmoved
  <2>6. "headsync" \in AuditPhases
    BY DEF AuditPhases
  <2>7. PICK a \in WriterTypes :
            /\ a.pc = "headsync" /\ a.required = writer[p].required /\ a.signed = writer[p].signed
            /\ a.line = writer[p].line /\ Audit!Onward(p, a)
    BY <1>6, <2>6, GotoIs
  <2>8. StepOf(a)'
    BY <1>1, <1>2, <2>1, <2>4, <2>7 DEF StepOf, q
  <2> QED BY <1>1, <1>6, <2>5, <2>7, <2>8, Moves
<1>7. CASE /\ Audit!SyncDirectory /\ Audit!Return(p, TRUE) /\ writer[p].pc = "headsync"
           /\ UNCHANGED auditFaults
  <2>1. DirectoryStays /\ dir' = dir /\ maybe' = {dir} /\ dir.head = q
    BY <1>1, <1>7, DirectorySyncs DEF Audit!SyncDirectory, StepOf
  <2>2. Stays /\ ChainInv'
    BY <1>1, <2>1, Unmoved
  <2>3. /\ writer' = [writer EXCEPT ![p] = Audit!Idle] /\ lock' = Audit!NoWriter /\ settled' = TRUE
        /\ acked' = acked \/ acked' = acked \cup {l.id}
        /\ UNCHANGED <<events, verifier>>
    BY <1>1, <1>7 DEF Audit!Return
  <2>4. StepOf(Audit!Idle)'
    BY DEF StepOf, Audit!Idle
  <2>5. AloneInv' /\ StepsInv' /\ writer' \in [Writers -> WriterTypes]
    BY <1>1, <2>3, <2>4, IdleIs, WriterMoves
  <2>6. DurableInv'
    <3>1. acked' = acked \/ \E e \in Nat, n \in Nat :
             acked' = acked \cup {e} /\ Stored(synced, e, n) /\ \A c \in maybe' : c.log
      BY <1>2, <1>3, <1>4, <2>1, <2>3
    <3> QED BY <2>2, <3>1, DurableStays
  <2>7. SettledInv'
    <3>1. \A w \in Writers : writer'[w].pc = "idle"
      <4>1. \A w \in Writers : w # p => writer[w].pc = "idle"
        BY <1>1, OthersRest
      <4> QED BY <2>3, <4>1, IdleIs DEF AuditInv, AuditTypes
    <3> QED BY <1>1, <1>2, <2>1, <3>1 DEF SettledInv
  <2>8. AuditTypes'
    <3>1. acked' \subseteq Nat
      BY <1>2, <2>3 DEF AuditInv, AuditTypes
    <3> HIDE DEF q, l, d
    <3> QED BY <1>1, <1>7, <2>1, <2>3, <2>5, <3>1 DEF AuditTypes, DirectoryStays
  <2> QED BY <2>2, <2>5, <2>6, <2>7, <2>8 DEF AuditInv
<1>8. CASE Audit!PublishHead(p)
  BY <1>5, <1>6, <1>8 DEF Audit!PublishHead, Audit!At
<1>9. CASE Audit!SyncHead(p)
  BY <1>5, <1>7, <1>9 DEF Audit!SyncHead, Audit!At
<1> QED BY <1>8, <1>9

\* A writer that dies leaves what it did.
LEMMA DieStep ==
  ASSUME Audit!AuditAssumption, AuditInv, NEW p \in Writers, Audit!Die(p)
  PROVE  AuditInv'
<1>1. /\ writer[p].pc # "idle" /\ UNCHANGED <<log, synced, dir, maybe, events, acked, settled, verifier>>
      /\ writer' = [writer EXCEPT ![p] = Audit!Idle] /\ lock' = Audit!NoWriter /\ auditFaults' \in Nat
      /\ AuditTypes
  BY FaultIs DEF Audit!Die, Audit!At, AuditInv
<1>2. settled' = FALSE
  BY <1>1, OthersRest
<1>3. Stays /\ ChainInv'
  BY <1>1, DirectorySyncs, Unmoved
<1> QED BY <1>1, <1>2, <1>3, Ends

\* The machine loses power: the durable lines stay, unless the log's entry was
\* never synced; then nothing was acknowledged, and no checkpoint is left.
LEMMA PowerStep ==
  ASSUME Audit!AuditAssumption, AuditInv, Audit!LosePower
  PROVE  AuditInv'
<1>1. /\ AuditTypes /\ auditFaults' \in Nat /\ UNCHANGED <<events, acked, settled>>
      /\ writer' = [p \in Writers |-> Audit!Idle] /\ lock' = Audit!NoWriter
      /\ verifier' = [verifier EXCEPT !.pc = "idle"]
      /\ dir' \in maybe /\ maybe' = {dir'} /\ synced' = Len(log')
      /\ log \in Seq(Audit!Lines) /\ synced \in 0..Len(log)
  BY FaultIs DEF Audit!LosePower, AuditInv, AuditTypes
<1>2. dir' \in Audit!Directories /\ dir'.log \in BOOLEAN
  BY <1>1 DEF AuditTypes, Audit!Directories
<1>3. \A p \in Writers : writer'[p] \in WriterTypes /\ writer'[p].pc = "idle"
  BY <1>1, IdleIs
<1>4. AloneInv' /\ StepsInv'
  BY <1>3 DEF AloneInv, StepsInv, StepOf
<1>5. log' \in Seq(Audit!Lines) => AuditTypes'
  <2>1. writer' \in [Writers -> WriterTypes]
    BY <1>1, <1>3
  <2>2. verifier' \in [pc : {"idle", "absent", "waiting"}, locked : BOOLEAN,
                       verdict : {"none", "clean", "dirty"}]
    BY <1>1 DEF AuditTypes
  <2> QED BY <1>1, <1>2, <2>1, <2>2 DEF AuditTypes
<1>6. settled = TRUE => dir' = dir /\ dir.log /\ synced = Len(log)
  BY <1>1 DEF AuditInv, SettledInv, DurableInv
<1>7. CASE ~dir'.log /\ log' = <<>>
  <2>1. acked = {} /\ (Reorders = FALSE => dir'.head = Audit!NoHead)
    BY <1>1, <1>7 DEF AuditInv, DurableInv, Audit!AcknowledgedIsDurable, Audit!HeadNotAhead
  <2>2. DurableInv'
    BY <1>1, <1>7, <2>1 DEF DurableInv, Audit!AcknowledgedIsDurable, Audit!HeadNotAhead
  <2>3. SettledInv'
    BY <1>1, <1>6, <1>7 DEF SettledInv
  <2>4. ChainInv'
    BY <1>7 DEF ChainInv, Chained, Audit!Signed
  <2> QED BY <1>4, <1>5, <1>7, <2>2, <2>3, <2>4 DEF AuditInv
<1>8. CASE dir'.log
  <2>1. PICK n \in synced..Len(log) :
            log' \in IF n = Len(log) THEN {log} ELSE Audit!Partial(SubSeq(log, 1, n), log[n + 1])
    BY <1>8 DEF Audit!LosePower
  <2>2. n \in 0..Len(log) /\ synced <= n
    BY <1>1, <2>1
  <2>3. PICK t : t = log'
    OBVIOUS
  <2>4. /\ t \in Seq(Audit!Lines) /\ n <= Len(t) /\ \A i \in 1..n : SameLine(log[i], t[i])
        /\ Chained(log) => Chained(t)
    BY <1>1, <2>1, <2>2, <2>3, LostIs
  <2>5. LinesStay
    BY <1>1, <2>2, <2>3, <2>4 DEF LinesStay
  <2>6. ChainInv'
    <3>1. LogReadFails = FALSE => Chained(t)
      BY <2>4 DEF AuditInv, ChainInv
    <3> QED BY <2>3, <3>1 DEF ChainInv, Chained, Audit!Signed, Audit!HasHmac
  <2>7. Audit!AcknowledgedIsDurable'
    BY <1>1, <1>8, <2>5, AckedStays DEF AuditInv, DurableInv, Audit!AcknowledgedIsDurable
  <2>8. ASSUME Reorders = FALSE PROVE Audit!HeadNotAhead'
    <3>1. dir'.head # Audit!NoHead => Stored(synced, dir'.head.hmac, dir'.head.seq)
      BY <1>1, <2>8 DEF AuditInv, DurableInv, Audit!HeadNotAhead, Stored
    <3>2. \A e, q : Stored(synced, e, q) => Stored(synced, e, q)'
      BY <1>1, <2>5, StoredStays
    <3>3. PICK h : h = dir'.head
      OBVIOUS
    <3>4. h # Audit!NoHead => Stored(synced, h.hmac, h.seq)'
      BY <3>1, <3>2, <3>3
    <3>5. \A c \in maybe' : c.head = h /\ c.log
      BY <1>1, <1>8, <3>3
    <3> QED BY <3>4, <3>5 DEF Audit!HeadNotAhead, Stored
  <2>9. DurableInv'
    BY <1>8, <2>7, <2>8 DEF DurableInv
  <2>10. SettledInv'
    <3>1. ASSUME settled = TRUE PROVE SettledInv'
      <4>1. n = Len(log)
        BY <1>1, <1>6, <2>1, <2>2, <3>1
      <4>2. log' = log
        BY <2>1, <4>1
      <4> QED BY <1>1, <1>3, <1>6, <3>1, <4>2 DEF AuditInv, SettledInv
    <3> QED BY <1>1, <3>1 DEF SettledInv, AuditTypes
  <2> QED BY <1>4, <1>5, <2>3, <2>4, <2>6, <2>9, <2>10 DEF AuditInv
<1> QED BY <1>2, <1>7, <1>8 DEF Audit!LosePower

\* The verifier changes nothing but its report.
LEMMA VerifyStep ==
  ASSUME Audit!AuditAssumption, AuditInv, Audit!Verify
  PROVE  AuditInv'
<1>1. UNCHANGED <<log, synced, dir, maybe, writer, lock, events, acked, settled, auditFaults>>
  BY DEF Audit!Verify, Audit!VerifyStart, Audit!VerifyLocked, Audit!VerifyAbsent
<1>2. AuditTypes'
  <2>1. verifier' \in [pc : {"idle", "absent", "waiting"}, locked : BOOLEAN,
                       verdict : {"none", "clean", "dirty"}]
    <3>1. CASE Audit!VerifyStart
      BY <3>1 DEF Audit!VerifyStart, AuditInv, AuditTypes
    <3>2. CASE Audit!VerifyLocked
      BY <3>2 DEF Audit!VerifyLocked
    <3>3. CASE Audit!VerifyAbsent
      BY <3>3 DEF Audit!VerifyAbsent
    <3> QED BY <3>1, <3>2, <3>3 DEF Audit!Verify
  <2> QED BY <1>1, <2>1 DEF AuditInv, AuditTypes
<1> QED BY <1>1, <1>2 DEF AuditInv, AloneInv, StepsInv, StepOf, DurableInv, Audit!AcknowledgedIsDurable,
                          Audit!HeadNotAhead, SettledInv, ChainInv, Chained, Follows, IsLast,
                          Audit!Signed, Audit!HasHmac

\* What holds at first: a log of an older release, or none.
LEMMA AuditBegins ==
  ASSUME Audit!AuditAssumption, Audit!Init
  PROVE  AuditInv
<1>1. PICK old \in Audit!OldLogs :
        /\ log = old.l /\ synced = Len(old.l) /\ dir = old.d /\ maybe = {old.d}
        /\ writer = [p \in Writers |-> Audit!Idle]
        /\ lock = Audit!NoWriter /\ events = 1 /\ acked = {} /\ settled = FALSE
        /\ verifier = [pc |-> "idle", verdict |-> "none", locked |-> TRUE]
        /\ auditFaults = 0
  BY DEF Audit!Init
<1>2. /\ Audit!Marker \in Audit!Lines /\ ~Audit!HasHmac(Audit!Marker)
      /\ \A q \in {0, 1}, k \in {"signed", "unsigned"} :
            /\ Audit!Line(k, q, Audit!Genesis, q) \in Audit!Lines
            /\ Audit!Line(k, q, Audit!Genesis, 1) \in Audit!Lines
            /\ Audit!Line(k, q, Audit!Genesis, 0) \in Audit!Lines /\ Audit!Line(k, q, Audit!Genesis, 0).kind = k
            /\ Audit!Line(k, q, Audit!Genesis, 1).kind = k
            /\ Audit!Line(k, q, Audit!Genesis, 1).prev = Audit!Genesis
            /\ Audit!Line(k, q, Audit!Genesis, 1).seq = q
  BY LinesAre DEF Audit!Genesis
<1>3. /\ log \in Seq(Audit!Lines) /\ dir \in Audit!Directories /\ dir.head = Audit!NoHead
      /\ Len(log) > 0 => dir.log
      /\ \/ log = <<>> \/ log = <<Audit!Line("unsigned", 1, Audit!Genesis, 0)>>
         \/ log = <<Audit!Marker, Audit!Line("signed", 0, Audit!Genesis, 1)>>
  <2> DEFINE one == <<Audit!Line("unsigned", 1, Audit!Genesis, 0)>>
             two == <<Audit!Marker, Audit!Line("signed", 0, Audit!Genesis, 1)>>
             none == Audit!Directory(FALSE, FALSE)
             plain == Audit!Directory(TRUE, FALSE)
             keyed == Audit!Directory(TRUE, TRUE)
  <2>1. old \in {[l |-> <<>>, d |-> none], [l |-> one, d |-> plain], [l |-> two, d |-> keyed]}
    BY DEF Audit!OldLogs
  <2>2. /\ <<>> \in Seq(Audit!Lines) /\ <<Audit!Line("unsigned", 1, Audit!Genesis, 0)>> \in Seq(Audit!Lines)
        /\ <<Audit!Marker, Audit!Line("signed", 0, Audit!Genesis, 1)>> \in Seq(Audit!Lines)
    <3>1. /\ Audit!Line("unsigned", 1, Audit!Genesis, 0) \in Audit!Lines
          /\ Audit!Line("signed", 0, Audit!Genesis, 1) \in Audit!Lines
      BY <1>2
    <3> QED BY <1>2, <3>1
  <2>3. /\ {none, plain, keyed} \subseteq Audit!Directories
        /\ none.head = Audit!NoHead /\ plain.head = Audit!NoHead /\ keyed.head = Audit!NoHead
        /\ plain.log /\ keyed.log
    BY DEF Audit!Directory, Audit!Directories, Audit!NoHead, Audit!Heads, Audit!Genesis
  <2> HIDE DEF none, plain, keyed
  <2>4. dir \in Audit!Directories /\ dir.head = Audit!NoHead
    <3> HIDE DEF one, two
    <3> QED BY <1>1, <2>1, <2>3
  <2>5. log = <<>> \/ (log \in {one, two} /\ dir.log)
    <3> HIDE DEF one, two
    <3> QED BY <1>1, <2>1, <2>3
  <2>6. log \in Seq(Audit!Lines)
    BY <2>2, <2>5
  <2>7. Len(log) > 0 => dir.log
    BY <2>5
  <2> QED BY <2>4, <2>5, <2>6, <2>7
<1>4. Chained(log)
  <2>1. \A i \in Audit!Signed(log) : i = 2 /\ log = <<Audit!Marker, Audit!Line("signed", 0, Audit!Genesis, 1)>>
    <3>1. CASE log = <<>>
      BY <3>1 DEF Audit!Signed
    <3>2. CASE log = <<Audit!Line("unsigned", 1, Audit!Genesis, 0)>>
      BY <1>2, <3>2 DEF Audit!Signed, Audit!HasHmac
    <3>3. CASE log = <<Audit!Marker, Audit!Line("signed", 0, Audit!Genesis, 1)>>
      BY <1>2, <3>3 DEF Audit!Signed
    <3> QED BY <1>3, <3>1, <3>2, <3>3
  <2>2. \A i \in Audit!Signed(log) : log[i].prev = Audit!Genesis /\ log[i].seq = 0
    BY <1>2, <2>1
  <2> QED BY <2>1, <2>2 DEF Chained
<1>5. \A p \in Writers : writer[p] \in WriterTypes /\ writer[p].pc = "idle"
  BY <1>1, IdleIs
<1>6. AuditTypes
  <2>1. synced \in 0..Len(log) /\ maybe \in SUBSET Audit!Directories /\ dir \in maybe
    BY <1>1, <1>3
  <2>2. writer \in [Writers -> WriterTypes]
    BY <1>1, IdleIs
  <2>3. verifier \in [pc : {"idle", "absent", "waiting"}, locked : BOOLEAN,
                      verdict : {"none", "clean", "dirty"}]
    BY <1>1
  <2> QED BY <1>1, <1>3, <2>1, <2>2, <2>3 DEF AuditTypes
<1>7. AloneInv /\ StepsInv /\ SettledInv
  BY <1>1, <1>5 DEF AloneInv, StepsInv, StepOf, SettledInv
<1>8. DurableInv
  BY <1>1, <1>3 DEF DurableInv, Audit!AcknowledgedIsDurable, Audit!HeadNotAhead
<1> QED BY <1>4, <1>6, <1>7, <1>8 DEF AuditInv, ChainInv

\* Every step keeps what is shown of the audit log.
LEMMA AuditKept ==
  ASSUME Audit!AuditAssumption, AuditInv, [Audit!Next]_(Audit!vars)
  PROVE  AuditInv'
<1>1. CASE \E p \in Writers : Audit!Write(p) \/ Audit!Die(p)
  BY <1>1, StartStep, KeySteps, ReadLastStep, WriteLineStep, SyncLineStep,
     SyncLogEntryStep, HeadSteps, DieStep DEF Audit!Write
<1>2. CASE Audit!Verify \/ Audit!LosePower
  BY <1>2, VerifyStep, PowerStep
<1>3. CASE UNCHANGED Audit!vars
  BY <1>3 DEF Audit!vars, AuditInv, AuditTypes, AloneInv, StepsInv, StepOf, DurableInv,
              Audit!AcknowledgedIsDurable, Audit!HeadNotAhead, SettledInv, ChainInv, Chained, Follows, IsLast,
              Audit!Signed, Audit!HasHmac
<1> QED BY <1>1, <1>2, <1>3 DEF Audit!Next

\* TypeOK, AcknowledgedIsDurable and CheckpointFollows of the audit log: an event that
\* log_result reported in required mode is in the log for good, whichever call or writer
\* failed between append_line's two syncs, and after a signed write the checkpoint names
\* the last line.  Reading the log back may fail.  HeadNotAhead, that the checkpoint of
\* write_head never names a line that a power loss can take, needs a file system that
\* keeps the changes of a directory in order (README, section 6).
THEOREM AuditRecordsAreDurable ==
  ASSUME Audit!AuditAssumption
  PROVE  Audit!Spec => [](/\ Audit!TypeOK /\ Audit!AcknowledgedIsDurable /\ Audit!CheckpointFollows
                          /\ Reorders = FALSE => Audit!HeadNotAhead)
<1>1. Audit!Init => AuditInv
  BY AuditBegins
<1>2. AuditInv /\ [Audit!Next]_(Audit!vars) => AuditInv'
  BY AuditKept
<1>3. AuditInv => /\ Audit!TypeOK /\ Audit!AcknowledgedIsDurable /\ Audit!CheckpointFollows
                  /\ Reorders = FALSE => Audit!HeadNotAhead
  <2> SUFFICES ASSUME AuditInv
               PROVE  /\ Audit!TypeOK /\ Audit!AcknowledgedIsDurable /\ Audit!CheckpointFollows
                      /\ Reorders = FALSE => Audit!HeadNotAhead
    OBVIOUS
  <2>1. Audit!TypeOK
    BY DEF AuditInv, AuditTypes, WriterTypes, AuditPhases, Audit!TypeOK
  <2>2. Audit!CheckpointFollows
    <3>1. ASSUME settled = TRUE PROVE dir.head = [seq |-> Audit!LastSeq(log), hmac |-> Audit!LastHmac(log)]
      <4> DEFINE n == Len(log)
      <4>1. /\ log \in Seq(Audit!Lines) /\ n \in Nat /\ n > 0 /\ log[n].kind = "signed" /\ log[n].seq > 0
            /\ dir.head = [seq |-> log[n].seq, hmac |-> log[n].id]
        BY <3>1 DEF AuditInv, AuditTypes, SettledInv
      <4>2. n \in Audit!Signed(log) /\ IsLast(n, Audit!Signed(log))
        BY <4>1, SignedPlaces DEF Audit!Signed, Audit!HasHmac, IsLast
      <4>3. Audit!LastHmac(log) = log[n].id /\ Audit!LastSeq(log) = log[n].seq
        <5> HIDE DEF n
        <5> QED BY <4>1, <4>2, LastIsRead
      <4> QED BY <4>1, <4>3
    <3> QED BY <3>1 DEF Audit!CheckpointFollows, AuditInv, AuditTypes
  <2> QED BY <2>1, <2>2 DEF AuditInv, DurableInv
<1> QED BY <1>1, <1>2, <1>3, PTL DEF Audit!Spec

\* ChainIsUnbroken of the audit log: whatever is cut short and whoever dies, the line
\* that write_event builds from read_last_hmac and read_last_seq continues the chain.
\* When the log cannot be read back it does not (README, section 6): hence the hypothesis.
THEOREM AuditChainIsUnbroken ==
  ASSUME Audit!AuditAssumption, LogReadFails = FALSE
  PROVE  Audit!Spec => []Audit!ChainIsUnbroken
<1>1. Audit!Init => AuditInv
  BY AuditBegins
<1>2. AuditInv /\ [Audit!Next]_(Audit!vars) => AuditInv'
  BY AuditKept
<1>3. AuditInv => Audit!ChainIsUnbroken
  BY ChainedIsUnbroken DEF AuditInv, AuditTypes, ChainInv
<1> QED BY <1>1, <1>2, <1>3, PTL DEF Audit!Spec
===============================================================================
