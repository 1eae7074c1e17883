--------------------------- MODULE SessionJournal ---------------------------
(***************************************************************************)
(* The session coordination journal of phantom-session: a session's phase   *)
(* moves only by a transition that is first intended, then performed by a   *)
(* subsystem, then completed, each record one replacement of the state      *)
(* file under the session's lock.  Coordinators are processes that call     *)
(* intend, complete and recover with the generation they last learned;      *)
(* they retry, die, and lose the answer of a call that took effect.         *)
(*                                                                          *)
(* A transition's digest identifies it, so a transition is its own id.      *)
(***************************************************************************)
EXTENDS Integers, Sequences, FiniteSets

CONSTANTS
    Coordinators,   \* processes that hold the journal open
    Digests,        \* digests of intents
    Results,        \* digests of observed results
    LastPhase,      \* bound: the phase after which no transition is intended
    MaxFaults       \* bound: writes that fail or whose answer is lost

\* What the constants have to satisfy.
SessionAssumption ==
    /\ IsFiniteSet(Coordinators) /\ Digests # {} /\ Results # {}
    /\ MaxFaults \in Nat

MaxCompleted == 16

Phases == {"Created", "AuthorityEvaluated", "AuthorityDenied", "LeaseReserved",
           "PermitActive", "WorkerObserved", "PermitTerminal", "RollbackResolved",
           "EvidenceFinalized", "ReceiptPersisted", "Complete"}

\* The closed table of validate: from, to and the step that may take it there.
Edges ==
    {[from |-> "Created",            to |-> "AuthorityEvaluated", step |-> "RecordAuthority"],
     [from |-> "Created",            to |-> "AuthorityDenied",    step |-> "RecordAuthority"],
     [from |-> "AuthorityEvaluated", to |-> "LeaseReserved",      step |-> "ReserveLease"],
     [from |-> "LeaseReserved",      to |-> "PermitActive",       step |-> "ActivatePermit"],
     [from |-> "PermitActive",       to |-> "WorkerObserved",     step |-> "RecordWorker"],
     [from |-> "WorkerObserved",     to |-> "PermitTerminal",     step |-> "TerminalizePermit"],
     [from |-> "PermitTerminal",     to |-> "RollbackResolved",   step |-> "ResolveRollback"],
     [from |-> "AuthorityDenied",    to |-> "EvidenceFinalized",  step |-> "FinalizeEvidence"],
     [from |-> "RollbackResolved",   to |-> "EvidenceFinalized",  step |-> "FinalizeEvidence"],
     [from |-> "EvidenceFinalized",  to |-> "ReceiptPersisted",   step |-> "PersistReceipt"],
     [from |-> "ReceiptPersisted",   to |-> "Complete",           step |-> "MarkComplete"]}

Steps == {e.step : e \in Edges}

\* Transitions callers ask for: every edge, and denied sessions that skip ahead.
Asked ==
    LET Skips == {[from |-> "AuthorityDenied", to |-> "PermitActive", step |-> "ActivatePermit"],
                  [from |-> "Created", to |-> "AuthorityEvaluated", step |-> "ReserveLease"]}
    IN  {[edge |-> e, digest |-> d] : e \in Edges \cup Skips, d \in Digests}

NoTransition == [edge |-> "none"]

VARIABLES
    state,      \* the body of the state file: generation, phase, pending, completed
    known,      \* the generation and transition each coordinator last learned
    news,       \* transitions some intend answered New, with how many times
    faults      \* writes that failed or whose answer was lost

vars == <<state, known, news, faults>>

Init ==
    /\ state = [generation |-> 0, phase |-> "Created", pending |-> NoTransition, completed |-> <<>>]
    /\ known = [c \in Coordinators |-> [generation |-> 0, id |-> NoTransition]]
    /\ news = [t \in Asked |-> 0]
    /\ faults = 0

IsCompleted(t) == \E i \in 1..Len(state.completed) : state.completed[i].id = t

\* validate: the phase is the current one and the table has the edge.
Legal(t, phase) == t.edge.from = phase /\ t.edge \in Edges

\* Journal::write, with what a failed replace_file can leave: the old file, or
\* the new one with the error reported after the rename.
WriteState(c, new, t, isNew) ==
    \/ /\ state' = new
       /\ known' = [known EXCEPT ![c] = [generation |-> new.generation, id |-> t]]
       /\ news' = IF isNew THEN [news EXCEPT ![t] = @ + 1] ELSE news
       /\ UNCHANGED faults
    \/ /\ faults < MaxFaults
       /\ faults' = faults + 1
       /\ state' \in {state, new}
       /\ UNCHANGED <<known, news>>

\* The answer Existing: it carries the generation of the file as it is now.
Existing(c, t) ==
    /\ known' = [known EXCEPT ![c] = [generation |-> state.generation, id |-> t]]
    /\ UNCHANGED <<state, news, faults>>

\* intend.
IntendPending(c, t) ==
    /\ state.pending = t
    /\ Existing(c, t)

IntendCompleted(c, t) ==
    /\ state.pending = NoTransition
    /\ IsCompleted(t)
    /\ Existing(c, t)

\* Mutant: neither the pending intent nor the generation stands in the way.
IntendNewUnfenced(c, t) ==
    /\ state.pending # t
    /\ ~IsCompleted(t)
    /\ state.phase # LastPhase
    /\ Legal(t, state.phase)
    /\ WriteState(c, [state EXCEPT !.pending = t, !.generation = @ + 1], t, TRUE)

IntendNew(c, t) ==
    /\ state.pending = NoTransition
    /\ ~IsCompleted(t)
    /\ state.generation = known[c].generation
    /\ state.phase # LastPhase
    /\ Legal(t, state.phase)
    /\ WriteState(c, [state EXCEPT !.pending = t, !.generation = @ + 1], t, TRUE)

Intend(c) == \E t \in Asked : IntendPending(c, t) \/ IntendCompleted(c, t) \/ IntendNew(c, t)

\* complete, for the transition the coordinator learned of.
CompleteExisting(c, result) ==
    LET t == known[c].id IN
    /\ \E i \in 1..Len(state.completed) :
          state.completed[i].id = t /\ state.completed[i].result = result
    /\ Existing(c, t)

\* The pending transition is taken, its step must be the completion's, and the
\* phase moves with the record.
Completion(t, result) ==
    [generation |-> state.generation + 1,
     phase |-> t.edge.to,
     pending |-> NoTransition,
     completed |-> Append(state.completed, [id |-> t, result |-> result])]

CompleteNew(c, result) ==
    LET t == known[c].id IN
    /\ t # NoTransition
    /\ ~IsCompleted(t)
    /\ state.generation = known[c].generation
    /\ state.pending = t
    /\ result.step = t.edge.step
    /\ Len(state.completed) < MaxCompleted
    /\ WriteState(c, Completion(t, result), t, FALSE)

Complete(c) ==
    \E step \in Steps, r \in Results :
        LET result == [step |-> step, digest |-> r]
        IN  CompleteExisting(c, result) \/ CompleteNew(c, result)

\* recover: the coordinator learns the generation and any pending transition.
Recover(c) ==
    /\ known' = [known EXCEPT ![c] = [generation |-> state.generation, id |-> state.pending]]
    /\ UNCHANGED <<state, news, faults>>

\* A restarted coordinator knows what the caller that opened the journal told
\* it, which is nothing beyond the genesis.
Restart(c) ==
    /\ known[c] # [generation |-> 0, id |-> NoTransition]
    /\ known' = [known EXCEPT ![c] = [generation |-> 0, id |-> NoTransition]]
    /\ UNCHANGED <<state, news, faults>>

Next == \E c \in Coordinators : Intend(c) \/ Complete(c) \/ Recover(c) \/ Restart(c)

Spec == Init /\ [][Next]_vars

-----------------------------------------------------------------------------
(* Properties.                                                               *)

Completions == [id : Asked, result : [step : Steps, digest : Results]]

\* The type invariant of the state file and of what coordinators remember.
TypeOK ==
    /\ state \in [generation : Nat, phase : Phases, pending : Asked \cup {NoTransition},
                 completed : Seq(Completions)]
    /\ known \in [Coordinators -> [generation : Nat, id : Asked \cup {NoTransition}]]
    /\ news \in [Asked -> Nat]
    /\ faults \in 0..MaxFaults

\* intend and complete together: the completed transitions are one unbroken
\* walk along the table of validate from Created to the current phase, and a
\* pending one starts where the walk ends.
CompletedIsAWalk ==
    LET done == state.completed IN
    /\ \A i \in 1..Len(done) :
          /\ done[i].id.edge \in Edges
          /\ done[i].id.edge.from = IF i = 1 THEN "Created" ELSE done[i - 1].id.edge.to
          /\ done[i].result.step = done[i].id.edge.step
    /\ state.phase = IF done = <<>> THEN "Created" ELSE done[Len(done)].id.edge.to
    /\ state.pending # NoTransition => Legal(state.pending, state.phase)

\* The generation fence counts the records exactly, so two coordinators with
\* the same generation have the same history of calls behind them.
GenerationCountsRecords ==
    state.generation = 2 * Len(state.completed) + (IF state.pending = NoTransition THEN 0 ELSE 1)

\* intend: however often it is retried and whichever answers are lost, one
\* caller at most is told that a transition is New.
NewOnlyOnce == \A t \in Asked : news[t] <= 1

\* validate and MAX_COMPLETED_TRANSITIONS: a session that is not complete can
\* always be taken further, by completing or by intending.
NeverStuck ==
    state.phase # "Complete" =>
        /\ Len(state.completed) < MaxCompleted
        /\ state.pending # NoTransition \/ \E t \in Asked : Legal(t, state.phase) /\ ~IsCompleted(t)

\* complete: a recorded completion is never removed, replaced or reordered,
\* and an intent is only ever settled by its own completion.
KeepsHistory ==
    /\ SubSeq(state'.completed, 1, Len(state.completed)) = state.completed
    /\ state.pending # NoTransition /\ state'.pending # state.pending =>
          state'.completed # state.completed /\
          state'.completed[Len(state'.completed)].id = state.pending

HistoryIsFinal == [][KeepsHistory]_vars

\* What the journal promises two coordinators that race on it.
JournalSafe == TypeOK /\ CompletedIsAWalk /\ GenerationCountsRecords /\ NewOnlyOnce
=============================================================================
