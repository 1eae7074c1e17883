---------------------------- MODULE BillingEvents ----------------------------
(***************************************************************************)
(* The billing webhook and process_stripe_billing_event.  Stripe delivers   *)
(* every event until it is acknowledged, in any order and possibly more     *)
(* than once.  A delivery is one database transaction: it claims the        *)
(* event's row, locks the user, locks the subscription's binding, decides   *)
(* whether the event still counts and commits; a crash rolls it back.       *)
(***************************************************************************)
EXTENDS Naturals, FiniteSets, SequencesExt

CONSTANTS
    Events,     \* what Stripe has to deliver
    Users,
    Subs,       \* subscriptions
    Workers,    \* concurrent deliveries
    MaxCrashes, \* bound: deliveries that die
    None

Types == {"checkout", "failed", "updated", "deleted"}

\* What the constants have to satisfy.
BillingAssumption ==
    /\ IsFiniteSet(Events)
    /\ \A e \in Events : /\ e.id \in Nat /\ e.created \in Nat /\ e.type \in Types
                         /\ e.sub \in Subs /\ e.user \in Users
    /\ \A e, f \in Events : e.id = f.id => e = f

VARIABLES
    done,       \* stripe_processed_events with status completed
    user,       \* the billing columns of users
    binding,    \* stripe_subscription_users: the user, None before checkout
    cursor,     \* last_event_*: the event that moved it, None
    work,       \* the delivery a worker is processing
    acked,      \* events answered with success
    crashes

vars == <<done, user, binding, cursor, work, acked, crashes>>

Idle == [pc |-> "idle", event |-> None, bound |-> None]

NewUser == [plan |-> "free", sub |-> None, expires |-> 0, checkout |-> None]

Init ==
    /\ done = {}
    /\ user = [u \in Users |-> NewUser]
    /\ binding = [s \in Subs |-> None]
    /\ cursor = [s \in Subs |-> None]
    /\ work = [w \in Workers |-> Idle]
    /\ acked = {}
    /\ crashes = 0

-----------------------------------------------------------------------------
\* v_priority
Priority(e) ==
    CASE e.type = "checkout" -> 10
      [] e.type = "failed" -> 20
      [] e.type = "updated" -> 30
      [] e.type = "deleted" -> 40

\* The order of two events of a subscription.
Before(e, f) ==
    \/ e.created < f.created
    \/ e.created = f.created /\ Priority(e) < Priority(f)
    \/ e.created = f.created /\ Priority(e) = Priority(f) /\ e.id < f.id

PastCursor(e) == cursor[e.sub] = None \/ Before(cursor[e.sub], e)

\* Mutant: a checkout is compared with its own subscription only.
LatestCheckoutOfSub(e) == TRUE

\* The user's checkout cursor orders checkouts of different subscriptions.
LatestCheckout(e) ==
    LET c == user[e.user].checkout
    IN  c = None \/ c.created < e.created \/ (c.created = e.created /\ c.id < e.id)

\* v_outcome
Outcome(e, u) ==
    CASE e.type = "checkout" ->
            IF LatestCheckout(e) /\ PastCursor(e) THEN "applied" ELSE "stale"
      [] e.type # "checkout" /\ user[u].sub # e.sub -> "superseded"
      [] OTHER -> IF PastCursor(e) THEN "applied" ELSE "stale"

\* The UPDATE of users for each event type.
Effect(row, e) ==
    CASE e.type = "checkout" ->
            [plan |-> "pro", sub |-> e.sub, expires |-> 0, checkout |-> e]
      [] e.type = "updated" -> [row EXCEPT !.plan = e.plan, !.expires = e.expires]
      [] e.type = "deleted" -> [row EXCEPT !.plan = "free", !.sub = None, !.expires = 0]
      [] e.type = "failed" -> [row EXCEPT !.expires = e.expires]

-----------------------------------------------------------------------------
(* A delivery.                                                               *)

Working(w, pc) == work[w].pc = pc

\* The row locks that a transaction takes are held to its end.
EventLocked(e) == \E w \in Workers : work[w].event = e

UserLocked(u) == \E w \in Workers : Working(w, "bind") /\ work[w].bound = u

Goto(w, pc, u) == work' = [work EXCEPT ![w] = [@ EXCEPT !.pc = pc, !.bound = u]]

Stop(w) == work' = [work EXCEPT ![w] = Idle]

\* The insert that claims an event waits for a transaction holding the row.
\* Only an event that Stripe still retries, or sends twice, arrives.
Claim(w, e) ==
    /\ Working(w, "idle")
    /\ ~EventLocked(e)
    /\ work' = [work EXCEPT ![w] = [pc |-> "claimed", event |-> e, bound |-> None]]
    /\ UNCHANGED <<done, user, binding, cursor, acked, crashes>>

\* An event that was not acknowledged comes again.
Redeliver(w, e) == e \notin acked /\ Claim(w, e)

\* A completed event is answered again.
Duplicate(w) ==
    /\ Working(w, "claimed")
    /\ work[w].event \in done
    /\ acked' = acked \cup {work[w].event}
    /\ Stop(w)
    /\ UNCHANGED <<done, user, binding, cursor, crashes>>

\* A checkout names its user; any other event finds it through the binding,
\* and raises when there is none: the claim is rolled back.
Resolve(w) ==
    LET e == work[w].event
        u == IF e.type = "checkout" THEN e.user ELSE binding[e.sub]
    IN  /\ Working(w, "claimed")
        /\ e \notin done
        /\ IF u = None THEN Stop(w) ELSE Goto(w, "user", u)
        /\ UNCHANGED <<done, user, binding, cursor, acked, crashes>>

LockUser(w) ==
    /\ Working(w, "user")
    /\ ~UserLocked(work[w].bound)
    /\ Goto(w, "bind", work[w].bound)
    /\ UNCHANGED <<done, user, binding, cursor, acked, crashes>>

\* Mutant: an event that does not count is rolled back, too.
CommitAppliedOnly(w) ==
    LET e == work[w].event
        u == work[w].bound
        bound == IF e.type = "checkout" /\ binding[e.sub] = None THEN u ELSE binding[e.sub]
    IN  /\ Working(w, "bind")
        /\ bound = u /\ Outcome(e, u) = "applied"
        /\ binding' = [binding EXCEPT ![e.sub] = bound]
        /\ user' = [user EXCEPT ![u] = Effect(@, e)]
        /\ cursor' = [cursor EXCEPT ![e.sub] = e]
        /\ done' = done \cup {e}
        /\ Stop(w)
        /\ UNCHANGED <<acked, crashes>>

\* With the user locked the binding is inserted or locked, the outcome is
\* decided, and everything commits together.  A binding to another user raises.
Commit(w) ==
    LET e == work[w].event
        u == work[w].bound
        bound == IF e.type = "checkout" /\ binding[e.sub] = None THEN u ELSE binding[e.sub]
        outcome == Outcome(e, u)
    IN  /\ Working(w, "bind")
        /\ IF bound # u THEN UNCHANGED <<done, user, binding, cursor>>
           ELSE /\ binding' = [binding EXCEPT ![e.sub] = bound]
                /\ user' = IF outcome = "applied"
                           THEN [user EXCEPT ![u] = Effect(@, e)] ELSE user
                /\ cursor' = IF outcome # "stale" /\ PastCursor(e)
                             THEN [cursor EXCEPT ![e.sub] = e] ELSE cursor
                /\ done' = done \cup {e}
        /\ Stop(w)
        /\ UNCHANGED <<acked, crashes>>

\* The answer reaches Stripe, or is lost and the event comes again.
Acknowledge(e) ==
    /\ e \in done \ acked
    /\ acked' = acked \cup {e}
    /\ UNCHANGED <<done, user, binding, cursor, work, crashes>>

\* The process or the database connection dies: the transaction is undone.
Crash(w) ==
    /\ ~Working(w, "idle")
    /\ crashes < MaxCrashes
    /\ crashes' = crashes + 1
    /\ Stop(w)
    /\ UNCHANGED <<done, user, binding, cursor, acked>>

Step(w) == Duplicate(w) \/ Resolve(w) \/ LockUser(w) \/ Commit(w)

Next ==
    \/ \E w \in Workers :
        \/ \E e \in Events : Claim(w, e)
        \/ Step(w)
        \/ Crash(w)
    \/ \E e \in Events : Acknowledge(e)

\* Stripe repeats an event until it is acknowledged; transactions end.
Fairness ==
    /\ \A w \in Workers : WF_vars(Step(w))
    /\ \A e \in Events : SF_vars(\E w \in Workers : Redeliver(w, e))

Spec == Init /\ [][Next]_vars

FairSpec == Spec /\ Fairness

-----------------------------------------------------------------------------
(* Properties.                                                               *)

\* The type invariant of the billing tables.
TypeOK ==
    /\ done \subseteq Events /\ acked \subseteq done
    /\ \A u \in Users : user[u].sub \in Subs \cup {None} /\ user[u].plan \in {"free", "pro"}
    /\ binding \in [Subs -> Users \cup {None}]
    /\ cursor \in [Subs -> Events \cup {None}]
    /\ \A w \in Workers : Working(w, "idle") <=> work[w].event = None

\* What a set of events says of a user when each arrives in its order: one that
\* names no current subscription of the user changes nothing.
InOrder(u, events) ==
    LET own == {e \in events : e.user = u}
        order == [i \in 1..Cardinality(own) |->
                    CHOOSE e \in own : Cardinality({f \in own : Before(f, e)}) = i - 1]
        Play(row, e) == IF e.type = "checkout" \/ row.sub = e.sub THEN Effect(row, e) ELSE row
    IN  FoldLeft(Play, NewUser, order)

\* Updates created before a failed payment of the same subscription.  One that
\* arrives after it is stale, though the failure says nothing of the plan.
Overtaken == {e \in done : /\ e.type = "updated"
                           /\ \E f \in done : f.type = "failed" /\ f.sub = e.sub /\ Before(e, f)}

\* Whatever the order, the repetitions and the crashes, what was processed so
\* far has made of a user what it says in its order: the subscription, the end
\* of the plan and the last checkout exactly, and the plan up to the updates that a failed
\* payment overtook.
Converges ==
    \A u \in Users :
        LET all == InOrder(u, done)
        IN  /\ user[u] = [all EXCEPT !.plan = user[u].plan]
            /\ \/ user[u].plan = all.plan
               \/ \E lost \in SUBSET Overtaken : user[u].plan = InOrder(u, done \ lost).plan

\* The same of the plan, too, which a failed payment makes false.
ConvergesFully == \A u \in Users : user[u] = InOrder(u, done)

\* No event is refused for ever: one that arrives before the checkout that
\* binds its subscription is taken when it is sent again.
EveryEventSettles == <>(done = Events)
=============================================================================
