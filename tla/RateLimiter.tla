----------------------------- MODULE RateLimiter -----------------------------
(***************************************************************************)
(* The proxy's rate limiter: sliding windows of accesses for each secret    *)
(* and for all of them, and the class of every request.  An alert is        *)
(* refused by the proxy, but it has been recorded like any other access.    *)
(*                                                                          *)
(* Window stands for the 10 seconds; the 60-second window only counts, and  *)
(* no decision looks at it.                                                 *)
(***************************************************************************)
EXTENDS Naturals, Sequences, SequencesExt

CONSTANTS
    Secrets,
    Window,         \* length of the short window
    LongWindow,     \* length of the long one
    PerSecretRps,   \* PHANTOM_RATE_LIMIT_PER_SECRET
    Burst,          \* PHANTOM_RATE_LIMIT_BURST
    MaxTime,        \* bound: the clock
    MaxRecords      \* bound: requests

\* What the constants have to satisfy.
LimiterAssumption ==
    {Window, LongWindow, PerSecretRps, Burst, MaxTime, MaxRecords} \subseteq Nat

VARIABLES
    now,        \* the monotonic clock
    short,      \* window_10s of each secret, oldest first
    long,       \* window_60s of each secret
    global,     \* global_10s
    log         \* history: secret, time and decision of every request

vars == <<now, short, long, global, log>>

Init ==
    /\ now = 0
    /\ short = [s \in Secrets |-> <<>>]
    /\ long = [s \in Secrets |-> <<>>]
    /\ global = <<>>
    /\ log = <<>>

\* Mutant: an access exactly a window ago has left it.
RecordedEarly(window, length) ==
    SelectSeq(Append(window, now), LAMBDA t : now - t < length)

\* record_and_count: push, then evict what is older than the window.
Recorded(window, length) ==
    SelectSeq(Append(window, now), LAMBDA t : now - t <= length)

\* per_secret_10s_limit
Limit == PerSecretRps * Window

\* The class of an access, from the counts with it included.
Class(mine, total) ==
    IF mine > Limit \/ total > Burst THEN "alert"
    ELSE IF mine * 2 >= Limit \/ total * 4 >= Burst * 3 THEN "caution"
    ELSE "normal"

\* checked_div: no limit, no percentage.
Percentage(n, limit) ==
    IF limit = 0 THEN 0 ELSE IF n > limit THEN 100 ELSE (n * 100) \div limit

\* anomaly_score: the higher of the two.
Score(mine, total) ==
    LET p == Percentage(mine, Limit)
        b == Percentage(total, Burst)
    IN  IF p >= b THEN p ELSE b

\* record, under the mutex.
Record(s) ==
    LET mine == Len(Recorded(short[s], Window))
        total == Len(Recorded(global, Window))
    IN  /\ Len(log) < MaxRecords
        /\ short' = [short EXCEPT ![s] = Recorded(@, Window)]
        /\ long' = [long EXCEPT ![s] = Recorded(@, LongWindow)]
        /\ global' = Recorded(global, Window)
        /\ log' = Append(log, [secret |-> s, time |-> now, class |-> Class(mine, total),
                               score |-> Score(mine, total)])
        /\ UNCHANGED now

Tick ==
    /\ now < MaxTime
    /\ now' = now + 1
    /\ UNCHANGED <<short, long, global, log>>

Next == Tick \/ \E s \in Secrets : Record(s)

Spec == Init /\ [][Next]_vars

-----------------------------------------------------------------------------
(* Properties.                                                               *)

\* The type invariant of the limiter.
TypeOK ==
    /\ now \in 0..MaxTime
    /\ \A s \in Secrets : short[s] \in Seq(0..now) /\ long[s] \in Seq(0..now)
    /\ global \in Seq(0..now)

Passed(e) == e.class # "alert"

\* The requests of the log from the i-th on, within a window of it.
Around(i) == SelectSeq(SubSeq(log, i, Len(log)), LAMBDA e : e.time - log[i].time <= Window)

\* "Max requests for a single secret" and "max total requests across ALL secrets
\* in any 10-second window": however requests are spread over the borders of
\* windows, those that passed never exceed the limits.
LimitsKept ==
    \A i \in 1..Len(log) :
        LET through == SelectSeq(Around(i), Passed)
        IN  /\ Len(through) <= Burst
            /\ Len(SelectSeq(through, LAMBDA e : e.secret = log[i].secret)) <= Limit

\* The long window of a secret is never behind the short one, and the global one
\* has what the secrets' windows have, except what a later access evicted.
WindowsAgree ==
    \A s \in Secrets :
        /\ \A i \in 1..Len(short[s]) : Contains(long[s], short[s][i])
        /\ \A i \in 1..Len(short[s]) :
            now - short[s][i] <= Window => Contains(global, short[s][i])

\* What is refused is at the top of the scale that `--min-anomaly-score` filters.
AlertScoresFull == \A i \in 1..Len(log) : log[i].class = "alert" => log[i].score = 100

\* What the limiter keeps, with the windows its verdicts are taken from.
LimiterSafe == TypeOK /\ LimitsKept /\ WindowsAgree /\ AlertScoresFull

\* "so a single busy agent session is classified by its per-secret rate instead of
\* tripping the global guard": with Burst above Limit, a secret that was not used
\* passes while only one other is busy.
OneSessionDoesNotTrip ==
    \A i \in 1..Len(log) :
        (\A j \in 1..(i - 1) : log[j].secret = log[1].secret) /\ log[i].secret # log[1].secret
            => Passed(log[i])
=============================================================================
