----------------------------- MODULE AuthLockout -----------------------------
(***************************************************************************)
(* The authentication lockout table (src/auth/lockout.rs) and the request  *)
(* handlers that use it (src/auth/request.rs, metrics in app/handlers.rs). *)
(*                                                                         *)
(* The table is one mutex-protected map; each critical section is one step. *)
(* What is not under the mutex is a step of its own: a handler reads the   *)
(* clock BEFORE it takes the lock, and stores the two gauges AFTER it has  *)
(* released it.  Time is in ticks; a handler may stall for any of them.    *)
(***************************************************************************)
EXTENDS Integers, FiniteSets, Sequences

CONSTANTS
    Ips,              \* client IPs
    Handlers,         \* concurrent request handlers
    MaxFailures,      \* RRB_AUTH_LOCKOUT_FAILURES; 0 disables the table
    FailureWindow,    \* RRB_AUTH_LOCKOUT_WINDOW_SECONDS
    LockoutDuration,  \* RRB_AUTH_LOCKOUT_SECONDS
    MaxEntries,       \* RRB_AUTH_LOCKOUT_MAX_ENTRIES
    InstantMax,       \* the last instant that Instant can represent
    MaxTime           \* bound of the clock, for model checking

\* The configuration refuses zeros when the table is enabled, and nothing else.
ASSUME LockoutAssumption ==
    /\ MaxFailures \in Nat
    /\ FailureWindow \in Nat \ {0}
    /\ LockoutDuration \in Nat \ {0}
    /\ MaxEntries \in Nat \ {0}
    /\ InstantMax \in Nat
    /\ MaxTime \in Nat
    /\ IsFiniteSet(Ips)

VARIABLES
    clock,
    entries,     \* the map: tracked IP -> AuthState
    poisoned,    \* a thread panicked while it held the mutex
    tracked_ips, \* the two gauges
    locked_ips,
    pc, ip, now, \* of each handler: position, client IP, clock it read
    scrape,      \* which refresh of a metrics request it does: in metrics_auth, or
                 \* the last one, before it renders; "no" for other requests
    verdict,     \* what record_failure returned to the handler
    snap,        \* what snapshot() returned to the handler
    lock,        \* history: the end of the last lockout of each IP, 0 if it
                 \* was lifted by a valid token
    failed       \* history: when the last failures of each IP were that were tracked
                 \* since its last lockout or valid token, MaxFailures - 1 at most

historyVars == <<lock, failed>>
tableVars   == <<entries, poisoned, historyVars>>
gaugeVars   == <<tracked_ips, locked_ips>>
handlerVars == <<pc, ip, now, scrape, verdict, snap>>
lockoutVars == <<clock, tableVars, gaugeVars, handlerVars>>

NoLock == -1   \* locked_until: None

-----------------------------------------------------------------------------
(* AuthState and AuthLockout.                                              *)

NewState(t) == [failures |-> 0, window_started_at |-> t, last_seen_at |-> t,
                locked_until |-> NoLock]

\* Instant::duration_since saturates at zero.
DurationSince(t, earlier) == IF t > earlier THEN t - earlier ELSE 0

\* Mutant: a lockout, too, is forgotten once its IP has been silent.
MutIsStale(st, t) == DurationSince(t, st.last_seen_at) >= FailureWindow

IsStale(st, t) == IF st.locked_until # NoLock
                    THEN st.locked_until <= t
                    ELSE DurationSince(t, st.last_seen_at) >= FailureWindow

Keep(e, ips) == [i \in (DOMAIN e) \cap ips |-> e[i]]
Put(e, i, st) == [j \in (DOMAIN e) \cup {i} |-> IF j = i THEN st ELSE e[j]]

CleanupStaleEntries(e, t) == Keep(e, {i \in DOMAIN e : ~IsStale(e[i], t)})

\* Mutant: off by one at the limit.
MutNoRoom(e, i) == Cardinality(DOMAIN e) > MaxEntries /\ i \notin DOMAIN e

NoRoom(e, i) == Cardinality(DOMAIN e) >= MaxEntries /\ i \notin DOMAIN e

\* Mutant: a full table is not cleaned.
MutCleared(e, i, t) == e

\* The table record_failure_at works on: cleaned if there is no room for i.
Cleared(e, i, t) == IF NoRoom(e, i) THEN CleanupStaleEntries(e, t) ELSE e

StateOf(e, i, t) == IF i \in DOMAIN e THEN e[i] ELSE NewState(t)

\* Mutant: the end of a window is not noticed.
MutWindowed(st, t) == IF st.locked_until # NoLock THEN NewState(t) ELSE st

\* reset_window, after an expired lockout or at the end of the window.
Windowed(st, t) ==
    IF st.locked_until # NoLock
         \/ DurationSince(t, st.window_started_at) >= FailureWindow
      THEN NewState(t) ELSE st

\* The failure is counted, at the time the handler read.
Failed(st, t) == [Windowed(st, t) EXCEPT !.failures = @ + 1, !.last_seen_at = t]

\* record_failure_at: the verdict and the table it leaves.  now + duration
\* panics beyond InstantMax, with the failure counted and the mutex held.
RecordFailureAt(e, i, t) ==
    LET c  == Cleared(e, i, t)
        st == StateOf(c, i, t)
        f  == Failed(st, t)
    IN  IF MaxFailures = 0 THEN
            [verdict |-> "Disabled", entries |-> e]
        ELSE IF NoRoom(c, i) THEN
            [verdict |-> "EntryLimitReached", entries |-> c]
        ELSE IF st.locked_until > t THEN
            [verdict |-> "AlreadyLocked", entries |-> c]
        ELSE IF f.failures < MaxFailures THEN
            [verdict |-> "Tracked", entries |-> Put(c, i, f)]
        ELSE IF t + LockoutDuration > InstantMax THEN
            [verdict |-> "Panicked", entries |-> Put(c, i, f)]
        ELSE
            [verdict |-> "Locked",
             entries |-> Put(c, i, [f EXCEPT !.locked_until = t + LockoutDuration])]

LockedAt(e, t) == {i \in DOMAIN e : e[i].locked_until > t}

\* The history keeps as many times as it takes failures before a lockout.
Recent(times) == IF Len(times) < MaxFailures THEN times ELSE Tail(times)

-----------------------------------------------------------------------------
NoSnap == [tracked |-> 0, locked |-> 0]

LockoutInit ==
    /\ clock = 0
    /\ entries = [i \in {} |-> NewState(0)]
    /\ poisoned = FALSE
    /\ tracked_ips = 0
    /\ locked_ips = 0
    /\ pc = [h \in Handlers |-> "idle"]
    /\ ip \in [Handlers -> Ips]
    /\ now = [h \in Handlers |-> 0]
    /\ scrape = [h \in Handlers |-> "no"]
    /\ verdict = [h \in Handlers |-> "none"]
    /\ snap = [h \in Handlers |-> NoSnap]
    /\ lock = [i \in Ips |-> 0]
    /\ failed = [i \in Ips |-> <<>>]

Tick ==
    /\ clock < MaxTime
    /\ clock' = clock + 1
    /\ UNCHANGED <<tableVars, gaugeVars, handlerVars>>

Move(h, from, to) == pc[h] = from /\ pc' = [pc EXCEPT ![h] = to]

\* unauthorized(ip): record_failure reads the clock.
Unauthorized(h, i) ==
    /\ Move(h, "idle", "record")
    /\ ip' = [ip EXCEPT ![h] = i]
    /\ now' = [now EXCEPT ![h] = clock]
    /\ UNCHANGED <<clock, tableVars, gaugeVars, scrape, verdict, snap>>

\* record_failure_at takes the mutex with the time read before.  A lock()
\* on a poisoned mutex panics, and the request dies with it.
RecordFailure(h) ==
    LET r == RecordFailureAt(entries, ip[h], now[h])
        v == IF poisoned THEN "Panicked" ELSE r.verdict
    IN  /\ Move(h, "record", IF v = "Panicked" THEN "idle" ELSE "refresh")
        /\ verdict' = [verdict EXCEPT ![h] = v]
        /\ entries' = IF poisoned THEN entries ELSE r.entries
        /\ poisoned' = (v = "Panicked")
        /\ lock' = IF v = "Locked" THEN [lock EXCEPT ![ip[h]] = now[h] + LockoutDuration]
                   ELSE lock
        /\ failed' = CASE v = "Locked" -> [failed EXCEPT ![ip[h]] = <<>>]
                      [] v = "Tracked" -> [failed EXCEPT ![ip[h]] = Recent(Append(@, now[h]))]
                      [] OTHER -> failed
        /\ UNCHANGED <<clock, gaugeVars, ip, now, scrape, snap>>

\* A valid token, on an API route or on /metrics: record_success.
Authorized(h, i) ==
    /\ pc[h] = "idle"
    /\ pc' = [pc EXCEPT ![h] = IF poisoned THEN "idle" ELSE "refresh"]
    /\ entries' = IF poisoned THEN entries ELSE Keep(entries, Ips \ {i})
    /\ lock' = IF poisoned THEN lock ELSE [lock EXCEPT ![i] = 0]
    /\ failed' = IF poisoned THEN failed ELSE [failed EXCEPT ![i] = <<>>]
    /\ ip' = [ip EXCEPT ![h] = i]
    /\ \E s \in {"no", "auth"} : scrape' = [scrape EXCEPT ![h] = IF poisoned THEN "no" ELSE s]
    /\ UNCHANGED <<clock, poisoned, gaugeVars, now, verdict, snap>>

\* refresh_lockout_metrics: snapshot() reads the clock,
ReadClock(h) ==
    /\ Move(h, "refresh", "snapshot")
    /\ now' = [now EXCEPT ![h] = clock]
    /\ UNCHANGED <<clock, tableVars, gaugeVars, ip, scrape, verdict, snap>>

\* cleans the table and counts under the mutex (unless the table is disabled),
Snapshot(h) ==
    LET e == IF poisoned THEN entries ELSE CleanupStaleEntries(entries, now[h])
    IN  /\ Move(h, "snapshot", IF poisoned THEN "idle" ELSE "tracked")
        /\ entries' = e
        /\ snap' = [snap EXCEPT ![h] = [tracked |-> Cardinality(DOMAIN e),
                                        locked |-> Cardinality(LockedAt(e, now[h]))]]
        /\ scrape' = [scrape EXCEPT ![h] = IF poisoned THEN "no" ELSE @]
        /\ UNCHANGED <<clock, poisoned, historyVars, gaugeVars, ip, now, verdict>>

\* and set_lockout_state stores the counts, one gauge after the other.
SetTracked(h) ==
    /\ Move(h, "tracked", "locked")
    /\ tracked_ips' = snap[h].tracked
    /\ UNCHANGED <<clock, tableVars, locked_ips, ip, now, scrape, verdict, snap>>

\* A metrics request refreshes once more, and then renders what the gauges
\* hold.  With the request go its locals.
SetLocked(h) ==
    /\ Move(h, "locked", IF scrape[h] = "auth" THEN "refresh" ELSE "idle")
    /\ locked_ips' = snap[h].locked
    /\ scrape' = [scrape EXCEPT ![h] = IF @ = "auth" THEN "last" ELSE "no"]
    /\ now' = [now EXCEPT ![h] = 0]
    /\ verdict' = [verdict EXCEPT ![h] = "none"]
    /\ snap' = [snap EXCEPT ![h] = NoSnap]
    /\ UNCHANGED <<clock, tableVars, tracked_ips, ip>>

LockoutNext ==
    \/ Tick
    \/ \E h \in Handlers :
          \/ \E i \in Ips : Unauthorized(h, i) \/ Authorized(h, i)
          \/ RecordFailure(h) \/ ReadClock(h) \/ Snapshot(h)
          \/ SetTracked(h) \/ SetLocked(h)

LockoutSpec == LockoutInit /\ [][LockoutNext]_lockoutVars

-----------------------------------------------------------------------------
(* Properties.                                                             *)

\* A lockout lasts: until its end or a valid token, nothing removes, resets or
\* shortens it, neither the cleanup of a full table, nor a snapshot, nor a
\* handler that comes with a time it read long ago.
LockHolds ==
    \A i \in Ips : clock < lock[i] =>
        i \in DOMAIN entries /\ entries[i].locked_until = lock[i]

\* The table never grows past RRB_AUTH_LOCKOUT_MAX_ENTRIES.
TableBounded == Cardinality(DOMAIN entries) <= MaxEntries

\* A lockout is earned within one window: RRB_AUTH_LOCKOUT_FAILURES failures that
\* were recorded since the last lockout or valid token of the IP, none of them a
\* window or more later than the first.  What an earlier window counted is gone,
\* whether its entry was reset, cleaned away or met by a handler that came late.
LockoutEarned ==
    [][\A h \in Handlers :
          pc[h] = "record" /\ pc'[h] # "record" /\ verdict'[h] = "Locked" =>
              LET counted == Append(failed[ip[h]], now[h])
              IN  /\ Len(counted) = MaxFailures
                  /\ \A k \in 1 .. MaxFailures :
                        counted[k] < counted[1] + FailureWindow]_lockoutVars

\* A failure goes untracked only in a table full of live entries: a stale one
\* would have made room.
LimitMeansFull ==
    [][\A h \in Handlers :
          pc[h] = "record" /\ pc'[h] # "record" /\ verdict'[h] = "EntryLimitReached" =>
              /\ Cardinality(DOMAIN entries') = MaxEntries
              /\ \A i \in DOMAIN entries' : ~IsStale(entries'[i], now[h])]_lockoutVars

\* src/auth/lockout.rs: lock().expect("auth lockout mutex poisoned") takes it
\* that no thread ever panics while it holds the mutex.
NeverPoisoned == ~poisoned
=============================================================================
