-------------------------- MODULE AuthLockoutProofs --------------------------
(***************************************************************************)
(* Proofs about AuthLockout, for every set of client IPs and of handlers,   *)
(* every threshold, window, duration and table size, and a clock that runs  *)
(* as far as one likes.                                                    *)
(***************************************************************************)
EXTENDS AuthLockout, FiniteSetTheorems, SequenceTheorems, TLAPS

AuthStates == [failures : Nat, window_started_at : Nat, last_seen_at : Nat,
               locked_until : Nat \cup {NoLock}]

Verdicts == {"none", "Disabled", "EntryLimitReached", "AlreadyLocked", "Tracked",
             "Panicked", "Locked"}

\* A map from some of the client IPs to AuthStates.
IsTable(e) == DOMAIN e \subseteq Ips /\ e \in [DOMAIN e -> AuthStates]

Below(e) ==
    \A i \in DOMAIN e : /\ e[i].failures <= MaxFailures
                        /\ e[i].locked_until = NoLock => e[i].failures < MaxFailures

\* The count of an IP reaches the threshold only with a lockout, and never passes it.
UnlockedBelowThreshold == poisoned \/ Below(entries)

\* Types, and that no handler works with a time that is still to come.
LockoutTypes ==
    /\ clock \in Nat
    /\ IsTable(entries)
    /\ poisoned \in BOOLEAN
    /\ pc \in [Handlers -> {"idle", "record", "refresh", "snapshot", "tracked", "locked"}]
    /\ ip \in [Handlers -> Ips]
    /\ now \in [Handlers -> Nat]
    /\ \A h \in Handlers : now[h] <= clock
    /\ verdict \in [Handlers -> Verdicts]
    /\ lock \in [Ips -> Nat]

LockoutInv == LockoutTypes /\ LockHolds /\ TableBounded /\ UnlockedBelowThreshold

-----------------------------------------------------------------------------
(* The operations on the map.                                              *)

\* Keep removes entries and changes none.
LEMMA KeepTable ==
    ASSUME NEW e, NEW S, IsTable(e)
    PROVE  /\ IsTable(Keep(e, S))
           /\ DOMAIN Keep(e, S) = (DOMAIN e) \cap S
           /\ \A i \in DOMAIN Keep(e, S) : Keep(e, S)[i] = e[i]
BY DEF Keep, IsTable

\* Put changes one entry.
LEMMA PutTable ==
    ASSUME NEW e, NEW i \in Ips, NEW st \in AuthStates, IsTable(e)
    PROVE  /\ IsTable(Put(e, i, st))
           /\ DOMAIN Put(e, i, st) = (DOMAIN e) \cup {i}
           /\ Put(e, i, st)[i] = st
           /\ \A j \in (DOMAIN e) \ {i} : Put(e, i, st)[j] = e[j]
BY DEF Put, IsTable

\* A cleanup removes the stale entries and no others.
LEMMA CleanupTable ==
    ASSUME NEW e, NEW t, IsTable(e)
    PROVE  /\ IsTable(CleanupStaleEntries(e, t))
           /\ DOMAIN CleanupStaleEntries(e, t) = {i \in DOMAIN e : ~IsStale(e[i], t)}
           /\ \A i \in DOMAIN CleanupStaleEntries(e, t) : CleanupStaleEntries(e, t)[i] = e[i]
<1> DEFINE S == {i \in DOMAIN e : ~IsStale(e[i], t)}
<1>1. CleanupStaleEntries(e, t) = Keep(e, S)
  BY DEF CleanupStaleEntries
<1>2. (DOMAIN e) \cap S = S
  OBVIOUS
<1> QED BY <1>1, <1>2, KeepTable

\* A lockout that has not ended is not stale, at whatever time one looks.
LEMMA LockedIsNotStale ==
    ASSUME NEW st \in AuthStates, NEW t \in Nat, st.locked_until > t
    PROVE  ~IsStale(st, t)
BY DEF IsStale, AuthStates, NoLock

\* The table that a failure is recorded in.
LEMMA ClearedTable ==
    ASSUME NEW e, NEW i, NEW t, IsTable(e)
    PROVE  /\ IsTable(Cleared(e, i, t))
           /\ DOMAIN Cleared(e, i, t) \subseteq DOMAIN e
           /\ \A j \in DOMAIN Cleared(e, i, t) : Cleared(e, i, t)[j] = e[j]
BY CleanupTable DEF Cleared

\* Sizes of tables: a table is finite, and no larger than one it is part of.
LEMMA TableSizes ==
    ASSUME NEW e, IsTable(e)
    PROVE  /\ IsFiniteSet(DOMAIN e)
           /\ Cardinality(DOMAIN e) \in Nat
           /\ \A D \in SUBSET (DOMAIN e) : /\ Cardinality(D) \in Nat
                                           /\ Cardinality(D) <= Cardinality(DOMAIN e)
<1>1. IsFiniteSet(DOMAIN e)
  BY FS_Subset, LockoutAssumption DEF IsTable
<1> QED BY <1>1, FS_Subset, FS_CardinalityType

\* The state a failure leaves: counted, unlocked if it was not locked out or the
\* lockout is over, and within the threshold if it was below it.
LEMMA FailedState ==
    ASSUME NEW st \in AuthStates, NEW t \in Nat
    PROVE  /\ Failed(st, t) \in AuthStates
           /\ Failed(st, t).locked_until = NoLock
           /\ \/ Failed(st, t).failures = 1
              \/ st.locked_until = NoLock /\ Failed(st, t).failures = st.failures + 1
<1>1. NewState(t) \in AuthStates /\ NewState(t).locked_until = NoLock /\ NewState(t).failures = 0
  BY DEF NewState, AuthStates, NoLock
<1> DEFINE w == Windowed(st, t)
<1>2. w \in AuthStates /\ w.locked_until = NoLock
      /\ (w.failures = 0 \/ (st.locked_until = NoLock /\ w.failures = st.failures))
  BY <1>1 DEF Windowed
<1>3. Failed(st, t) = [w EXCEPT !.failures = @ + 1, !.last_seen_at = t]
  BY DEF Failed
<1> HIDE DEF w
<1>4. /\ [w EXCEPT !.failures = @ + 1, !.last_seen_at = t].locked_until = w.locked_until
      /\ [w EXCEPT !.failures = @ + 1, !.last_seen_at = t].failures = w.failures + 1
  BY <1>2 DEF AuthStates
<1>5. [w EXCEPT !.failures = @ + 1, !.last_seen_at = t] \in AuthStates
  <2> DEFINE u == [w EXCEPT !.failures = @ + 1]
  <2>1. u \in AuthStates
    BY <1>2 DEF AuthStates
  <2>2. [w EXCEPT !.failures = @ + 1, !.last_seen_at = t] = [u EXCEPT !.last_seen_at = t]
    OBVIOUS
  <2> HIDE DEF u
  <2>3. [u EXCEPT !.last_seen_at = t] \in AuthStates
    BY <2>1 DEF AuthStates
  <2> QED BY <2>2, <2>3
<1> QED BY <1>2, <1>3, <1>4, <1>5

-----------------------------------------------------------------------------
(* record_failure_at.                                                      *)

\* The entry it works on, and what a failure makes of it.
LEMMA RecordStates ==
    ASSUME NEW e, NEW i \in Ips, NEW t \in Nat, IsTable(e)
    PROVE  LET st == StateOf(e, i, t)
           IN  /\ st \in AuthStates /\ Failed(st, t) \in AuthStates
               /\ i \in DOMAIN e => st = e[i]
               /\ i \notin DOMAIN e => st = NewState(t)
<1> DEFINE st == StateOf(e, i, t)
<1>1. st \in AuthStates
  BY DEF StateOf, NewState, AuthStates, NoLock, IsTable
<1>2. Failed(st, t) \in AuthStates
  BY <1>1, FailedState
<1>3. (i \in DOMAIN e => st = e[i]) /\ (i \notin DOMAIN e => st = NewState(t))
  BY DEF StateOf
<1> QED BY <1>1, <1>2, <1>3

\* The entry of a lockout that begins at t.
LockedFrom(st, t) == [st EXCEPT !.locked_until = t + LockoutDuration]

LEMMA LockedState ==
    ASSUME NEW st \in AuthStates, NEW t \in Nat
    PROVE  /\ LockedFrom(st, t) \in AuthStates
           /\ LockedFrom(st, t).locked_until = t + LockoutDuration
           /\ LockedFrom(st, t).locked_until # NoLock
           /\ LockedFrom(st, t).failures = st.failures
BY LockoutAssumption DEF LockedFrom, AuthStates, NoLock

\* The ways it ends, with what each leaves of the table: v and d are the
\* verdict and the table, c the cleared table, st the entry in it, f the entry with the failure counted.
LEMMA RecordCases ==
    ASSUME NEW e, NEW i, NEW t, NEW c, NEW st, NEW f, NEW v, NEW d,
           c = Cleared(e, i, t), st = StateOf(c, i, t), f = Failed(st, t),
           v = RecordFailureAt(e, i, t).verdict, d = RecordFailureAt(e, i, t).entries
    PROVE  \/ MaxFailures = 0 /\ v = "Disabled" /\ d = e
           \/ /\ MaxFailures # 0 /\ NoRoom(c, i)
              /\ v = "EntryLimitReached" /\ d = c
           \/ /\ MaxFailures # 0 /\ ~NoRoom(c, i) /\ st.locked_until > t
              /\ v = "AlreadyLocked" /\ d = c
           \/ /\ MaxFailures # 0 /\ ~NoRoom(c, i) /\ ~(st.locked_until > t)
              /\ \/ /\ f.failures < MaxFailures
                    /\ v = "Tracked" /\ d = Put(c, i, f)
                 \/ v = "Panicked" /\ d = Put(c, i, f)
                 \/ /\ ~(f.failures < MaxFailures)
                    /\ v = "Locked" /\ d = Put(c, i, LockedFrom(f, t))
<1> DEFINE r == RecordFailureAt(e, i, t)
<1>1. r = IF MaxFailures = 0 THEN [verdict |-> "Disabled", entries |-> e]
          ELSE IF NoRoom(c, i) THEN [verdict |-> "EntryLimitReached", entries |-> c]
          ELSE IF st.locked_until > t THEN [verdict |-> "AlreadyLocked", entries |-> c]
          ELSE IF f.failures < MaxFailures
            THEN [verdict |-> "Tracked", entries |-> Put(c, i, f)]
          ELSE IF t + LockoutDuration > InstantMax
            THEN [verdict |-> "Panicked", entries |-> Put(c, i, f)]
          ELSE [verdict |-> "Locked", entries |-> Put(c, i, LockedFrom(f, t))]
  BY DEF RecordFailureAt, LockedFrom
<1> HIDE DEF r
<1>2. v = r.verdict /\ d = r.entries
  BY DEF r
<1> QED BY <1>1, <1>2

\* A table stays a table, and within its bound.
LEMMA RecordTable ==
    ASSUME NEW e, NEW i \in Ips, NEW t \in Nat, IsTable(e)
    PROVE  LET v == RecordFailureAt(e, i, t).verdict
               d == RecordFailureAt(e, i, t).entries
           IN  /\ IsTable(d)
               /\ v \in Verdicts
               /\ Cardinality(DOMAIN e) <= MaxEntries =>
                     Cardinality(DOMAIN d) <= MaxEntries
<1> DEFINE c == Cleared(e, i, t)
           st == StateOf(c, i, t)
           f == Failed(st, t)
           g == LockedFrom(f, t)
           v == RecordFailureAt(e, i, t).verdict
           d == RecordFailureAt(e, i, t).entries
<1>0. /\ IsTable(c) /\ DOMAIN c \subseteq DOMAIN e /\ \A j \in DOMAIN c : c[j] = e[j]
      /\ st \in AuthStates /\ f \in AuthStates
      /\ i \in DOMAIN c => st = c[i]
      /\ i \notin DOMAIN c => st = NewState(t)
  <2>1. IsTable(c) /\ DOMAIN c \subseteq DOMAIN e /\ \A j \in DOMAIN c : c[j] = e[j]
    BY ClearedTable
  <2> HIDE DEF c
  <2> QED BY <2>1, RecordStates
<1> SUFFICES /\ IsTable(d)
             /\ v \in Verdicts
             /\ Cardinality(DOMAIN e) <= MaxEntries =>
                   Cardinality(DOMAIN d) <= MaxEntries
  OBVIOUS
<1>1. g \in AuthStates
  BY <1>0, LockedState
<1> HIDE DEF c, st, f, g
<1>2. /\ Cardinality(DOMAIN e) \in Nat /\ Cardinality(DOMAIN c) \in Nat
      /\ Cardinality(DOMAIN c) <= Cardinality(DOMAIN e)
  BY <1>0, TableSizes
<1>3. \/ d \in {e, c} /\ v \in Verdicts
      \/ ~NoRoom(c, i) /\ d \in {Put(c, i, f), Put(c, i, g)} /\ v \in Verdicts
  <2> HIDE DEF v, d
  <2> QED BY RecordCases DEF c, st, f, g, v, d, Verdicts
<1> HIDE DEF v, d
<1>4. ASSUME NEW s \in AuthStates, ~NoRoom(c, i), d = Put(c, i, s)
      PROVE  /\ IsTable(d)
             /\ Cardinality(DOMAIN e) <= MaxEntries =>
                   Cardinality(DOMAIN d) <= MaxEntries
  <2>1. IsTable(d) /\ DOMAIN d = (DOMAIN c) \cup {i}
    BY <1>0, <1>4, PutTable
  <2>2. Cardinality((DOMAIN c) \cup {i}) =
          IF i \in DOMAIN c THEN Cardinality(DOMAIN c) ELSE Cardinality(DOMAIN c) + 1
    BY <1>0, TableSizes, FS_AddElement
  <2>3. i \in DOMAIN c \/ ~(Cardinality(DOMAIN c) >= MaxEntries)
    BY <1>4 DEF NoRoom
  <2> QED BY <1>2, <2>1, <2>2, <2>3, LockoutAssumption
<1>5. CASE d \in {e, c}
  BY <1>0, <1>2, <1>3, <1>5, LockoutAssumption
<1>6. CASE d \notin {e, c}
  BY <1>0, <1>1, <1>3, <1>4, <1>6
<1> QED BY <1>5, <1>6

\* No lockout that has not ended, seen from the time of the handler, is touched;
\* and "Locked" is what it says.
LEMMA RecordKeepsLocks ==
    ASSUME NEW e, NEW i \in Ips, NEW t \in Nat, IsTable(e)
    PROVE  LET v == RecordFailureAt(e, i, t).verdict
               d == RecordFailureAt(e, i, t).entries
           IN  /\ \A j \in DOMAIN e : e[j].locked_until > t =>
                     /\ j \in DOMAIN d /\ d[j] = e[j]
                     /\ v = "Locked" => j # i
               /\ v = "Locked" =>
                     /\ i \in DOMAIN d
                     /\ d[i].locked_until = t + LockoutDuration
<1> DEFINE c == Cleared(e, i, t)
           st == StateOf(c, i, t)
           f == Failed(st, t)
           g == LockedFrom(f, t)
           v == RecordFailureAt(e, i, t).verdict
           d == RecordFailureAt(e, i, t).entries
<1>0. /\ IsTable(c) /\ DOMAIN c \subseteq DOMAIN e /\ \A j \in DOMAIN c : c[j] = e[j]
      /\ st \in AuthStates /\ f \in AuthStates
      /\ i \in DOMAIN c => st = c[i]
      /\ i \notin DOMAIN c => st = NewState(t)
  <2>1. IsTable(c) /\ DOMAIN c \subseteq DOMAIN e /\ \A j \in DOMAIN c : c[j] = e[j]
    BY ClearedTable
  <2> HIDE DEF c
  <2> QED BY <2>1, RecordStates
<1> SUFFICES /\ \A j \in DOMAIN e : e[j].locked_until > t =>
                   /\ j \in DOMAIN d /\ d[j] = e[j]
                   /\ v = "Locked" => j # i
             /\ v = "Locked" =>
                   /\ i \in DOMAIN d
                   /\ d[i].locked_until = t + LockoutDuration
  OBVIOUS
<1>1. g \in AuthStates /\ g.locked_until = t + LockoutDuration
  BY <1>0, LockedState
<1>2. ASSUME NEW j \in DOMAIN e, e[j].locked_until > t
      PROVE  j \in DOMAIN c /\ c[j] = e[j]
  <2>1. ~IsStale(e[j], t)
    BY <1>2, LockedIsNotStale DEF IsTable
  <2>2. j \in DOMAIN c
    BY <2>1, CleanupTable DEF Cleared
  <2> QED BY <1>0, <2>2
<1> HIDE DEF c, st, f, g, v, d
<1>3. \/ d \in {e, c} /\ v # "Locked"
      \/ /\ ~(st.locked_until > t)
         /\ \/ d = Put(c, i, f) /\ v # "Locked"
            \/ d = Put(c, i, g) /\ v = "Locked"
  BY RecordCases DEF c, st, f, g, v, d
<1>4. ASSUME NEW s \in AuthStates, ~(st.locked_until > t), NEW j \in DOMAIN e,
             e[j].locked_until > t
      PROVE  j # i /\ j \in DOMAIN Put(c, i, s) /\ Put(c, i, s)[j] = e[j]
  <2>1. j \in DOMAIN c /\ c[j] = e[j]
    BY <1>2, <1>4
  <2>2. j # i
    BY <1>0, <1>4, <2>1
  <2>3. /\ DOMAIN Put(c, i, s) = (DOMAIN c) \cup {i}
        /\ \A k \in (DOMAIN c) \ {i} : Put(c, i, s)[k] = c[k]
    BY <1>0, PutTable, ZenonT(40)
  <2> QED BY <2>1, <2>2, <2>3
<1>5. i \in DOMAIN Put(c, i, g) /\ Put(c, i, g)[i] = g
  <2>1. DOMAIN Put(c, i, g) = (DOMAIN c) \cup {i} /\ Put(c, i, g)[i] = g
    BY <1>0, <1>1, PutTable
  <2> QED BY <2>1
<1>6. CASE d \in {e, c} /\ v # "Locked"
  BY <1>2, <1>6
<1>7. CASE ~(st.locked_until > t) /\ d = Put(c, i, f) /\ v # "Locked"
  BY <1>0, <1>4, <1>7
<1>8. CASE ~(st.locked_until > t) /\ d = Put(c, i, g) /\ v = "Locked"
  BY <1>1, <1>4, <1>5, <1>8
<1> QED BY <1>3, <1>6, <1>7, <1>8

\* The threshold: unless it panics, a failure leaves every count below it or locked.
LEMMA RecordThreshold ==
    ASSUME NEW e, NEW i \in Ips, NEW t \in Nat, IsTable(e), Below(e)
    PROVE  LET v == RecordFailureAt(e, i, t).verdict
               d == RecordFailureAt(e, i, t).entries
           IN  v # "Panicked" => Below(d)
<1> DEFINE c == Cleared(e, i, t)
           st == StateOf(c, i, t)
           f == Failed(st, t)
           g == LockedFrom(f, t)
           v == RecordFailureAt(e, i, t).verdict
           d == RecordFailureAt(e, i, t).entries
<1>0. /\ IsTable(c) /\ DOMAIN c \subseteq DOMAIN e /\ \A j \in DOMAIN c : c[j] = e[j]
      /\ st \in AuthStates /\ f \in AuthStates
      /\ i \in DOMAIN c => st = c[i]
      /\ i \notin DOMAIN c => st = NewState(t)
  <2>1. IsTable(c) /\ DOMAIN c \subseteq DOMAIN e /\ \A j \in DOMAIN c : c[j] = e[j]
    BY ClearedTable
  <2> HIDE DEF c
  <2> QED BY <2>1, RecordStates
<1> SUFFICES ASSUME v # "Panicked" PROVE Below(d)
  OBVIOUS
<1>1. /\ g \in AuthStates /\ g.locked_until # NoLock /\ g.failures = f.failures
  BY <1>0, LockedState
<1>2. \/ f.failures = 1
      \/ st.locked_until = NoLock /\ f.failures = st.failures + 1
  BY <1>0, FailedState
<1> HIDE DEF c, st, f, g, v, d
<1>3. Below(c)
  BY <1>0 DEF Below
<1>4. MaxFailures # 0 => f.failures <= MaxFailures
  <2>1. MaxFailures # 0 /\ st.locked_until = NoLock => st.failures < MaxFailures
    BY <1>0, <1>3, LockoutAssumption DEF Below, NewState
  <2>2. st.failures \in Nat /\ f.failures \in Nat
    BY <1>0 DEF AuthStates
  <2> QED BY <1>2, <2>1, <2>2, LockoutAssumption
<1>5. ASSUME NEW s \in AuthStates, s.failures <= MaxFailures,
             s.locked_until = NoLock => s.failures < MaxFailures
      PROVE  Below(Put(c, i, s))
  <2>1. /\ DOMAIN Put(c, i, s) = (DOMAIN c) \cup {i}
        /\ Put(c, i, s)[i] = s
        /\ \A j \in (DOMAIN c) \ {i} : Put(c, i, s)[j] = c[j]
    BY <1>0, PutTable, ZenonT(40)
  <2> QED BY <1>3, <1>5, <2>1, ZenonT(30) DEF Below
<1>6. \/ d \in {e, c}
      \/ MaxFailures # 0 /\ f.failures < MaxFailures /\ d = Put(c, i, f)
      \/ MaxFailures # 0 /\ d = Put(c, i, g)
  BY RecordCases DEF c, st, f, g, v, d
<1>7. CASE d \in {e, c}
  BY <1>3, <1>7
<1>8. CASE MaxFailures # 0 /\ f.failures < MaxFailures /\ d = Put(c, i, f)
  BY <1>0, <1>4, <1>5, <1>8
<1>9. CASE MaxFailures # 0 /\ d = Put(c, i, g)
  BY <1>1, <1>4, <1>5, <1>9
<1> QED BY <1>6, <1>7, <1>8, <1>9

\* EntryLimitReached: the table is full, and was cleaned at the handler's time.
LEMMA RecordLimit ==
    ASSUME NEW e, NEW i \in Ips, NEW t \in Nat, IsTable(e),
           RecordFailureAt(e, i, t).verdict = "EntryLimitReached"
    PROVE  LET v == RecordFailureAt(e, i, t).verdict
               d == RecordFailureAt(e, i, t).entries
           IN  /\ Cardinality(DOMAIN d) >= MaxEntries
               /\ \A j \in DOMAIN d : ~IsStale(d[j], t)
<1> DEFINE c == Cleared(e, i, t)
           st == StateOf(c, i, t)
           f == Failed(st, t)
           v == RecordFailureAt(e, i, t).verdict
           d == RecordFailureAt(e, i, t).entries
<1> SUFFICES /\ Cardinality(DOMAIN d) >= MaxEntries
             /\ \A j \in DOMAIN d : ~IsStale(d[j], t)
  OBVIOUS
<1>1. v = "EntryLimitReached"
  OBVIOUS
<1> HIDE DEF c, st, f, v, d
<1>2. d = c /\ NoRoom(c, i)
  BY <1>1, RecordCases DEF c, st, f, v, d
<1>3. c = CleanupStaleEntries(e, t)
  BY <1>2 DEF Cleared, c
<1>4. \A j \in DOMAIN c : ~IsStale(c[j], t)
  BY <1>3, CleanupTable
<1> QED BY <1>2, <1>4 DEF NoRoom

-----------------------------------------------------------------------------
(* The handlers.                                                           *)

\* record_failure with a time that the handler read, perhaps long, before.
LEMMA RecordStep ==
    ASSUME LockoutInv, NEW h \in Handlers, RecordFailure(h)
    PROVE  LockoutInv'
<1> DEFINE i == ip[h]
           t == now[h]
           v == RecordFailureAt(entries, i, t).verdict
           d == RecordFailureAt(entries, i, t).entries
<1>0. /\ clock \in Nat /\ i \in Ips /\ t \in Nat /\ t <= clock /\ IsTable(entries)
      /\ poisoned \in BOOLEAN /\ lock \in [Ips -> Nat] /\ t + LockoutDuration \in Nat
  BY LockoutAssumption DEF LockoutInv, LockoutTypes
<1>1. /\ IsTable(d) /\ v \in Verdicts
      /\ Cardinality(DOMAIN entries) <= MaxEntries => Cardinality(DOMAIN d) <= MaxEntries
  BY <1>0, RecordTable
<1>2. /\ \A j \in DOMAIN entries : entries[j].locked_until > t =>
            j \in DOMAIN d /\ d[j] = entries[j] /\ (v = "Locked" => j # i)
      /\ v = "Locked" => i \in DOMAIN d /\ d[i].locked_until = t + LockoutDuration
  BY <1>0, RecordKeepsLocks
<1>3. Below(entries) /\ v # "Panicked" => Below(d)
  BY <1>0, RecordThreshold
<1> DEFINE w == IF poisoned THEN "Panicked" ELSE v
<1>4. /\ pc[h] = "record"
      /\ pc' = [pc EXCEPT ![h] = IF w = "Panicked" THEN "idle" ELSE "refresh"]
      /\ verdict' = [verdict EXCEPT ![h] = w]
      /\ entries' = IF poisoned THEN entries ELSE d
      /\ poisoned' = (w = "Panicked")
      /\ lock' = IF w = "Locked" THEN [lock EXCEPT ![i] = t + LockoutDuration] ELSE lock
      /\ UNCHANGED <<clock, ip, now>>
  BY DEF RecordFailure, Move
<1> HIDE DEF i, t, v, d
<1>5. LockoutTypes'
  <2>1. IsTable(entries)'
    BY <1>0, <1>1, <1>4 DEF IsTable
  <2>2. lock' \in [Ips -> Nat] /\ poisoned' \in BOOLEAN
    BY <1>0, <1>4
  <2>3. /\ pc' \in [Handlers -> {"idle", "record", "refresh", "snapshot", "tracked", "locked"}]
        /\ verdict' \in [Handlers -> Verdicts]
    BY <1>1, <1>4 DEF LockoutInv, LockoutTypes, Verdicts
  <2> QED BY <1>4, <2>1, <2>2, <2>3 DEF LockoutInv, LockoutTypes
<1>6. LockHolds'
  <2> SUFFICES ASSUME NEW j \in Ips, clock < lock'[j]
               PROVE  j \in DOMAIN entries' /\ entries'[j].locked_until = lock'[j]
    BY <1>4 DEF LockHolds
  <2>1. CASE w = "Locked" /\ j = i
    BY <1>0, <1>2, <1>4, <2>1
  <2>2. CASE ~(w = "Locked" /\ j = i)
    <3>1. lock'[j] = lock[j]
      BY <1>0, <1>4, <2>2
    <3>2. j \in DOMAIN entries /\ entries[j].locked_until = lock[j]
      BY <3>1 DEF LockoutInv, LockHolds
    <3>3. entries[j].locked_until > t
      BY <1>0, <3>1, <3>2
    <3> QED BY <1>2, <1>4, <3>1, <3>2, <3>3
  <2> QED BY <2>1, <2>2
<1>7. TableBounded'
  BY <1>1, <1>4 DEF LockoutInv, TableBounded
<1>8. UnlockedBelowThreshold'
  <2>1. CASE w = "Panicked"
    BY <1>4, <2>1 DEF UnlockedBelowThreshold
  <2>2. CASE w # "Panicked"
    <3>1. Below(entries) /\ entries' = d /\ v # "Panicked"
      BY <1>4, <2>2 DEF LockoutInv, UnlockedBelowThreshold, Below
    <3>2. Below(d)
      BY <1>3, <3>1
    <3> QED BY <3>1, <3>2 DEF Below, UnlockedBelowThreshold
  <2> QED BY <2>1, <2>2
<1> QED BY <1>5, <1>6, <1>7, <1>8 DEF LockoutInv

\* A step that only removes entries, and none whose lockout goes on.
LEMMA ShrinkStep ==
    ASSUME LockoutInv, LockoutTypes', UNCHANGED <<clock, poisoned>>,
           DOMAIN entries' \subseteq DOMAIN entries,
           \A i \in DOMAIN entries' : entries'[i] = entries[i],
           \A i \in Ips : clock < lock'[i] =>
               lock'[i] = lock[i] /\ (i \in DOMAIN entries => i \in DOMAIN entries')
    PROVE  LockoutInv'
<1>1. LockHolds'
  BY DEF LockoutInv, LockHolds
<1>2. TableBounded'
  <2>1. /\ Cardinality(DOMAIN entries) \in Nat
        /\ Cardinality(DOMAIN entries') \in Nat
        /\ Cardinality(DOMAIN entries') <= Cardinality(DOMAIN entries)
    BY TableSizes DEF LockoutInv, LockoutTypes
  <2> QED BY <2>1, LockoutAssumption DEF LockoutInv, TableBounded
<1>3. UnlockedBelowThreshold'
  BY DEF LockoutInv, UnlockedBelowThreshold, Below
<1> QED BY <1>1, <1>2, <1>3 DEF LockoutInv

\* Every action keeps the invariant.
LEMMA LockoutStep == LockoutInv /\ [LockoutNext]_lockoutVars => LockoutInv'
<1> SUFFICES ASSUME LockoutInv, [LockoutNext]_lockoutVars PROVE LockoutInv'
  OBVIOUS
<1>0. LockoutTypes /\ IsTable(entries)
  BY DEF LockoutInv, LockoutTypes
<1>1. CASE UNCHANGED lockoutVars
  BY <1>1 DEF lockoutVars, tableVars, historyVars, handlerVars, LockoutInv, LockoutTypes, LockHolds,
              TableBounded, UnlockedBelowThreshold, IsTable
<1>2. CASE Tick
  <2>1. /\ clock' \in Nat /\ clock' > clock /\ UNCHANGED <<tableVars, handlerVars>>
    BY <1>0, <1>2 DEF Tick, LockoutTypes
  <2>2. LockoutTypes'
    BY <1>0, <2>1 DEF LockoutTypes, tableVars, historyVars, handlerVars, IsTable
  <2>3. LockHolds'
    BY <1>0, <2>1 DEF LockoutInv, LockHolds, LockoutTypes, tableVars, historyVars
  <2> QED BY <2>1, <2>2, <2>3 DEF LockoutInv, TableBounded, UnlockedBelowThreshold, tableVars, historyVars
<1>3. ASSUME NEW h \in Handlers, UNCHANGED <<clock, tableVars>>,
             pc' \in [Handlers -> {"idle", "record", "refresh", "snapshot", "tracked", "locked"}],
             ip' \in [Handlers -> Ips], verdict' \in [Handlers -> Verdicts],
             now' \in [Handlers -> Nat], \A g \in Handlers : now'[g] <= clock
      PROVE  LockoutInv'
  BY <1>3 DEF tableVars, historyVars, LockoutInv, LockoutTypes, LockHolds, TableBounded,
              UnlockedBelowThreshold, IsTable
<1>4. ASSUME NEW h \in Handlers, NEW i \in Ips, Unauthorized(h, i) PROVE LockoutInv'
  BY <1>0, <1>3, <1>4 DEF Unauthorized, Move, LockoutTypes
<1>5. ASSUME NEW h \in Handlers, ReadClock(h) \/ SetTracked(h) PROVE LockoutInv'
  BY <1>0, <1>3, <1>5 DEF ReadClock, SetTracked, Move, LockoutTypes
<1>6. ASSUME NEW h \in Handlers, SetLocked(h) PROVE LockoutInv'
  BY <1>0, <1>3, <1>6 DEF SetLocked, Move, LockoutTypes, Verdicts
<1>7. ASSUME NEW h \in Handlers, RecordFailure(h) PROVE LockoutInv'
  BY <1>7, RecordStep
<1>8. ASSUME NEW h \in Handlers, NEW i \in Ips, Authorized(h, i) PROVE LockoutInv'
  <2>1. CASE poisoned
    <3>1. entries' = entries /\ lock' = lock
      BY <1>8, <2>1 DEF Authorized
    <3> QED BY <1>0, <1>3, <1>8, <2>1, <3>1 DEF Authorized, LockoutTypes, tableVars, historyVars
  <2>2. CASE ~poisoned
    <3>1. /\ entries' = Keep(entries, Ips \ {i})
          /\ lock' = [lock EXCEPT ![i] = 0]
          /\ UNCHANGED <<clock, poisoned, now, verdict>>
      BY <1>8, <2>2 DEF Authorized
    <3>2. /\ IsTable(entries')
          /\ DOMAIN entries' = (DOMAIN entries) \cap (Ips \ {i})
          /\ \A j \in DOMAIN entries' : entries'[j] = entries[j]
      BY <1>0, <3>1, KeepTable
    <3>3. LockoutTypes'
      <4>1. /\ pc' \in [Handlers -> {"idle", "record", "refresh", "snapshot", "tracked", "locked"}]
            /\ ip' \in [Handlers -> Ips]
            /\ lock' \in [Ips -> Nat]
        BY <1>0, <1>8, <2>2 DEF Authorized, LockoutTypes
      <4> QED BY <1>0, <3>1, <3>2, <4>1 DEF LockoutTypes, IsTable
    <3>4. \A j \in Ips : clock < lock'[j] =>
              lock'[j] = lock[j] /\ (j \in DOMAIN entries => j \in DOMAIN entries')
      BY <1>0, <3>1, <3>2 DEF LockoutTypes
    <3> QED BY <3>1, <3>2, <3>3, <3>4, ShrinkStep
  <2> QED BY <2>1, <2>2
<1>9. ASSUME NEW h \in Handlers, Snapshot(h) PROVE LockoutInv'
  <2>0. /\ pc' \in [Handlers -> {"idle", "record", "refresh", "snapshot", "tracked", "locked"}]
        /\ UNCHANGED <<clock, poisoned, lock, failed, ip, now, verdict>>
    BY <1>0, <1>9 DEF Snapshot, Move, LockoutTypes, historyVars
  <2>1. CASE poisoned
    <3>1. entries' = entries
      BY <1>9, <2>1 DEF Snapshot
    <3> QED BY <1>0, <1>3, <2>0, <3>1 DEF LockoutTypes, tableVars, historyVars
  <2>2. CASE ~poisoned
    <3>1. entries' = CleanupStaleEntries(entries, now[h])
      BY <1>9, <2>2 DEF Snapshot
    <3>2. /\ IsTable(entries')
          /\ DOMAIN entries' = {i \in DOMAIN entries : ~IsStale(entries[i], now[h])}
          /\ \A j \in DOMAIN entries' : entries'[j] = entries[j]
      BY <1>0, <3>1, CleanupTable
    <3>3. LockoutTypes'
      BY <1>0, <2>0, <3>2 DEF LockoutTypes, IsTable
    <3>4. ASSUME NEW j \in Ips, clock < lock'[j]
          PROVE  lock'[j] = lock[j] /\ (j \in DOMAIN entries => j \in DOMAIN entries')
      <4>1. lock'[j] = lock[j] /\ j \in DOMAIN entries /\ entries[j].locked_until = lock[j]
        BY <2>0, <3>4 DEF LockoutInv, LockHolds
      <4>2. /\ entries[j] \in AuthStates /\ now[h] \in Nat
            /\ now[h] <= clock /\ clock \in Nat /\ lock[j] \in Nat
        BY <1>0, <4>1 DEF LockoutTypes, IsTable
      <4>3. entries[j].locked_until > now[h]
        BY <3>4, <4>1, <4>2
      <4> QED BY <3>2, <4>1, <4>2, <4>3, LockedIsNotStale
    <3> QED BY <2>0, <3>2, <3>3, <3>4, ShrinkStep
  <2> QED BY <2>1, <2>2
<1> QED BY <1>1, <1>2, <1>4, <1>5, <1>6, <1>7, <1>8, <1>9 DEF LockoutNext

\* The invariant of the lockout table and of its handlers.
THEOREM LockoutInvariant == LockoutSpec => []LockoutInv
<1>1. LockoutInit => LockoutInv
  <2> SUFFICES ASSUME LockoutInit PROVE LockoutInv
    OBVIOUS
  <2>1. DOMAIN entries = {} /\ entries \in [{} -> AuthStates]
    BY DEF LockoutInit
  <2>2. LockoutTypes
    <3>1. IsTable(entries)
      BY <2>1, Zenon DEF IsTable
    <3>2. clock \in Nat /\ \A h \in Handlers : now[h] <= clock
      BY DEF LockoutInit
    <3>3. now \in [Handlers -> Nat] /\ lock \in [Ips -> Nat]
      BY DEF LockoutInit
    <3>4. poisoned \in BOOLEAN
      BY DEF LockoutInit
    <3> QED BY <3>1, <3>2, <3>3, <3>4 DEF LockoutInit, LockoutTypes, Verdicts
  <2>3. LockHolds /\ UnlockedBelowThreshold
    BY <2>1 DEF LockoutInit, LockHolds, UnlockedBelowThreshold, Below
  <2>4. TableBounded
    BY <2>1, FS_EmptySet, LockoutAssumption DEF TableBounded
  <2> QED BY <2>2, <2>3, <2>4 DEF LockoutInv
<1> QED BY <1>1, LockoutStep, PTL DEF LockoutSpec

\* No cleanup, snapshot or late handler ends, removes or shortens a lockout, with
\* any number of clients and handlers and any delay between clock and mutex.
THEOREM LockoutsHold == LockoutSpec => []LockHolds
<1>1. LockoutInv => LockHolds
  BY DEF LockoutInv
<1> QED BY <1>1, LockoutInvariant, PTL

\* record_failure_at never lets the map grow past max_entries.
THEOREM TableIsBounded == LockoutSpec => []TableBounded
<1>1. LockoutInv => TableBounded
  BY DEF LockoutInv
<1> QED BY <1>1, LockoutInvariant, PTL

-----------------------------------------------------------------------------
(* Windows.                                                                *)

\* The failures that an entry counts are the last ones of its IP, the first of
\* them began the window and none was read as late as its end.
InWindow(times, st) ==
    LET m == Len(times) - st.failures
    IN  /\ st.failures \in 1 .. Len(times)
        /\ times[m + 1] = st.window_started_at
        /\ \A k \in m + 1 .. Len(times) : times[k] < st.window_started_at + FailureWindow

HistoryOK ==
    /\ failed \in [Ips -> Seq(Nat)]
    /\ \A i \in Ips : Len(failed[i]) < MaxFailures \/ failed[i] = <<>>

WindowInv ==
    /\ HistoryOK
    /\ poisoned \/ \A i \in DOMAIN entries :
          entries[i].locked_until = NoLock => InWindow(failed[i], entries[i])

\* A failure begins a window, or it comes before the end of the one it counts in.
LEMMA FailedWindow ==
    ASSUME NEW st \in AuthStates, NEW t \in Nat
    PROVE  LET f == Failed(st, t)
           IN  \/ f.failures = 1 /\ f.window_started_at = t
               \/ /\ st.locked_until = NoLock /\ st.failures # 0
                  /\ f.failures = st.failures + 1
                  /\ f.window_started_at = st.window_started_at
                  /\ t < st.window_started_at + FailureWindow
               \/ st.failures = 0 /\ st.locked_until = NoLock
                  /\ f.failures = 1 /\ f.window_started_at = st.window_started_at
<1> DEFINE w == Windowed(st, t)
<1>1. \/ w = NewState(t)
      \/ w = st /\ st.locked_until = NoLock /\ DurationSince(t, st.window_started_at) < FailureWindow
  <2>1. DurationSince(t, st.window_started_at) \in Nat
    BY DEF DurationSince, AuthStates
  <2> QED BY <2>1, LockoutAssumption DEF Windowed
<1>2. w \in AuthStates
  BY <1>1 DEF NewState, AuthStates, NoLock
<1>3. Failed(st, t) = [w EXCEPT !.failures = @ + 1, !.last_seen_at = t]
  BY DEF Failed
<1>4. NewState(t).failures = 0 /\ NewState(t).window_started_at = t
  BY DEF NewState
<1> HIDE DEF w
<1>5. /\ Failed(st, t).failures = w.failures + 1
      /\ Failed(st, t).window_started_at = w.window_started_at
  BY <1>2, <1>3 DEF AuthStates
<1>6. CASE w = NewState(t)
  BY <1>4, <1>5, <1>6
<1>7. CASE w = st /\ st.locked_until = NoLock /\ DurationSince(t, st.window_started_at) < FailureWindow
  <2>1. t < st.window_started_at + FailureWindow
    BY <1>7, LockoutAssumption DEF DurationSince, AuthStates
  <2>2. st.failures \in Nat
    BY DEF AuthStates
  <2> QED BY <1>5, <1>7, <2>1, <2>2
<1> QED BY <1>1, <1>6, <1>7

\* What the history is after one more failure: its end, and the times before it.
LEMMA RecentTimes ==
    ASSUME NEW s \in Seq(Nat), NEW t \in Nat, Len(s) < MaxFailures
    PROVE  LET r == Recent(Append(s, t))
           IN  /\ r \in Seq(Nat)
               /\ Len(r) < MaxFailures
               /\ \/ Len(r) = Len(s) + 1
                  \/ Len(r) = Len(s) /\ Len(s) = MaxFailures - 1
               /\ \A k \in 1 .. Len(r) :
                     r[k] = Append(s, t)[k + (Len(s) + 1 - Len(r))]
<1> DEFINE a == Append(s, t)
<1>1. /\ a \in Seq(Nat) /\ Len(a) = Len(s) + 1 /\ a # <<>>
      /\ Len(s) \in Nat
  OBVIOUS
<1> HIDE DEF a
<1>2. CASE Len(a) < MaxFailures
  <2>1. Recent(a) = a
    BY <1>2 DEF Recent
  <2>2. \A k \in 1 .. Len(a) : a[k] = a[k + (Len(s) + 1 - Len(a))]
    BY <1>1
  <2> QED BY <1>1, <1>2, <2>1, <2>2 DEF a
<1>3. CASE ~(Len(a) < MaxFailures)
  <2>1. Recent(a) = Tail(a)
    BY <1>3 DEF Recent
  <2>2. Len(s) = MaxFailures - 1
    BY <1>1, <1>3, LockoutAssumption
  <2>3. /\ Tail(a) \in Seq(Nat) /\ Len(Tail(a)) = Len(s)
        /\ \A k \in 1 .. Len(s) : Tail(a)[k] = a[k + 1]
    BY <1>1
  <2>4. Len(s) + 1 - Len(Tail(a)) = 1
    BY <1>1, <2>3
  <2>5. /\ Recent(a) \in Seq(Nat) /\ Len(Recent(a)) = Len(s) /\ Len(Recent(a)) < MaxFailures
    BY <2>1, <2>2, <2>3, LockoutAssumption
  <2>6. \A k \in 1 .. Len(Recent(a)) : Recent(a)[k] = a[k + (Len(s) + 1 - Len(Recent(a)))]
    BY <2>1, <2>3, <2>4
  <2> QED BY <2>2, <2>5, <2>6 DEF a
<1> QED BY <1>2, <1>3

\* A failure that is tracked stays in its window.
LEMMA TrackedInWindow ==
    ASSUME NEW s \in Seq(Nat), NEW t \in Nat, Len(s) < MaxFailures,
           NEW st \in AuthStates, NEW f \in AuthStates, f.failures < MaxFailures,
           \/ f.failures = 1 /\ f.window_started_at = t
           \/ /\ InWindow(s, st)
              /\ f.failures = st.failures + 1
              /\ f.window_started_at = st.window_started_at
              /\ t < st.window_started_at + FailureWindow
    PROVE  InWindow(Recent(Append(s, t)), f)
<1> DEFINE r == Recent(Append(s, t))
           n == f.failures
           ws == f.window_started_at
           L == Len(s)
<1>1. /\ r \in Seq(Nat) /\ Len(r) < MaxFailures
      /\ Len(r) = L + 1 \/ (Len(r) = L /\ L = MaxFailures - 1)
      /\ \A k \in 1 .. Len(r) : r[k] = Append(s, t)[k + (L + 1 - Len(r))]
  BY RecentTimes
<1>2. L \in Nat /\ Len(r) \in Nat /\ n \in Nat /\ ws \in Nat /\ n < MaxFailures
  BY <1>1 DEF AuthStates
<1>3. Append(s, t)[L + 1] = t /\ \A k \in 1 .. L : Append(s, t)[k] = s[k]
  OBVIOUS
<1> HIDE DEF r, n, ws, L
<1>4. MaxFailures \in Nat /\ FailureWindow \in Nat \ {0}
  BY LockoutAssumption
<1>5. CASE n = 1 /\ ws = t
  <2>1. 1 \in 1 .. Len(r) /\ Len(r) - n + 1 = Len(r)
    BY <1>1, <1>2, <1>4, <1>5
  <2>2. r[Len(r)] = t
    <3>1. Len(r) \in 1 .. Len(r) /\ Len(r) + (L + 1 - Len(r)) = L + 1
      BY <1>2, <2>1
    <3> QED BY <1>1, <1>3, <3>1
  <2>3. \A k \in Len(r) - n + 1 .. Len(r) : k = Len(r)
    BY <1>2, <2>1
  <2>4. t < t + FailureWindow /\ n \in 1 .. Len(r)
    BY <1>4, <1>5, <2>1
  <2>5. \A k \in Len(r) - n + 1 .. Len(r) : r[k] < ws + FailureWindow
    BY <1>5, <2>2, <2>3, <2>4
  <2> QED BY <1>5, <2>1, <2>2, <2>4, <2>5 DEF InWindow, n, ws, r
<1>6. CASE /\ InWindow(s, st) /\ n = st.failures + 1
           /\ ws = st.window_started_at /\ t < ws + FailureWindow
  <2> DEFINE o == st.failures
             m == L - o
  <2>1. /\ o \in Nat /\ o \in 1 .. L /\ m \in Nat /\ n = o + 1
        /\ s[m + 1] = ws
        /\ \A k \in m + 1 .. L : s[k] < ws + FailureWindow
    BY <1>2, <1>6, SMTT(30) DEF InWindow, AuthStates, L
  <2> HIDE DEF o, m
  <2>2. n \in 1 .. Len(r)
    BY <1>1, <1>2, <1>4, <2>1
  <2> DEFINE d == L + 1 - Len(r)
             q == Len(r) - n
  <2>3. q \in Nat /\ q + 1 \in 1 .. Len(r) /\ q + d = m /\ d \in 0 .. 1
    <3>1. q + d = L + 1 - n /\ m = L + 1 - n
      BY <1>2, <2>1 DEF m
    <3>2. d \in 0 .. 1
      BY <1>1, <1>2
    <3>3. q \in Nat /\ q + 1 \in 1 .. Len(r)
      BY <1>2, <2>2
    <3> QED BY <3>1, <3>2, <3>3
  <2>4. \A k \in 1 .. Len(r) : r[k] = Append(s, t)[k + d]
    BY <1>1
  <2> HIDE DEF d, q
  <2>5. r[q + 1] = ws
    <3>1. m + 1 \in 1 .. L /\ (q + 1) + d = m + 1
      BY <1>2, <2>1, <2>3 DEF m
    <3> QED BY <1>3, <2>1, <2>3, <2>4, <3>1
  <2>6. ASSUME NEW k \in q + 1 .. Len(r) PROVE r[k] < ws + FailureWindow
    <3>1. k \in 1 .. Len(r) /\ k \in Nat /\ k >= q + 1 /\ k <= Len(r)
      BY <1>2, <2>3, <2>6
    <3>2. k + d >= m + 1 /\ k + d <= L + 1 /\ k + d \in Int
      BY <1>2, <2>1, <2>3, <3>1 DEF d
    <3> DEFINE j == k + d
    <3>3. j >= m + 1 /\ j <= L + 1 /\ j \in Int /\ r[k] = Append(s, t)[j]
      BY <2>4, <3>1, <3>2
    <3> HIDE DEF j
    <3>4. CASE j = L + 1
      BY <1>3, <1>6, <3>3, <3>4
    <3>5. CASE j # L + 1
      <4>0. m \in Nat /\ L \in Nat
        BY <1>2, <2>1
      <4>1. j \in m + 1 .. L /\ j \in 1 .. L
        BY <3>3, <3>5, <4>0
      <4> QED BY <1>3, <2>1, <3>3, <4>1
    <3> QED BY <3>4, <3>5
  <2> QED BY <2>2, <2>5, <2>6 DEF InWindow, n, ws, r, q
<1> QED BY <1>5, <1>6 DEF n, ws

\* One failure: the entry it counts, as a window of the history.
LEMMA RecordWindow ==
    ASSUME NEW e, NEW i \in Ips, NEW t \in Nat, NEW s \in Seq(Nat),
           IsTable(e), Below(e), Len(s) < MaxFailures \/ s = <<>>,
           i \in DOMAIN e /\ e[i].locked_until = NoLock => InWindow(s, e[i])
    PROVE  LET v == RecordFailureAt(e, i, t).verdict
               d == RecordFailureAt(e, i, t).entries
           IN  /\ \A j \in (DOMAIN d) \ {i} : j \in DOMAIN e /\ d[j] = e[j]
               /\ v \in {"Disabled", "EntryLimitReached", "AlreadyLocked"} /\ i \in DOMAIN d =>
                     i \in DOMAIN e /\ d[i] = e[i]
               /\ v = "Tracked" =>
                     /\ Len(s) < MaxFailures
                     /\ i \in DOMAIN d /\ InWindow(Recent(Append(s, t)), d[i])
               /\ v = "Locked" =>
                     /\ i \in DOMAIN d /\ d[i].locked_until # NoLock
                     /\ Len(Append(s, t)) = MaxFailures
                     /\ \A k \in 1 .. MaxFailures :
                           Append(s, t)[k] < Append(s, t)[1] + FailureWindow
<1> DEFINE c == Cleared(e, i, t)
           st == StateOf(c, i, t)
           f == Failed(st, t)
           g == LockedFrom(f, t)
           v == RecordFailureAt(e, i, t).verdict
           d == RecordFailureAt(e, i, t).entries
<1>0. /\ IsTable(c) /\ DOMAIN c \subseteq DOMAIN e /\ \A j \in DOMAIN c : c[j] = e[j]
      /\ st \in AuthStates /\ f \in AuthStates
      /\ i \in DOMAIN c => st = c[i]
      /\ i \notin DOMAIN c => st = NewState(t)
  <2>1. IsTable(c) /\ DOMAIN c \subseteq DOMAIN e /\ \A j \in DOMAIN c : c[j] = e[j]
    BY ClearedTable
  <2> HIDE DEF c
  <2> QED BY <2>1, RecordStates
<1> SUFFICES /\ \A j \in (DOMAIN d) \ {i} : j \in DOMAIN e /\ d[j] = e[j]
             /\ v \in {"Disabled", "EntryLimitReached", "AlreadyLocked"} /\ i \in DOMAIN d =>
                   i \in DOMAIN e /\ d[i] = e[i]
             /\ v = "Tracked" =>
                   /\ Len(s) < MaxFailures
                   /\ i \in DOMAIN d /\ InWindow(Recent(Append(s, t)), d[i])
             /\ v = "Locked" =>
                   /\ i \in DOMAIN d /\ d[i].locked_until # NoLock
                   /\ Len(Append(s, t)) = MaxFailures
                   /\ \A k \in 1 .. MaxFailures :
                         Append(s, t)[k] < Append(s, t)[1] + FailureWindow
  OBVIOUS
<1>1. g \in AuthStates /\ g.locked_until # NoLock
  BY <1>0, LockedState
<1>2. \/ f.failures = 1 /\ f.window_started_at = t
      \/ /\ st.locked_until = NoLock /\ st.failures # 0
         /\ f.failures = st.failures + 1
         /\ f.window_started_at = st.window_started_at
         /\ t < st.window_started_at + FailureWindow
      \/ st.failures = 0 /\ st.locked_until = NoLock
         /\ f.failures = 1 /\ f.window_started_at = st.window_started_at
  BY <1>0, FailedWindow
<1> HIDE DEF c, st, f, g, v, d
<1>3. i \in DOMAIN c /\ st.locked_until = NoLock =>
          /\ InWindow(s, st) /\ st.failures < MaxFailures /\ st.failures # 0
  <2> SUFFICES ASSUME i \in DOMAIN c, st.locked_until = NoLock
               PROVE  InWindow(s, st) /\ st.failures < MaxFailures /\ st.failures # 0
    OBVIOUS
  <2>1. i \in DOMAIN e /\ st = e[i]
    BY <1>0
  <2>2. InWindow(s, st) /\ st.failures < MaxFailures
    BY <2>1 DEF Below
  <2> QED BY <2>2 DEF InWindow
<1>4. \/ f.failures = 1 /\ f.window_started_at = t
      \/ /\ InWindow(s, st) /\ st.failures < MaxFailures
         /\ f.failures = st.failures + 1
         /\ f.window_started_at = st.window_started_at
         /\ t < st.window_started_at + FailureWindow
  <2>1. CASE i \in DOMAIN c
    BY <1>2, <1>3, <2>1
  <2>2. CASE i \notin DOMAIN c
    <3>1. st.failures = 0 /\ st.window_started_at = t
      BY <1>0, <2>2 DEF NewState
    <3> QED BY <1>2, <3>1
  <2> QED BY <2>1, <2>2
<1>5. \/ d \in {e, c} /\ v \notin {"Tracked", "Locked"}
      \/ v = "Panicked" /\ d = Put(c, i, f)
      \/ /\ v = "Tracked" /\ MaxFailures # 0 /\ f.failures < MaxFailures
         /\ d = Put(c, i, f)
      \/ /\ v = "Locked" /\ MaxFailures # 0 /\ ~(f.failures < MaxFailures)
         /\ d = Put(c, i, g)
  BY RecordCases DEF c, st, f, g, v, d
<1>6. ASSUME NEW u \in AuthStates, d = Put(c, i, u)
      PROVE  /\ i \in DOMAIN d /\ d[i] = u
             /\ \A j \in (DOMAIN d) \ {i} : j \in DOMAIN e /\ d[j] = e[j]
  <2>1. /\ DOMAIN Put(c, i, u) = (DOMAIN c) \cup {i} /\ Put(c, i, u)[i] = u
        /\ \A j \in (DOMAIN c) \ {i} : Put(c, i, u)[j] = c[j]
    BY <1>0, PutTable, ZenonT(40)
  <2> QED BY <1>0, <1>6, <2>1
<1>7. CASE d \in {e, c} /\ v \notin {"Tracked", "Locked"}
  BY <1>0, <1>7
<1>8. CASE v = "Panicked" /\ d = Put(c, i, f)
  BY <1>0, <1>6, <1>8
<1>9. CASE v = "Tracked" /\ MaxFailures # 0 /\ f.failures < MaxFailures /\ d = Put(c, i, f)
  <2>1. Len(s) < MaxFailures
    BY <1>9, LockoutAssumption
  <2>2. InWindow(Recent(Append(s, t)), f)
    BY <1>0, <1>4, <1>9, <2>1, TrackedInWindow
  <2> QED BY <1>0, <1>6, <1>9, <2>1, <2>2
<1>10. CASE v = "Locked" /\ MaxFailures # 0 /\ ~(f.failures < MaxFailures) /\ d = Put(c, i, g)
  <2>1. f.failures >= MaxFailures
    BY <1>0, <1>10, LockoutAssumption DEF AuthStates
  <2> DEFINE a == Append(s, t)
  <2>2. /\ Len(s) \in Nat /\ Len(a) = Len(s) + 1 /\ a[Len(s) + 1] = t
        /\ \A k \in 1 .. Len(s) : a[k] = s[k]
    OBVIOUS
  <2>3. Len(s) < MaxFailures
    BY <1>10, LockoutAssumption
  <2> HIDE DEF a
  <2>4. Len(a) = MaxFailures /\ \A k \in 1 .. MaxFailures : a[k] < a[1] + FailureWindow
    <3>1. CASE f.failures = 1
      <4>1. MaxFailures = 1 /\ Len(s) = 0
        BY <1>10, <2>1, <2>2, <2>3, <3>1, LockoutAssumption
      <4>2. \A k \in 1 .. MaxFailures : a[k] = t
        BY <2>2, <4>1
      <4>3. a[1] = t /\ t < t + FailureWindow
        BY <2>2, <4>1, LockoutAssumption
      <4> QED BY <2>2, <4>1, <4>2, <4>3
    <3>2. CASE /\ InWindow(s, st) /\ st.failures < MaxFailures
               /\ f.failures = st.failures + 1
               /\ f.window_started_at = st.window_started_at
               /\ t < st.window_started_at + FailureWindow
      <4> DEFINE n == st.failures
                 ws == st.window_started_at
                 L == Len(s)
      <4>1. /\ n \in 1 .. L
            /\ s[L - n + 1] = ws
            /\ \A k \in L - n + 1 .. L : s[k] < ws + FailureWindow
        BY <3>2 DEF InWindow
      <4>2. n \in Nat /\ L \in Nat /\ L < MaxFailures /\ n + 1 >= MaxFailures
        BY <1>0, <2>1, <2>2, <2>3, <3>2 DEF AuthStates
      <4>3. t < ws + FailureWindow
        BY <3>2
      <4> HIDE DEF n, ws, L
      <4>4. n = L /\ L + 1 = MaxFailures /\ 1 \in 1 .. L
        BY <4>1, <4>2, LockoutAssumption
      <4>5. s[1] = ws /\ \A k \in 1 .. L : s[k] < ws + FailureWindow
        BY <4>1, <4>2, <4>4
      <4>6. a[1] = ws /\ Len(a) = MaxFailures
        BY <2>2, <4>4, <4>5 DEF L
      <4>7. ASSUME NEW k \in 1 .. MaxFailures PROVE a[k] < ws + FailureWindow
        <5>1. k = L + 1 \/ k \in 1 .. L
          BY <4>2, <4>4, <4>7
        <5> QED BY <2>2, <4>3, <4>5, <5>1 DEF L
      <4> QED BY <4>6, <4>7
    <3> QED BY <1>4, <3>1, <3>2
  <2> QED BY <1>1, <1>6, <1>10, <2>4 DEF a
<1> QED BY <1>5, <1>7, <1>8, <1>9, <1>10

\* A handler leaves "record" by recording the failure.
LEMMA RecordMoves ==
    ASSUME LockoutInv, [LockoutNext]_lockoutVars, NEW h \in Handlers,
           pc[h] = "record", pc'[h] # "record"
    PROVE  RecordFailure(h)
<1>1. pc \in [Handlers -> {"idle", "record", "refresh", "snapshot", "tracked", "locked"}]
  BY DEF LockoutInv, LockoutTypes
<1> QED
  BY <1>1, ZenonT(30)
     DEF LockoutNext, lockoutVars, handlerVars, Tick, Unauthorized, Authorized,
         RecordFailure, ReadClock, Snapshot, SetTracked, SetLocked, Move

\* A step of the table, seen from the history: what stays in it stays as it was,
\* and no time is forgotten.
LEMMA KeptWindows ==
    ASSUME WindowInv, UNCHANGED failed, poisoned => poisoned',
           \A j \in DOMAIN entries' : j \in DOMAIN entries /\ entries'[j] = entries[j]
    PROVE  WindowInv'
<1>1. HistoryOK'
  BY DEF WindowInv, HistoryOK
<1>2. poisoned' \/ \A j \in DOMAIN entries' :
          entries'[j].locked_until = NoLock => InWindow(failed'[j], entries'[j])
  BY DEF WindowInv
<1> QED BY <1>1, <1>2 DEF WindowInv, InWindow

\* record_failure keeps the windows, and locks out only for one window's failures.
LEMMA RecordWindowStep ==
    ASSUME LockoutInv, WindowInv, NEW h \in Handlers, RecordFailure(h)
    PROVE  /\ WindowInv'
           /\ verdict'[h] = "Locked" =>
                 LET counted == Append(failed[ip[h]], now[h])
                 IN  /\ Len(counted) = MaxFailures
                     /\ \A k \in 1 .. MaxFailures : counted[k] < counted[1] + FailureWindow
<1> DEFINE i == ip[h]
           t == now[h]
           s == failed[i]
           v == RecordFailureAt(entries, i, t).verdict
           d == RecordFailureAt(entries, i, t).entries
           w == IF poisoned THEN "Panicked" ELSE v
<1>0. /\ i \in Ips /\ t \in Nat /\ IsTable(entries) /\ poisoned \in BOOLEAN
      /\ s \in Seq(Nat) /\ (Len(s) < MaxFailures \/ s = <<>>)
      /\ verdict \in [Handlers -> Verdicts]
  BY DEF LockoutInv, LockoutTypes, WindowInv, HistoryOK
<1>1. /\ verdict' = [verdict EXCEPT ![h] = w]
      /\ entries' = IF poisoned THEN entries ELSE d
      /\ poisoned' = (w = "Panicked")
      /\ failed' = CASE w = "Locked" -> [failed EXCEPT ![i] = <<>>]
                     [] w = "Tracked" -> [failed EXCEPT ![i] = Recent(Append(@, t))]
                     [] OTHER -> failed
  BY DEF RecordFailure
<1>2. v \in Verdicts
  BY <1>0, RecordTable
<1>3. ASSUME ~poisoned
      PROVE  /\ \A j \in (DOMAIN d) \ {i} : j \in DOMAIN entries /\ d[j] = entries[j]
             /\ v \in {"Disabled", "EntryLimitReached", "AlreadyLocked"} /\ i \in DOMAIN d =>
                   i \in DOMAIN entries /\ d[i] = entries[i]
             /\ v = "Tracked" =>
                   /\ Len(s) < MaxFailures
                   /\ i \in DOMAIN d /\ InWindow(Recent(Append(s, t)), d[i])
             /\ v = "Locked" =>
                   /\ i \in DOMAIN d /\ d[i].locked_until # NoLock
                   /\ Len(Append(s, t)) = MaxFailures
                   /\ \A k \in 1 .. MaxFailures :
                         Append(s, t)[k] < Append(s, t)[1] + FailureWindow
  <2>1. /\ Below(entries)
        /\ i \in DOMAIN entries /\ entries[i].locked_until = NoLock => InWindow(s, entries[i])
    BY <1>3 DEF LockoutInv, UnlockedBelowThreshold, WindowInv
  <2> HIDE DEF i, t, s
  <2> QED BY <1>0, <2>1, RecordWindow
<1> DEFINE r == Recent(Append(s, t))
<1>4. verdict'[h] = "Locked" =>
          /\ Len(Append(s, t)) = MaxFailures
          /\ \A k \in 1 .. MaxFailures :
                Append(s, t)[k] < Append(s, t)[1] + FailureWindow
  <2> HIDE DEF i, t, s, v, d
  <2>1. verdict'[h] = w
    BY <1>0, <1>1
  <2> QED BY <1>3, <2>1
<1>5. Len(s) < MaxFailures => r \in Seq(Nat) /\ Len(r) < MaxFailures
  <2> HIDE DEF i, t, s
  <2> QED BY <1>0, RecentTimes
<1>6. /\ failed \in [Ips -> Seq(Nat)]
      /\ \A j \in Ips : Len(failed[j]) < MaxFailures \/ failed[j] = <<>>
  BY DEF WindowInv, HistoryOK
<1>7. \/ w = "Locked" /\ v = "Locked" /\ ~poisoned /\ failed' = [failed EXCEPT ![i] = <<>>]
      \/ w = "Tracked" /\ v = "Tracked" /\ ~poisoned /\ failed' = [failed EXCEPT ![i] = r]
      \/ w = "Panicked" /\ failed' = failed
      \/ /\ w \notin {"Locked", "Tracked", "Panicked"} /\ failed' = failed
         /\ ~poisoned /\ v \in {"Disabled", "EntryLimitReached", "AlreadyLocked", "none"}
  BY <1>1, <1>2 DEF Verdicts
<1>8. v # "none"
  <2> HIDE DEF i, t
  <2> QED BY RecordCases
<1> HIDE DEF i, t, s, v, d, r, w
<1>9. CASE w = "Locked" /\ v = "Locked" /\ ~poisoned /\ failed' = [failed EXCEPT ![i] = <<>>]
  <2>1. HistoryOK'
    BY <1>0, <1>6, <1>9 DEF HistoryOK
  <2>2. ASSUME NEW j \in DOMAIN entries', entries'[j].locked_until = NoLock
        PROVE  InWindow(failed'[j], entries'[j])
    <3>1. j \in (DOMAIN d) \ {i} /\ j \in DOMAIN entries /\ entries'[j] = entries[j]
      BY <1>1, <1>3, <1>9, <2>2
    <3>2. failed'[j] = failed[j]
      BY <1>0, <1>6, <1>9, <3>1 DEF IsTable
    <3> QED BY <1>9, <2>2, <3>1, <3>2 DEF WindowInv
  <2>3. WindowInv'
    BY <2>1, <2>2 DEF WindowInv, InWindow
  <2> QED BY <1>4, <2>3 DEF s, i, t
<1>10. CASE w = "Tracked" /\ v = "Tracked" /\ ~poisoned /\ failed' = [failed EXCEPT ![i] = r]
  <2>1. HistoryOK'
    BY <1>0, <1>3, <1>5, <1>6, <1>10 DEF HistoryOK
  <2>2. ASSUME NEW j \in DOMAIN entries', entries'[j].locked_until = NoLock
        PROVE  InWindow(failed'[j], entries'[j])
    <3>1. CASE j = i
      <4>1. failed'[j] = r /\ entries'[j] = d[i]
        BY <1>0, <1>1, <1>6, <1>10, <3>1
      <4> QED BY <1>3, <1>10, <4>1 DEF r
    <3>2. CASE j # i
      <4>1. j \in (DOMAIN d) \ {i} /\ j \in DOMAIN entries /\ entries'[j] = entries[j]
        BY <1>1, <1>3, <1>10, <3>2
      <4>2. failed'[j] = failed[j]
        BY <1>0, <1>6, <1>10, <3>2, <4>1 DEF IsTable
      <4> QED BY <1>10, <2>2, <4>1, <4>2 DEF WindowInv
    <3> QED BY <3>1, <3>2
  <2>3. WindowInv'
    BY <2>1, <2>2 DEF WindowInv, InWindow
  <2> QED BY <1>4, <2>3 DEF s, i, t
<1>11. CASE w = "Panicked" /\ failed' = failed
  <2>1. WindowInv'
    BY <1>1, <1>11 DEF WindowInv, HistoryOK
  <2> QED BY <1>4, <2>1 DEF s, i, t
<1>12. CASE /\ failed' = failed /\ ~poisoned
            /\ v \in {"Disabled", "EntryLimitReached", "AlreadyLocked", "none"}
  <2>1. \A j \in DOMAIN entries' : j \in DOMAIN entries /\ entries'[j] = entries[j]
    BY <1>1, <1>3, <1>8, <1>12
  <2>2. WindowInv'
    BY <1>12, <2>1, KeptWindows
  <2> QED BY <1>4, <2>2 DEF s, i, t
<1> QED BY <1>7, <1>9, <1>10, <1>11, <1>12

LEMMA WindowStep == LockoutInv /\ WindowInv /\ [LockoutNext]_lockoutVars => WindowInv'
<1> SUFFICES ASSUME LockoutInv, WindowInv, [LockoutNext]_lockoutVars PROVE WindowInv'
  OBVIOUS
<1>0. IsTable(entries)
  BY DEF LockoutInv, LockoutTypes
<1>1. ASSUME UNCHANGED tableVars PROVE WindowInv'
  BY <1>1, KeptWindows DEF tableVars, historyVars
<1>2. CASE UNCHANGED lockoutVars
  BY <1>1, <1>2 DEF lockoutVars
<1>3. CASE Tick
  BY <1>1, <1>3 DEF Tick
<1>4. ASSUME NEW h \in Handlers, NEW i \in Ips, Unauthorized(h, i) PROVE WindowInv'
  BY <1>1, <1>4 DEF Unauthorized
<1>5. ASSUME NEW h \in Handlers, ReadClock(h) \/ SetTracked(h) \/ SetLocked(h) PROVE WindowInv'
  BY <1>1, <1>5 DEF ReadClock, SetTracked, SetLocked
<1>6. ASSUME NEW h \in Handlers, RecordFailure(h) PROVE WindowInv'
  BY <1>6, RecordWindowStep
<1>7. ASSUME NEW h \in Handlers, NEW i \in Ips, Authorized(h, i) PROVE WindowInv'
  <2>1. CASE poisoned
    BY <1>1, <1>7, <2>1 DEF Authorized, tableVars, historyVars
  <2>2. CASE ~poisoned
    <3>1. entries' = Keep(entries, Ips \ {i}) /\ failed' = [failed EXCEPT ![i] = <<>>]
      BY <1>7, <2>2 DEF Authorized
    <3>2. /\ DOMAIN entries' = (DOMAIN entries) \cap (Ips \ {i})
          /\ \A j \in DOMAIN entries' : entries'[j] = entries[j]
      BY <1>0, <3>1, KeepTable
    <3>3. /\ failed \in [Ips -> Seq(Nat)]
          /\ \A j \in Ips : Len(failed[j]) < MaxFailures \/ failed[j] = <<>>
      BY DEF WindowInv, HistoryOK
    <3>4. HistoryOK'
      BY <3>1, <3>3 DEF HistoryOK
    <3>5. ASSUME NEW j \in DOMAIN entries', entries'[j].locked_until = NoLock
          PROVE  InWindow(failed'[j], entries'[j])
      <4>1. j \in DOMAIN entries /\ entries'[j] = entries[j] /\ failed'[j] = failed[j]
        BY <3>1, <3>2, <3>3
      <4> QED BY <2>2, <3>5, <4>1 DEF WindowInv
    <3> QED BY <3>4, <3>5 DEF WindowInv, InWindow
  <2> QED BY <2>1, <2>2
<1>8. ASSUME NEW h \in Handlers, Snapshot(h) PROVE WindowInv'
  <2>1. failed' = failed /\ poisoned' = poisoned
    BY <1>8 DEF Snapshot, historyVars
  <2>2. \A j \in DOMAIN entries' : j \in DOMAIN entries /\ entries'[j] = entries[j]
    <3>1. entries' = entries \/ entries' = CleanupStaleEntries(entries, now[h])
      BY <1>8 DEF Snapshot
    <3>2. CASE entries' = entries
      BY <3>2
    <3>3. CASE entries' = CleanupStaleEntries(entries, now[h])
      <4> DEFINE e == CleanupStaleEntries(entries, now[h])
      <4>1. /\ DOMAIN e = {i \in DOMAIN entries : ~IsStale(entries[i], now[h])}
            /\ \A i \in DOMAIN e : e[i] = entries[i]
        BY <1>0, CleanupTable
      <4> QED BY <3>3, <4>1
    <3> QED BY <3>1, <3>2, <3>3
  <2> QED BY <2>1, <2>2, KeptWindows
<1> QED BY <1>2, <1>3, <1>4, <1>5, <1>6, <1>7, <1>8 DEF LockoutNext

\* record_failure_at locks an IP out only for max_failures failures since its last
\* lockout or valid token, none of them failure_window or more after the first:
\* for every threshold and window, any clients, any handlers, however late.
THEOREM LockoutsAreEarned == LockoutSpec => LockoutEarned
<1>1. LockoutInit => WindowInv
  <2> SUFFICES ASSUME LockoutInit PROVE WindowInv
    OBVIOUS
  <2>1. DOMAIN entries = {}
    BY DEF LockoutInit
  <2>2. HistoryOK
    BY DEF LockoutInit, HistoryOK
  <2> QED BY <2>1, <2>2 DEF WindowInv
<1>2. ASSUME LockoutInv, WindowInv, [LockoutNext]_lockoutVars, NEW h \in Handlers,
             pc[h] = "record", pc'[h] # "record", verdict'[h] = "Locked"
      PROVE  LET counted == Append(failed[ip[h]], now[h])
             IN  /\ Len(counted) = MaxFailures
                 /\ \A k \in 1 .. MaxFailures : counted[k] < counted[1] + FailureWindow
  <2>1. RecordFailure(h)
    BY <1>2, RecordMoves
  <2> QED BY <1>2, <2>1, RecordWindowStep
<1>3. LockoutInv /\ WindowInv /\ [LockoutNext]_lockoutVars =>
        [\A h \in Handlers :
          pc[h] = "record" /\ pc'[h] # "record" /\ verdict'[h] = "Locked" =>
              LET counted == Append(failed[ip[h]], now[h])
              IN  /\ Len(counted) = MaxFailures
                  /\ \A k \in 1 .. MaxFailures :
                        counted[k] < counted[1] + FailureWindow]_lockoutVars
  BY <1>2
<1> QED BY <1>1, <1>3, WindowStep, LockoutInvariant, PTL DEF LockoutSpec, LockoutEarned

\* EntryLimitReached is answered only by a table with max_entries entries, none
\* of them stale at the time of the handler.
THEOREM LimitMeansFullTable == LockoutSpec => LimitMeansFull
<1>1. ASSUME LockoutInv, LockoutInv', [LockoutNext]_lockoutVars, NEW h \in Handlers,
             pc[h] = "record", pc'[h] # "record", verdict'[h] = "EntryLimitReached"
      PROVE  /\ Cardinality(DOMAIN entries') = MaxEntries
             /\ \A i \in DOMAIN entries' : ~IsStale(entries'[i], now[h])
  <2>2. RecordFailure(h)
    BY <1>1, RecordMoves
  <2> DEFINE v == RecordFailureAt(entries, ip[h], now[h]).verdict
             d == RecordFailureAt(entries, ip[h], now[h]).entries
  <2>3. ~poisoned /\ v = "EntryLimitReached" /\ entries' = d
    <3>1. /\ verdict' = [verdict EXCEPT ![h] = IF poisoned THEN "Panicked" ELSE v]
          /\ entries' = IF poisoned THEN entries ELSE d
      BY <2>2 DEF RecordFailure
    <3>2. verdict \in [Handlers -> Verdicts]
      BY <1>1 DEF LockoutInv, LockoutTypes
    <3> HIDE DEF v, d
    <3> QED BY <1>1, <3>1, <3>2
  <2>4. /\ IsTable(entries) /\ ip[h] \in Ips /\ now[h] \in Nat
        /\ IsTable(entries') /\ Cardinality(DOMAIN entries') <= MaxEntries
    BY <1>1 DEF LockoutInv, LockoutTypes, TableBounded
  <2>5. /\ Cardinality(DOMAIN d) >= MaxEntries
        /\ \A j \in DOMAIN d : ~IsStale(d[j], now[h])
    BY <2>3, <2>4, RecordLimit
  <2>6. Cardinality(DOMAIN entries') \in Nat
    BY <2>4, TableSizes
  <2> HIDE DEF v, d
  <2> QED BY <2>3, <2>4, <2>5, <2>6, LockoutAssumption
<1>2. LockoutInv /\ LockoutInv' /\ [LockoutNext]_lockoutVars =>
        [\A h \in Handlers :
          pc[h] = "record" /\ pc'[h] # "record" /\ verdict'[h] = "EntryLimitReached" =>
              /\ Cardinality(DOMAIN entries') = MaxEntries
              /\ \A i \in DOMAIN entries' : ~IsStale(entries'[i], now[h])]_lockoutVars
  BY <1>1
<1> QED BY <1>2, LockoutInvariant, PTL DEF LockoutSpec, LimitMeansFull
=============================================================================
