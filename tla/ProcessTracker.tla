--------------------------- MODULE ProcessTracker ---------------------------
(***************************************************************************)
(* The process tracker (ProcessTracker.cpp) and its hot swap               *)
(* (LayerMount::SetProcessTrackerEnabled).  A file call pins the current    *)
(* tracker, resolves the caller's process through a cache with a time to    *)
(* live, evaluates the rules and appends to a circular log; other threads   *)
(* meanwhile load rules, turn the tracker off and on, and the system gives  *)
(* process ids to new processes.  Each lock of the tracker (process cache,  *)
(* rules, log) is taken for one step and released before the next.          *)
(*                                                                          *)
(* A tracker is a number; 0 stands for the null pointer.  It is shared:     *)
(* when the mount has let go of it and the last call that pinned it         *)
(* returns, it is destroyed and its number is free again.  Paths, reasons   *)
(* and the rendering of the log are left out; the rules' patterns and the   *)
(* process names are short sequences of characters.                         *)
(***************************************************************************)
EXTENDS Integers, Sequences

CONSTANTS
    Threads,
    Pids,
    Names,          \* process names; <<>> is that of a process that has ended
    Ops,            \* operations: "read", "write", "delete", and "close"
    RuleFiles,      \* the rule lists a rules file may hold
    ConfigRules,    \* what the configured rules file holds (processRulesPath)
    LogCapacity,    \* accessLogCapacity
    TTL,            \* kProcessInfoTTL in ticks of the clock
    MaxTime,        \* bound on the clock
    MaxCalls,       \* bound on the checks and closes
    Trackers        \* the trackers that may exist at a time

ASSUME ProcessTrackerAssumption ==
    /\ LogCapacity \in Nat \ {0} /\ TTL \in Nat \ {0}
    /\ MaxTime \in Nat /\ MaxCalls \in Nat /\ 0 \notin Trackers
    /\ ConfigRules \in RuleFiles /\ <<>> \notin RuleFiles

VARIABLES
    tracker,        \* LayerMount::processTracker_
    obj,            \* the trackers: rules_, logBuffer_, logHead_, logCount_,
                    \* processInfoCache_, and as history the entries last logged
    owner,          \* the name of the process that has each pid
    clock,
    seen,           \* history: when each name was last true of each pid
    pc, loc,        \* the threads
    calls           \* the checks and closes so far

world == <<owner, clock, seen>>
vars == <<tracker, obj, owner, clock, seen, pc, loc, calls>>

Never == 0 - TTL - 1
NoInfo == [name |-> <<>>, expires |-> Never]
NoCall == [k |-> 0, pid |-> 0, op |-> "none", now |-> 0, name |-> <<>>, allowed |-> TRUE]

(* The constructor: an empty log of the configured capacity.                *)
New == [rules |-> <<>>, log |-> [i \in 0..LogCapacity - 1 |-> <<>>], head |-> 0,
        count |-> 0, known |-> [p \in Pids |-> NoInfo], last |-> <<>>]

Init ==
    /\ tracker = 0
    /\ obj = [k \in Trackers |-> New]
    /\ owner \in [Pids -> Names]
    /\ clock = 0
    /\ seen = [p \in Pids |-> [n \in Names |->
                  IF n = owner[p] THEN 0 ELSE Never]]
    /\ pc = [t \in Threads |-> "idle"] /\ loc = [t \in Threads |-> NoCall]
    /\ calls = 0

Goto(t, where) == pc' = [pc EXCEPT ![t] = where]

Pinned(k, others) == \E t \in others : loc[t].k = k

(* The call returns and its reference goes; o is the state of the trackers  *)
(* after the call's last step.                                              *)
Return(t, o) ==
    LET k == loc[t].k IN
    /\ Goto(t, "idle")
    /\ loc' = [loc EXCEPT ![t] = NoCall]
    /\ obj' = IF k # 0 /\ k # tracker' /\ ~Pinned(k, Threads \ {t})
                THEN [o EXCEPT ![k] = New] ELSE o

-----------------------------------------------------------------------------
(* The rules.                                                               *)

IsReadOp(op) == op = "read"
IsWriteOp(op) == op = "write"
IsDeleteOp(op) == op = "delete"

Min2(a, b) == IF a <= b THEN a ELSE b
Prefix(s, n) == SubSeq(s, 1, n)
Suffix(s, n) == SubSeq(s, Len(s) - n + 1, Len(s))
Stars(pattern) == {i \in 1..Len(pattern) : pattern[i] = "*"}

SuffixMatchesAnywhere(pattern, text) ==
    LET suffix == Tail(pattern)
    IN  \E i \in 0..Len(text) - Len(suffix) : SubSeq(text, i + 1, i + Len(suffix)) = suffix

(* Changed: a leading star also matches inside the text.                    *)
WildcardSuffixShort(pattern, text) ==
    LET first == CHOOSE i \in Stars(pattern) : \A j \in Stars(pattern) : i <= j
    IN  IF pattern = <<"*">> THEN TRUE
        ELSE IF pattern = <<>> THEN text = <<>>
        ELSE IF Stars(pattern) = {} THEN pattern = text
        ELSE IF first = 1 THEN SuffixMatchesAnywhere(pattern, text)
        ELSE IF first = Len(pattern)
             THEN Len(text) >= first - 1 /\ Prefix(text, first - 1) = Prefix(pattern, first - 1)
        ELSE FALSE

(* WildcardMatch.  Only the first star of the pattern is looked for, so it  *)
(* is at both ends only in the pattern "*"; the branch for "*middle*" is    *)
(* never reached and the rest of such a pattern is a literal suffix.  Case  *)
(* folding is left out.                                                     *)
WildcardMatch(pattern, text) ==
    LET first == CHOOSE i \in Stars(pattern) : \A j \in Stars(pattern) : i <= j
        rest == Len(pattern) - 1
    IN  IF pattern = <<"*">> THEN TRUE
        ELSE IF pattern = <<>> THEN text = <<>>
        ELSE IF Stars(pattern) = {} THEN pattern = text
        ELSE IF first = 1
             THEN Len(text) >= rest /\ Suffix(text, rest) = Suffix(pattern, rest)
        ELSE IF first = Len(pattern)
             THEN Len(text) >= rest /\ Prefix(text, rest) = Prefix(pattern, rest)
        ELSE FALSE

Denies(rule, op) ==
    \/ IsReadOp(op) /\ ~rule.allowRead
    \/ IsWriteOp(op) /\ ~rule.allowWrite
    \/ IsDeleteOp(op) /\ ~rule.allowDelete

(* The first rule whose pattern matches decides; no match allows.           *)
Allowed(list, name, op) ==
    LET matching == {i \in 1..Len(list) : WildcardMatch(list[i].processName, name)}
    IN  \A i \in matching : (\A j \in matching : i <= j) => ~Denies(list[i], op)

-----------------------------------------------------------------------------
(* CheckAccess and, for a close, LogAccess.                                 *)

(* The call pins the tracker; ResolveProcess takes the time before it takes *)
(* the lock.                                                                *)
Call(t, pid, op) ==
    /\ pc[t] = "idle" /\ tracker # 0
    /\ calls < MaxCalls
    /\ calls' = calls + 1
    /\ loc' = [loc EXCEPT ![t] = [NoCall EXCEPT !.k = tracker, !.pid = pid, !.op = op,
                                                !.now = clock]]
    /\ Goto(t, "lookup")
    /\ UNCHANGED <<tracker, obj, world>>

(* With the name known, CheckAccess goes on to the rules and LogAccess to   *)
(* the log; past the rules only the verdict matters.                        *)
Resolve(t, name) ==
    IF loc[t].op = "close"
      THEN /\ loc' = [loc EXCEPT ![t] = [NoCall EXCEPT !.k = loc[t].k]]
           /\ Goto(t, "log")
      ELSE /\ loc' = [loc EXCEPT ![t].name = name]
           /\ Goto(t, "check")

LookUp(t) ==
    LET info == obj[loc[t].k].known[loc[t].pid] IN
    /\ pc[t] = "lookup"
    /\ IF info.expires > loc[t].now
         THEN Resolve(t, info.name)
         ELSE Goto(t, "query") /\ UNCHANGED loc
    /\ UNCHANGED <<tracker, obj, world, calls>>

(* ResolveProcessUncached, under no lock; a process that has ended has no   *)
(* name.                                                                    *)
Query(t) ==
    /\ pc[t] = "query"
    /\ loc' = [loc EXCEPT ![t].name = owner[loc[t].pid]]
    /\ Goto(t, "store")
    /\ UNCHANGED <<tracker, obj, world, calls>>

(* Changed: the entry lives from the store on.                              *)
ExpiryFromStore(t) == clock + TTL

(* The entry lives from the time the call began, not from the store.        *)
Expiry(t) == loc[t].now + TTL

Store(t) ==
    /\ pc[t] = "store"
    /\ obj' = [obj EXCEPT ![loc[t].k].known[loc[t].pid] =
                   [name |-> loc[t].name, expires |-> Expiry(t)]]
    /\ Resolve(t, loc[t].name)
    /\ UNCHANGED <<tracker, world, calls>>

Evaluate(t) ==
    /\ pc[t] = "check"
    /\ loc' = [loc EXCEPT ![t] = [NoCall EXCEPT !.k = loc[t].k, !.allowed =
                   Allowed(obj[loc[t].k].rules, loc[t].name, loc[t].op)]]
    /\ Goto(t, "log")
    /\ UNCHANGED <<tracker, obj, world, calls>>

Entry(t) == [allowed |-> loc[t].allowed]

(* Changed: the count goes one past the capacity.                           *)
AppendCountsOn(o, e) ==
    [o EXCEPT !.log[o.head] = e,
              !.head = (@ + 1) % LogCapacity,
              !.count = IF @ <= LogCapacity THEN @ + 1 ELSE @]

AddLogEntry(o, e) ==
    [o EXCEPT !.log[o.head] = e,
              !.head = (@ + 1) % LogCapacity,
              !.count = IF @ < LogCapacity THEN @ + 1 ELSE @]

Remember(o, e) ==
    [o EXCEPT !.last = Suffix(Append(@, e), Min2(Len(@) + 1, LogCapacity))]

(* The log entry; the event of a denial follows it (module EventEmitter)    *)
(* and the verdict goes back to the caller.                                 *)
Log(t) ==
    /\ pc[t] = "log"
    /\ UNCHANGED <<tracker, world, calls>>
    /\ Return(t, [obj EXCEPT ![loc[t].k] = Remember(AddLogEntry(@, Entry(t)), Entry(t))])

(* GetRecentEntries under the log's lock: what the exports render.          *)
GetRecentEntries(o, n) ==
    LET actual == Min2(n, o.count)
        start == (o.head + LogCapacity - actual) % LogCapacity
    IN  [i \in 1..actual |-> o.log[(start + i - 1) % LogCapacity]]

-----------------------------------------------------------------------------
(* SetRules: the rules of the pinned tracker are replaced as a whole, or    *)
(* kept when the file does not load.                                        *)
SetRules(t) ==
    /\ pc[t] = "idle" /\ tracker # 0
    /\ loc' = [loc EXCEPT ![t].k = tracker]
    /\ Goto(t, "load")
    /\ UNCHANGED <<tracker, obj, world, calls>>

LoadRules(t) ==
    /\ pc[t] = "load"
    /\ UNCHANGED <<tracker, world, calls>>
    /\ \E list \in RuleFiles \cup {obj[loc[t].k].rules} :
           Return(t, [obj EXCEPT ![loc[t].k].rules = list])

(* SetProcessTrackerEnabled.                                                *)
Enable(t) ==
    /\ pc[t] = "idle" /\ tracker = 0
    /\ Goto(t, "build")
    /\ UNCHANGED <<tracker, obj, world, loc, calls>>

Build(t, list) ==
    \E k \in Trackers :
        /\ k # tracker /\ ~Pinned(k, Threads)
        /\ \A j \in Trackers : j < k => j = tracker \/ Pinned(j, Threads)
        /\ obj' = [obj EXCEPT ![k] = [New EXCEPT !.rules = list]]
        /\ loc' = [loc EXCEPT ![t].k = k]
        /\ Goto(t, "install")

(* Changed: a tracker whose rules did not load is used all the same.        *)
TryMakeKeepsGoing(t) ==
    /\ pc[t] = "build"
    /\ Build(t, ConfigRules) \/ Build(t, <<>>)
    /\ UNCHANGED <<tracker, world, calls>>

(* TryMakeProcessTracker, outside the lock: a rules file that does not load *)
(* makes no tracker and the call fails.                                     *)
TryMakeProcessTracker(t) ==
    /\ pc[t] = "build"
    /\ UNCHANGED <<tracker, world, calls>>
    /\ Build(t, ConfigRules) \/ Return(t, obj)

Install(t) ==
    /\ pc[t] = "install"
    /\ tracker' = IF tracker = 0 THEN loc[t].k ELSE tracker
    /\ Return(t, obj)
    /\ UNCHANGED <<world, calls>>

Disable(t) ==
    /\ pc[t] = "idle" /\ tracker # 0
    /\ tracker' = 0
    /\ obj' = IF Pinned(tracker, Threads) THEN obj ELSE [obj EXCEPT ![tracker] = New]
    /\ UNCHANGED <<world, pc, loc, calls>>

-----------------------------------------------------------------------------
(* The system: time passes, processes end and their pids are given out      *)
(* again.                                                                   *)
Tick ==
    /\ clock < MaxTime
    /\ clock' = clock + 1
    /\ seen' = [p \in Pids |-> [seen[p] EXCEPT ![owner[p]] = clock + 1]]
    /\ UNCHANGED <<tracker, obj, owner, pc, loc, calls>>

NewOwner(p, n) ==
    /\ n # owner[p]
    /\ owner' = [owner EXCEPT ![p] = n]
    /\ seen' = [seen EXCEPT ![p][n] = clock]
    /\ UNCHANGED <<tracker, obj, clock, pc, loc, calls>>

Work(t) ==
    \/ \E pid \in Pids, op \in Ops : Call(t, pid, op)
    \/ LookUp(t) \/ Query(t) \/ Store(t) \/ Evaluate(t) \/ Log(t)
    \/ SetRules(t) \/ LoadRules(t)
    \/ Enable(t) \/ TryMakeProcessTracker(t) \/ Install(t) \/ Disable(t)

Next ==
    \/ \E t \in Threads : Work(t)
    \/ Tick
    \/ \E p \in Pids, n \in Names : NewOwner(p, n)

Spec == Init /\ [][Next]_vars

-----------------------------------------------------------------------------
(* GetRecentEntries(n) returns the last n entries that were logged, oldest  *)
(* first, before and after the circular buffer wraps (AddLogEntry,          *)
(* GetRecentEntries).                                                       *)
RecentEntries ==
    \A k \in Trackers, n \in 0..LogCapacity + 1 :
        GetRecentEntries(obj[k], n) = Suffix(obj[k].last, Min2(n, Len(obj[k].last)))

(* The name a check works with was the name of its pid less than the time   *)
(* to live before the call, or later: a recycled pid is judged under its    *)
(* old name no longer than that, whatever order concurrent calls store      *)
(* their results in (ResolveProcess).                                       *)
NameFresh ==
    \A t \in Threads :
        pc[t] \in {"store", "check"} =>
            seen[loc[t].pid][loc[t].name] > loc[t].now - TTL

(* When every rules file holds a rule, a tracker in use has one: it has the *)
(* configured rules or those of a later load, and a file that does not load *)
(* never leaves the empty list that allows everything.                      *)
RulesInForce == tracker # 0 => obj[tracker].rules # <<>>

(* A pattern with at most one star, at an end, matches exactly the names it *)
(* stands for: some text in place of the star gives the name.               *)
PatternsMatch ==
    \A k \in Trackers : \A i \in DOMAIN obj[k].rules :
        LET pattern == obj[k].rules[i].processName
            star == CHOOSE j \in Stars(pattern) : TRUE
            Filled(n, a, b) == Prefix(pattern, star - 1) \o SubSeq(n, a, b) \o
                               SubSeq(pattern, star + 1, Len(pattern))
        IN  Stars(pattern) \in {{}, {1}, {Len(pattern)}} =>
              \A n \in Names \cup {<<>>} :
                WildcardMatch(pattern, n) <=>
                    IF Stars(pattern) = {} THEN n = pattern
                    ELSE \E a \in 1..Len(n) + 1 : \E b \in a - 1..Len(n) : n = Filled(n, a, b)
=============================================================================
