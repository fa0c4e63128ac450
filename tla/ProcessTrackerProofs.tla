------------------------ MODULE ProcessTrackerProofs ------------------------
(***************************************************************************)
(* The access log, the cache of process names and the hot swap of rules,   *)
(* for any number of threads, trackers, processes and names, any capacity  *)
(* of the log and any time to live.                                        *)
(*                                                                         *)
(* The inductive invariant IInv says, beside the types: the name a process *)
(* has now is the one last seen (SeenInv); each tracker's buffer holds the *)
(* entries last logged, the newest before the head, its cached names were  *)
(* true when their life began, and it has rules while anyone uses it       *)
(* (ObjOk); and a call on its way has read a clock that is not ahead, with *)
(* a name that was true then (CallOk).                                     *)
(***************************************************************************)
EXTENDS ProcessTracker, SequenceTheorems, TLAPS

-----------------------------------------------------------------------------
(* The circular log.                                                        *)

Entries == [allowed : BOOLEAN]
Infos == [name : Names \cup {<<>>}, expires : Int]
Objects ==
    [rules : RuleFiles \cup {<<>>},
     log   : [0 .. LogCapacity - 1 -> Entries \cup {<<>>}],
     head  : 0 .. LogCapacity - 1,
     count : 0 .. LogCapacity,
     known : [Pids -> Infos],
     last  : Seq(Entries)]

(* The cell of the i-th of the n entries last logged.                       *)
Cell(head, n, i) == (head + LogCapacity - n + i - 1) % LogCapacity

(* The buffer holds the entries last logged, the newest before the head.    *)
LogOf(o) ==
    /\ Len(o.last) = o.count
    /\ \A i \in 1 .. o.count : o.log[Cell(o.head, o.count, i)] = o.last[i]

(* The log has room for an entry. *)
LEMMA Capacity == LogCapacity \in Nat /\ LogCapacity > 0
BY ProcessTrackerAssumption

(* A number less than twice the capacity.                                   *)
LEMMA Wrap ==
    ASSUME NEW x \in 0 .. (2 * LogCapacity - 1)
    PROVE  x % LogCapacity = IF x < LogCapacity THEN x ELSE x - LogCapacity
<1>1. LogCapacity \in Nat /\ LogCapacity > 0 /\ x \in Nat /\ x < 2 * LogCapacity
  BY Capacity
<1>2. PICK q \in Int : q = x \div LogCapacity
  BY <1>1
<1>3. x = LogCapacity * q + (x % LogCapacity) /\ x % LogCapacity \in 0 .. LogCapacity - 1
  BY <1>1, <1>2
<1>4. PICK r \in Int : r = x % LogCapacity
  BY <1>1
<1>5. x = LogCapacity * q + r /\ r >= 0 /\ r < LogCapacity
  BY <1>1, <1>3, <1>4
<1>6. q >= 0
  <2>1. ASSUME q <= -1 PROVE FALSE
    <3>1. LogCapacity * q <= -LogCapacity
      BY <1>1, <1>2, <2>1
    <3> QED BY <1>1, <1>5, <3>1
  <2> QED BY <1>2, <2>1
<1>7. q < 2
  <2>1. ASSUME q >= 2 PROVE FALSE
    <3>1. LogCapacity * q >= 2 * LogCapacity
      BY <1>1, <1>2, <2>1
    <3> QED BY <1>1, <1>5, <3>1
  <2> QED BY <1>2, <2>1
<1>8. q = 0 \/ q = 1
  BY <1>2, <1>6, <1>7
<1>9. CASE q = 0
  <2>1. x = r
    BY <1>1, <1>5, <1>9
  <2> QED BY <1>4, <1>5, <2>1
<1>10. CASE q = 1
  <2>1. x = LogCapacity + r
    BY <1>1, <1>5, <1>10
  <2> QED BY <1>1, <1>4, <1>5, <2>1
<1> QED BY <1>8, <1>9, <1>10

(* Where the cells are: all in the buffer, and the head's own only when the *)
(* buffer is full.                                                          *)
LEMMA CellFacts ==
    ASSUME NEW h \in 0 .. LogCapacity - 1, NEW n \in 0 .. LogCapacity, NEW i \in 1 .. n
    PROVE  /\ Cell(h, n, i) = IF h - n + i - 1 < 0 THEN h - n + i - 1 + LogCapacity
                                                   ELSE h - n + i - 1
           /\ Cell(h, n, i) \in 0 .. LogCapacity - 1
<1>1. h + LogCapacity - n + i - 1 \in 0 .. (2 * LogCapacity - 1)
  BY Capacity
<1>2. PICK x \in 0 .. (2 * LogCapacity - 1) : x = h + LogCapacity - n + i - 1
  BY <1>1
<1>3. Cell(h, n, i) = x % LogCapacity
  BY <1>2 DEF Cell
<1>4. Cell(h, n, i) = IF x < LogCapacity THEN x ELSE x - LogCapacity
  BY <1>3, Wrap
<1> QED BY <1>2, <1>4, Capacity

(* The head moves on by one cell and wraps at the capacity. *)
LEMMA HeadStep ==
    ASSUME NEW h \in 0 .. LogCapacity - 1
    PROVE  (h + 1) % LogCapacity = IF h + 1 = LogCapacity THEN 0 ELSE h + 1
<1>1. h + 1 \in 0 .. (2 * LogCapacity - 1)
  BY Capacity
<1> QED BY <1>1, Wrap, Capacity

(* What the last n of a list are.                                           *)
LEMMA SuffixFacts ==
    ASSUME NEW S, NEW s \in Seq(S), NEW n \in 0 .. Len(s)
    PROVE  /\ Suffix(s, n) \in Seq(S) /\ Len(Suffix(s, n)) = n
           /\ \A i \in 1 .. n : Suffix(s, n)[i] = s[Len(s) - n + i]
<1>1. Len(s) \in Nat /\ n \in Nat /\ n <= Len(s) /\ \A i \in 1 .. Len(s) : s[i] \in S
  BY LenProperties, ElementOfSeq
<1> DEFINE a == Len(s) - n + 1
           b == Len(s)
<1>2. a \in Int /\ b \in Int /\ \A i \in a .. b : s[i] \in S
  BY <1>1
<1>3. b - a + 1 = n /\ (a <= b <=> n > 0) /\ \A i \in 1 .. n : a + i - 1 = Len(s) - n + i
  BY <1>1
<1>4. /\ SubSeq(s, a, b) \in Seq(S)
      /\ Len(SubSeq(s, a, b)) = IF a <= b THEN b - a + 1 ELSE 0
      /\ \A i \in 1 .. b - a + 1 : SubSeq(s, a, b)[i] = s[a + i - 1]
  BY <1>2, SubSeqProperties
<1>5. Suffix(s, n) = SubSeq(s, a, b)
  BY DEF Suffix
<1> HIDE DEF a, b
<1> QED BY <1>1, <1>3, <1>4, <1>5

(* A new tracker has no rules, an empty log and an empty cache. *)
LEMMA NewFacts ==
    /\ New \in Objects /\ LogOf(New) /\ New.rules = <<>>
    /\ New.known = [p \in Pids |-> NoInfo]
<1>1. NoInfo \in Infos
  BY ProcessTrackerAssumption DEF NoInfo, Infos, Never
<1>2. <<>> \in Seq(Entries) /\ Len(<<>>) = 0
  BY EmptySeq
<1>3. New \in Objects
  BY <1>1, <1>2, Capacity DEF New, Objects
<1>4. LogOf(New)
  BY <1>2 DEF New, LogOf
<1> QED BY <1>3, <1>4 DEF New

(* A logged entry takes the head's cell and keeps every other cell of the   *)
(* entries that stay.                                                       *)
LEMMA CellsKept ==
    ASSUME NEW h \in 0 .. LogCapacity - 1, NEW n \in 0 .. LogCapacity, n < LogCapacity,
           NEW h2 \in 0 .. LogCapacity - 1, h2 = IF h + 1 = LogCapacity THEN 0 ELSE h + 1
    PROVE  /\ \A i \in 1 .. n : Cell(h2, n + 1, i) = Cell(h, n, i) /\ Cell(h, n, i) # h
           /\ Cell(h2, n + 1, n + 1) = h
<1>1. ASSUME NEW i \in 1 .. n
      PROVE  Cell(h2, n + 1, i) = Cell(h, n, i) /\ Cell(h, n, i) # h
  <2>1. n + 1 \in 0 .. LogCapacity /\ i \in 1 .. n + 1
    BY Capacity
  <2>2. PICK m \in 0 .. LogCapacity : m = n + 1
    BY <2>1
  <2>3. Cell(h2, m, i) = IF h2 - m + i - 1 < 0 THEN h2 - m + i - 1 + LogCapacity
                                               ELSE h2 - m + i - 1
    BY <2>1, <2>2, CellFacts
  <2>4. Cell(h, n, i) = IF h - n + i - 1 < 0 THEN h - n + i - 1 + LogCapacity
                                             ELSE h - n + i - 1
    BY CellFacts
  <2> QED BY <2>2, <2>3, <2>4, Capacity
<1>2. Cell(h2, n + 1, n + 1) = h
  <2>1. PICK m \in 1 .. LogCapacity : m = n + 1
    BY Capacity
  <2>2. Cell(h2, m, m) = IF h2 - m + m - 1 < 0 THEN h2 - m + m - 1 + LogCapacity
                                               ELSE h2 - m + m - 1
    BY CellFacts, Capacity
  <2> QED BY <2>1, <2>2, Capacity
<1> QED BY <1>1, <1>2

(* The same of a full buffer: the oldest entry goes.                        *)
LEMMA CellsMoved ==
    ASSUME NEW h \in 0 .. LogCapacity - 1, NEW n \in 0 .. LogCapacity, n >= LogCapacity,
           NEW h2 \in 0 .. LogCapacity - 1, h2 = IF h + 1 = LogCapacity THEN 0 ELSE h + 1
    PROVE  /\ \A i, j \in 1 .. n :
                 j = i + 1 => Cell(h2, n, i) = Cell(h, n, j) /\ Cell(h, n, j) # h
           /\ Cell(h2, n, n) = h
<1>1. ASSUME NEW i \in 1 .. n, NEW j \in 1 .. n, j = i + 1
      PROVE  Cell(h2, n, i) = Cell(h, n, j) /\ Cell(h, n, j) # h
  <2>1. Cell(h2, n, i) = IF h2 - n + i - 1 < 0 THEN h2 - n + i - 1 + LogCapacity
                                               ELSE h2 - n + i - 1
    BY CellFacts
  <2>2. Cell(h, n, j) = IF h - n + j - 1 < 0 THEN h - n + j - 1 + LogCapacity
                                             ELSE h - n + j - 1
    BY CellFacts
  <2> QED BY <1>1, <2>1, <2>2, Capacity
<1>2. Cell(h2, n, n) = h
  <2>1. n \in 1 .. n
    BY Capacity
  <2>2. Cell(h2, n, n) = IF h2 - n + n - 1 < 0 THEN h2 - n + n - 1 + LogCapacity
                                               ELSE h2 - n + n - 1
    BY <2>1, CellFacts
  <2> QED BY <2>2, Capacity
<1> QED BY <1>1, <1>2

Logged(o, e) == Remember(AddLogEntry(o, e), e)

(* AddLogEntry keeps the buffer true to what was logged, before and after   *)
(* it wraps.                                                                *)
LEMMA LoggedFacts ==
    ASSUME NEW o \in Objects, LogOf(o), NEW e \in Entries
    PROVE  /\ Logged(o, e) \in Objects /\ LogOf(Logged(o, e))
           /\ Logged(o, e).rules = o.rules /\ Logged(o, e).known = o.known
<1>1. /\ o.log \in [0 .. LogCapacity - 1 -> Entries \cup {<<>>}] /\ o.head \in 0 .. LogCapacity - 1
      /\ o.count \in 0 .. LogCapacity /\ o.last \in Seq(Entries)
      /\ o.rules \in RuleFiles \cup {<<>>} /\ o.known \in [Pids -> Infos]
  BY DEF Objects
<1>2. PICK L \in [0 .. LogCapacity - 1 -> Entries \cup {<<>>}] : L = o.log
  BY <1>1
<1>3. PICK h \in 0 .. LogCapacity - 1 : h = o.head
  BY <1>1
<1>4. PICK n \in 0 .. LogCapacity : n = o.count
  BY <1>1
<1>5. PICK s \in Seq(Entries) : s = o.last
  BY <1>1
<1>6. Len(s) = n
  BY <1>4, <1>5 DEF LogOf
<1>7. \A i \in 1 .. n : L[Cell(h, n, i)] = s[i]
  BY <1>2, <1>3, <1>4, <1>5 DEF LogOf
<1>8. PICK h2 \in 0 .. LogCapacity - 1 : h2 = IF h + 1 = LogCapacity THEN 0 ELSE h + 1
  BY Capacity
<1>9. PICK m \in 0 .. LogCapacity : m = IF n < LogCapacity THEN n + 1 ELSE n
  BY Capacity
<1>10. PICK a \in Seq(Entries) : a = Append(s, e)
  BY AppendProperties, Zenon
<1>11. Len(a) = n + 1 /\ a[n + 1] = e /\ \A i \in 1 .. n : a[i] = s[i]
  BY <1>6, <1>10, AppendProperties
<1>12. m \in 0 .. Len(a) /\ m > 0 /\ m = Min2(Len(s) + 1, LogCapacity)
  BY <1>6, <1>9, <1>11, Capacity DEF Min2
<1>13. PICK w : w = Suffix(a, m)
  OBVIOUS
<1>14. w \in Seq(Entries) /\ Len(w) = m /\ \A i \in 1 .. m : w[i] = a[Len(a) - m + i]
  BY <1>12, <1>13, SuffixFacts, Zenon
<1>15. PICK M \in [0 .. LogCapacity - 1 -> Entries \cup {<<>>}] : M = [L EXCEPT ![h] = e]
  BY Zenon
<1>16. M[h] = e /\ \A j \in 0 .. LogCapacity - 1 : j # h => M[j] = L[j]
  BY <1>15
<1>17. \A i \in 1 .. m : M[Cell(h2, m, i)] = w[i]
  <2>1. CASE n < LogCapacity
    <3>1. SUFFICES ASSUME NEW i \in 1 .. m PROVE M[Cell(h2, m, i)] = w[i]
      OBVIOUS
    <3>2. m = n + 1
      BY <1>9, <2>1
    <3>3. w[i] = a[i]
      BY <1>11, <1>14, <3>2
    <3>4. CASE i = m
      <4>1. Cell(h2, n + 1, n + 1) = h
        BY <1>8, <2>1, CellsKept, Zenon
      <4> QED BY <1>11, <1>16, <3>2, <3>3, <3>4, <4>1
    <3>5. CASE i \in 1 .. n
      <4>1. Cell(h2, n + 1, i) = Cell(h, n, i) /\ Cell(h, n, i) # h
        BY <1>8, <2>1, <3>5, CellsKept
      <4>2. Cell(h, n, i) \in 0 .. LogCapacity - 1
        BY <3>5, CellFacts
      <4>3. M[Cell(h, n, i)] = s[i]
        BY <1>7, <1>16, <3>5, <4>1, <4>2
      <4> QED BY <1>11, <3>2, <3>3, <3>5, <4>1, <4>3
    <3> QED BY <3>2, <3>4, <3>5
  <2>2. CASE n >= LogCapacity
    <3>1. SUFFICES ASSUME NEW i \in 1 .. m PROVE M[Cell(h2, m, i)] = w[i]
      OBVIOUS
    <3>2. m = n
      BY <1>9, <2>2, Capacity
    <3>3. w[i] = a[i + 1]
      BY <1>11, <1>14, <3>2
    <3>4. CASE i = m
      <4>1. Cell(h2, n, n) = h
        BY <1>8, <2>2, CellsMoved
      <4> QED BY <1>11, <1>16, <3>2, <3>3, <3>4, <4>1
    <3>5. CASE i \in 1 .. n - 1
      <4>1. PICK j \in 1 .. n : j = i + 1
        BY <3>5
      <4>2. i \in 1 .. n
        BY <3>5
      <4>3. Cell(h2, n, i) = Cell(h, n, j) /\ Cell(h, n, j) # h
        BY <1>8, <2>2, <4>1, <4>2, CellsMoved
      <4>4. Cell(h, n, j) \in 0 .. LogCapacity - 1
        BY CellFacts
      <4>5. M[Cell(h, n, j)] = s[j]
        BY <1>7, <1>16, <4>3, <4>4
      <4>6. w[i] = s[j]
        BY <1>11, <3>3, <4>1
      <4> QED BY <3>2, <4>3, <4>5, <4>6
    <3> QED BY <3>2, <3>4, <3>5
  <2>3. n < LogCapacity \/ n >= LogCapacity
    BY Capacity
  <2> QED BY <2>1, <2>2, <2>3
<1>18. PICK q : /\ q \in Objects /\ q = AddLogEntry(o, e) /\ q.log = M /\ q.head = h2
                /\ q.count = m /\ q.rules = o.rules /\ q.known = o.known
                /\ q.last = s
  <2>1. [o.log EXCEPT ![o.head] = e] = M /\ (o.head + 1) % LogCapacity = h2
    BY <1>2, <1>3, <1>8, <1>15, HeadStep
  <2>2. (IF o.count < LogCapacity THEN o.count + 1 ELSE o.count) = m
    BY <1>4, <1>9
  <2>3. AddLogEntry(o, e) = [o EXCEPT !.log = M, !.head = h2, !.count = m]
    BY <2>1, <2>2, Zenon DEF AddLogEntry
  <2> QED BY <1>5, <2>3, Zenon DEF Objects
<1>19. Logged(o, e) = [q EXCEPT !.last = w]
  BY <1>10, <1>12, <1>13, <1>18 DEF Logged, Remember
<1>20. /\ Logged(o, e) \in Objects /\ Logged(o, e).log = M /\ Logged(o, e).head = h2
       /\ Logged(o, e).count = m /\ Logged(o, e).last = w
       /\ Logged(o, e).rules = o.rules /\ Logged(o, e).known = o.known
  BY <1>14, <1>18, <1>19, Zenon DEF Objects
<1> QED BY <1>14, <1>17, <1>20 DEF LogOf

(* What GetRecentEntries reads is the end of the list.                      *)
LEMMA RecentFacts ==
    ASSUME NEW o \in Objects, LogOf(o), NEW k \in 0 .. LogCapacity + 1
    PROVE  GetRecentEntries(o, k) = Suffix(o.last, Min2(k, Len(o.last)))
<1>1. PICK L \in [0 .. LogCapacity - 1 -> Entries \cup {<<>>}] : L = o.log
  BY DEF Objects
<1>2. PICK h \in 0 .. LogCapacity - 1 : h = o.head
  BY DEF Objects
<1>3. PICK n \in 0 .. LogCapacity : n = o.count
  BY DEF Objects
<1>4. PICK s \in Seq(Entries) : s = o.last
  BY DEF Objects
<1>5. Len(s) = n /\ \A i \in 1 .. n : L[Cell(h, n, i)] = s[i]
  BY <1>1, <1>2, <1>3, <1>4 DEF LogOf
<1>6. PICK m \in 0 .. n : m = Min2(k, n)
  BY Capacity DEF Min2
<1>7. PICK w \in Seq(Entries) : w = Suffix(s, m)
  BY <1>5, SuffixFacts
<1>8. Len(w) = m /\ \A i \in 1 .. m : w[i] = s[n - m + i]
  <2>1. m \in 0 .. Len(s)
    BY <1>5
  <2>2. Len(w) = m /\ \A i \in 1 .. m : w[i] = s[Len(s) - m + i]
    BY <1>7, <2>1, SuffixFacts
  <2> QED BY <1>5, <2>2
<1>9. w = [i \in 1 .. m |-> w[i]]
  BY <1>8
<1>10. PICK b \in 0 .. LogCapacity - 1 : b = (h + LogCapacity - m) % LogCapacity
  BY Capacity
<1>11. ASSUME NEW i \in 1 .. m PROVE L[(b + i - 1) % LogCapacity] = w[i]
  <2>1. PICK x \in 0 .. (2 * LogCapacity - 1) : x = h + LogCapacity - m
    BY Capacity
  <2>2. b = IF x < LogCapacity THEN x ELSE x - LogCapacity
    BY <1>10, <2>1, Wrap
  <2>3. PICK y \in 0 .. (2 * LogCapacity - 1) : y = b + i - 1
    BY Capacity
  <2>4. (b + i - 1) % LogCapacity = IF y < LogCapacity THEN y ELSE y - LogCapacity
    BY <2>3, Wrap
  <2>5. PICK j \in 1 .. n : j = n - m + i
    BY <1>6
  <2>6. Cell(h, n, j) = IF h - n + j - 1 < 0 THEN h - n + j - 1 + LogCapacity
                                             ELSE h - n + j - 1
    BY CellFacts
  <2>7. h - n + j - 1 = h - m + i - 1
    BY <2>5
  <2>8. Cell(h, n, j) = IF h - m + i - 1 < 0 THEN h - m + i - 1 + LogCapacity
                                             ELSE h - m + i - 1
    BY <2>6, <2>7
  <2>9. (b + i - 1) % LogCapacity = Cell(h, n, j)
    <3>1. CASE h < m
      <4>1. b = h + LogCapacity - m
        BY <2>1, <2>2, <3>1, Capacity
      <4>2. y = h - m + i - 1 + LogCapacity
        BY <2>3, <4>1, Capacity
      <4> QED BY <2>4, <2>8, <4>2, Capacity
    <3>2. CASE h >= m
      <4>1. b = h - m
        BY <2>1, <2>2, <3>2, Capacity
      <4>2. y = h - m + i - 1 /\ y >= 0 /\ y < LogCapacity
        BY <2>3, <3>2, <4>1, Capacity
      <4> QED BY <2>4, <2>8, <4>2, Capacity
    <3> QED BY <3>1, <3>2
  <2> QED BY <1>5, <1>8, <2>5, <2>9
<1>12. GetRecentEntries(o, k) = [i \in 1 .. m |-> L[(b + i - 1) % LogCapacity]]
  BY <1>1, <1>2, <1>3, <1>6, <1>10 DEF GetRecentEntries
<1>13. GetRecentEntries(o, k) = [i \in 1 .. m |-> w[i]]
  BY <1>11, <1>12
<1> QED BY <1>4, <1>5, <1>6, <1>7, <1>9, <1>13

-----------------------------------------------------------------------------
(* The inductive invariant.                                                 *)

Places == {"idle", "lookup", "query", "store", "check", "log", "load", "build", "install"}
Locals == [k : Trackers \cup {0}, pid : Pids \cup {0}, op : Ops \cup {"none"}, now : Int,
           name : Names \cup {<<>>}, allowed : BOOLEAN]

TypeInv ==
    /\ tracker \in Trackers \cup {0}
    /\ obj \in [Trackers -> Objects]
    /\ owner \in [Pids -> Names]
    /\ clock \in Nat
    /\ seen \in [Pids -> [Names -> Int]]
    /\ pc \in [Threads -> Places]
    /\ loc \in [Threads -> Locals]

(* The owner's name is true now, and none was true later than now.          *)
SeenInv ==
    \A p \in Pids : /\ seen[p][owner[p]] = clock
                    /\ \A n \in Names : seen[p][n] <= clock

InUse(k) == k = tracker \/ \E t \in Threads : loc[t].k = k

(* An entry of the cache has a name that was true when its life began.      *)
KnownOf(o) ==
    \A p \in Pids :
        o.known[p].expires >= 0 =>
            /\ o.known[p].name \in Names
            /\ seen[p][o.known[p].name] >= o.known[p].expires - TTL

ObjOk(k) ==
    /\ LogOf(obj[k]) /\ KnownOf(obj[k])
    /\ InUse(k) => obj[k].rules # <<>>

(* What a call knows of the name it works with.                             *)
CallOk(t) ==
    /\ pc[t] \in {"lookup", "query", "store", "check"} =>
         loc[t].pid \in Pids /\ loc[t].now >= 0 /\ loc[t].now <= clock
    /\ pc[t] = "store" =>
         loc[t].name \in Names /\ seen[loc[t].pid][loc[t].name] >= loc[t].now
    /\ pc[t] = "check" =>
         loc[t].name \in Names /\ seen[loc[t].pid][loc[t].name] > loc[t].now - TTL
    /\ pc[t] \notin {"idle", "build"} <=> loc[t].k \in Trackers

IInv ==
    /\ TypeInv /\ SeenInv
    /\ \A k \in Trackers : ObjOk(k)
    /\ \A t \in Threads : CallOk(t)

-----------------------------------------------------------------------------
(* The call records.                                                        *)

(* The locals of an idle thread. *)
LEMMA NoCallFacts ==
    /\ NoCall \in Locals /\ NoCall.k = 0 /\ NoCall.name = <<>>
    /\ NoCall.pid = 0 /\ NoCall.now = 0
<1>1. <<>> \in Names \cup {<<>>} /\ 0 \in Int /\ TRUE \in BOOLEAN
  OBVIOUS
<1> QED BY <1>1, Zenon DEF NoCall, Locals

(* A call with a name set. *)
LEMMA SetName ==
    ASSUME NEW c \in Locals, NEW n \in Names
    PROVE  /\ [c EXCEPT !.name = n] \in Locals /\ [c EXCEPT !.name = n].name = n
           /\ [c EXCEPT !.name = n].k = c.k /\ [c EXCEPT !.name = n].pid = c.pid
           /\ [c EXCEPT !.name = n].now = c.now
BY Zenon DEF Locals

(* A call with a tracker set. *)
LEMMA SetTracker ==
    ASSUME NEW c \in Locals, NEW j \in Trackers
    PROVE  [c EXCEPT !.k = j] \in Locals /\ [c EXCEPT !.k = j].k = j
BY Zenon DEF Locals

(* A step of the call of thread t.                                          *)
LEMMA Moved ==
    ASSUME TypeInv, NEW t \in Threads, NEW where \in Places, NEW c \in Locals,
           Goto(t, where), loc' = [loc EXCEPT ![t] = c]
    PROVE  /\ pc' \in [Threads -> Places] /\ loc' \in [Threads -> Locals]
           /\ pc'[t] = where /\ loc'[t] = c
           /\ \A u \in Threads \ {t} : pc'[u] = pc[u] /\ loc'[u] = loc[u]
<1>1. pc \in [Threads -> Places] /\ loc \in [Threads -> Locals]
  BY DEF TypeInv
<1>2. pc' = [pc EXCEPT ![t] = where]
  BY DEF Goto
<1> QED BY <1>1, <1>2, Zenon

(* The types of the locals of a call. *)
LEMMA CallTyped ==
    ASSUME TypeInv, NEW t \in Threads
    PROVE  /\ loc[t] \in Locals /\ loc[t].k \in Trackers \cup {0}
           /\ loc[t].pid \in Pids \cup {0} /\ loc[t].now \in Int
           /\ loc[t].name \in Names \cup {<<>>}
           /\ loc[t].op \in Ops \cup {"none"} /\ loc[t].allowed \in BOOLEAN
<1>1. loc[t] \in Locals
  BY DEF TypeInv
<1> QED BY <1>1, Zenon DEF Locals

-----------------------------------------------------------------------------
(* A step of one thread that changes one tracker.                           *)

(* A step makes no tracker in use but the one it works on. *)
LEMMA NewlyUsed ==
    ASSUME NEW t \in Threads, NEW k, NEW j \in Trackers, j # k,
           \A u \in Threads \ {t} : loc'[u] = loc[u],
           tracker' \in {tracker, 0, k}, loc'[t].k \in {0, k, tracker, loc[t].k}, InUse(j)'
    PROVE  InUse(j)
<1>1. j # 0
  BY ProcessTrackerAssumption
<1>2. j = tracker' \/ \E u \in Threads : loc'[u].k = j
  BY Zenon DEF InUse
<1>3. CASE j = tracker'
  BY <1>1, <1>3, Zenon DEF InUse
<1>4. CASE \E u \in Threads : loc'[u].k = j
  <2>1. PICK u \in Threads : loc'[u].k = j
    BY <1>4
  <2>2. CASE u = t
    BY <1>1, <2>1, <2>2, Zenon DEF InUse
  <2>3. CASE u # t
    BY <2>1, <2>3, Zenon DEF InUse
  <2> QED BY <2>2, <2>3
<1> QED BY <1>2, <1>3, <1>4

(* A step of one thread on one tracker leaves the rest of the invariant alone. *)
LEMMA FrameStep ==
    ASSUME IInv, NEW t \in Threads, NEW k \in Trackers \cup {0}, TypeInv', world' = world,
           \A u \in Threads \ {t} : pc'[u] = pc[u] /\ loc'[u] = loc[u],
           CallOk(t)',
           \A j \in Trackers : j # k => obj'[j] = obj[j],
           k \in Trackers => ObjOk(k)',
           tracker' \in {tracker, 0, k}, loc'[t].k \in {0, k, tracker, loc[t].k}
    PROVE  IInv'
<1>1. owner' = owner /\ clock' = clock /\ seen' = seen
  BY DEF world
<1>2. SeenInv'
  BY <1>1 DEF IInv, SeenInv
<1>3. ASSUME NEW j \in Trackers PROVE ObjOk(j)'
  <2>1. CASE j = k
    BY <2>1
  <2>2. CASE j # k
    <3>1. ObjOk(j) /\ obj'[j] = obj[j]
      BY <2>2 DEF IInv
    <3>2. InUse(j)' => InUse(j)
      BY <2>2, NewlyUsed, Zenon
    <3> QED BY <1>1, <3>1, <3>2, Zenon DEF ObjOk, KnownOf, LogOf
  <2> QED BY <2>1, <2>2
<1>4. ASSUME NEW u \in Threads PROVE CallOk(u)'
  <2>1. CASE u = t
    BY <2>1
  <2>2. CASE u # t
    <3>1. CallOk(u) /\ pc'[u] = pc[u] /\ loc'[u] = loc[u]
      BY <2>2 DEF IInv
    <3> QED BY <1>1, <3>1, Zenon DEF CallOk
  <2> QED BY <2>1, <2>2
<1> QED BY <1>2, <1>3, <1>4 DEF IInv

(* The same of a step that changes no tracker.                              *)
LEMMA CallStep ==
    ASSUME IInv, NEW t \in Threads, NEW where \in Places, NEW c \in Locals,
           Goto(t, where), loc' = [loc EXCEPT ![t] = c],
           UNCHANGED <<tracker, obj, world>>, c.k \in {0, tracker, loc[t].k}, CallOk(t)'
    PROVE  IInv'
<1>1. /\ pc' \in [Threads -> Places] /\ loc' \in [Threads -> Locals]
      /\ pc'[t] = where /\ loc'[t] = c
      /\ \A u \in Threads \ {t} : pc'[u] = pc[u] /\ loc'[u] = loc[u]
  BY Moved, Zenon DEF IInv
<1>2. TypeInv'
  BY <1>1 DEF IInv, TypeInv, world
<1>3. 0 \in Trackers \cup {0} /\ ~(0 \in Trackers)
  BY ProcessTrackerAssumption
<1>4. /\ loc'[t].k \in {0, 0, tracker, loc[t].k} /\ tracker' \in {tracker, 0, 0}
      /\ \A j \in Trackers : j # 0 => obj'[j] = obj[j]
      /\ world' = world
  BY <1>1, Zenon
<1> QED BY <1>1, <1>2, <1>3, <1>4, FrameStep, Zenon

-----------------------------------------------------------------------------
(* The steps of a check.                                                    *)

(* A check or a logged close begins (CheckAccess, LogAccess). *)
LEMMA CallBegins ==
    ASSUME IInv, NEW t \in Threads, NEW pid \in Pids, NEW op \in Ops, Call(t, pid, op)
    PROVE  IInv'
<1> DEFINE c == [NoCall EXCEPT !.k = tracker, !.pid = pid, !.op = op, !.now = clock]
<1>1. tracker \in Trackers /\ clock \in Nat /\ clock \in Int
  BY DEF Call, IInv, TypeInv
<1>2. c \in Locals /\ c.k = tracker /\ c.pid = pid /\ c.now = clock
  BY <1>1, NoCallFacts, Zenon DEF Locals
<1>3. /\ Goto(t, "lookup") /\ loc' = [loc EXCEPT ![t] = c]
      /\ UNCHANGED <<tracker, obj, world>>
  BY DEF Call
<1> HIDE DEF c
<1>4. "lookup" \in Places
  BY DEF Places
<1>5. pc'[t] = "lookup" /\ loc'[t] = c
  BY <1>2, <1>3, <1>4, Moved, Zenon DEF IInv
<1>6. clock' = clock
  BY <1>3 DEF world
<1>7. CallOk(t)'
  BY <1>1, <1>2, <1>5, <1>6 DEF CallOk
<1> QED BY <1>2, <1>3, <1>4, <1>7, CallStep, Zenon

(* The name is known: on to the rules, or for a close to the log.           *)
LEMMA ResolveStep ==
    ASSUME IInv, NEW t \in Threads, NEW n \in Names, pc[t] \in {"lookup", "store"},
           seen[loc[t].pid][n] > loc[t].now - TTL, Resolve(t, n), world' = world
    PROVE  \E where \in Places, c \in Locals :
               /\ Goto(t, where) /\ loc' = [loc EXCEPT ![t] = c]
               /\ c.k = loc[t].k /\ CallOk(t)'
<1>1. loc[t] \in Locals /\ loc[t].k \in Trackers /\ CallOk(t) /\ TypeInv
  <2>1. TypeInv /\ CallOk(t)
    BY DEF IInv
  <2> QED BY <2>1, CallTyped DEF CallOk
<1>2. clock' = clock /\ seen' = seen
  BY DEF world
<1>3. CASE loc[t].op = "close"
  <2> DEFINE c == [NoCall EXCEPT !.k = loc[t].k]
  <2>1. c \in Locals /\ c.k = loc[t].k
    BY <1>1, NoCallFacts, SetTracker, Zenon
  <2>2. loc' = [loc EXCEPT ![t] = c] /\ Goto(t, "log") /\ "log" \in Places
    BY <1>3, Zenon DEF Resolve, Places
  <2> HIDE DEF c
  <2>3. pc'[t] = "log" /\ loc'[t] = c
    BY <1>1, <2>1, <2>2, Moved, Zenon
  <2>4. CallOk(t)'
    BY <1>1, <2>1, <2>3 DEF CallOk
  <2> QED BY <2>1, <2>2, <2>4, Zenon
<1>4. CASE loc[t].op # "close"
  <2> DEFINE c == [loc[t] EXCEPT !.name = n]
  <2>1. /\ c \in Locals /\ c.k = loc[t].k /\ c.pid = loc[t].pid /\ c.now = loc[t].now
        /\ c.name = n
    BY <1>1, SetName, Zenon
  <2>2. loc' = [loc EXCEPT ![t] = c] /\ Goto(t, "check") /\ "check" \in Places
    BY <1>4, Zenon DEF Resolve, Places
  <2> HIDE DEF c
  <2>3. pc'[t] = "check" /\ loc'[t] = c
    BY <1>1, <2>1, <2>2, Moved, Zenon
  <2>4. loc[t].pid \in Pids /\ loc[t].now >= 0 /\ loc[t].now <= clock
    BY <1>1 DEF CallOk
  <2>5. CallOk(t)'
    BY <1>1, <1>2, <2>1, <2>3, <2>4 DEF CallOk
  <2> QED BY <2>1, <2>2, <2>5, Zenon
<1> QED BY <1>3, <1>4

(* The read of the name cache (ResolveProcess). *)
LEMMA LookUpStep ==
    ASSUME IInv, NEW t \in Threads, LookUp(t)
    PROVE  IInv'
<1>1. /\ loc[t] \in Locals /\ loc[t].k \in Trackers /\ loc[t].pid \in Pids
      /\ loc[t].now \in Int /\ loc[t].now >= 0 /\ CallOk(t) /\ TypeInv
  <2>1. TypeInv /\ CallOk(t) /\ pc[t] = "lookup"
    BY DEF IInv, LookUp
  <2> QED BY <2>1, CallTyped DEF CallOk
<1>2. PICK o \in Objects : o = obj[loc[t].k]
  BY <1>1 DEF TypeInv
<1>3. PICK info \in Infos : info = o.known[loc[t].pid]
  BY <1>1 DEF Objects
<1>4. info.expires \in Int
  BY DEF Infos
<1>5. UNCHANGED <<tracker, obj, world>>
  BY DEF LookUp
<1>6. CASE info.expires > loc[t].now
  <2>1. ObjOk(loc[t].k) /\ info.expires >= 0
    BY <1>1, <1>4, <1>6 DEF IInv
  <2>2. /\ info.name \in Names
        /\ seen[loc[t].pid][info.name] >= info.expires - TTL
    BY <1>1, <1>2, <1>3, <2>1, Zenon DEF ObjOk, KnownOf
  <2>3. seen[loc[t].pid][info.name] \in Int
    BY <1>1, <2>2 DEF TypeInv
  <2>4. seen[loc[t].pid][info.name] > loc[t].now - TTL
    BY <1>1, <1>4, <1>6, <2>2, <2>3, ProcessTrackerAssumption
  <2>5. Resolve(t, info.name)
    BY <1>2, <1>3, <1>6, Zenon DEF LookUp
  <2>6. pc[t] \in {"lookup", "store"} /\ world' = world
    BY DEF LookUp
  <2>7. PICK where \in Places, c \in Locals :
            /\ Goto(t, where) /\ loc' = [loc EXCEPT ![t] = c]
            /\ c.k = loc[t].k /\ CallOk(t)'
    BY <2>2, <2>4, <2>5, <2>6, ResolveStep, Zenon
  <2> QED BY <1>5, <2>7, CallStep, Zenon
<1>7. CASE ~(info.expires > loc[t].now)
  <2>1. Goto(t, "query") /\ loc' = loc /\ "query" \in Places
    BY <1>2, <1>3, <1>7, Zenon DEF LookUp, Places
  <2>2. loc' = [loc EXCEPT ![t] = loc[t]]
    BY <1>1, <2>1, Zenon DEF TypeInv
  <2>3. pc'[t] = "query" /\ clock' = clock
    BY <1>1, <1>5, <2>1, <2>2, Moved, Zenon DEF world
  <2>4. CallOk(t)'
    BY <1>1, <2>1, <2>3 DEF CallOk, LookUp
  <2> QED BY <1>1, <1>5, <2>1, <2>2, <2>4, CallStep, Zenon
<1> QED BY <1>6, <1>7

(* The query of the name of a process (ResolveProcess). *)
LEMMA QueryStep ==
    ASSUME IInv, NEW t \in Threads, Query(t)
    PROVE  IInv'
<1>1. /\ loc[t] \in Locals /\ loc[t].k \in Trackers /\ loc[t].pid \in Pids
      /\ loc[t].now \in Int /\ loc[t].now >= 0 /\ loc[t].now <= clock /\ TypeInv
  <2>1. TypeInv /\ CallOk(t) /\ pc[t] = "query"
    BY DEF IInv, Query
  <2> QED BY <2>1, CallTyped DEF CallOk
<1>2. PICK n \in Names : n = owner[loc[t].pid]
  BY <1>1 DEF TypeInv
<1> DEFINE c == [loc[t] EXCEPT !.name = n]
<1>3. /\ c \in Locals /\ c.k = loc[t].k /\ c.pid = loc[t].pid /\ c.now = loc[t].now
      /\ c.name = n
  BY <1>1, SetName, Zenon
<1>4. /\ loc' = [loc EXCEPT ![t] = c] /\ Goto(t, "store") /\ "store" \in Places
      /\ UNCHANGED <<tracker, obj, world>>
  BY <1>2, Zenon DEF Query, Places
<1> HIDE DEF c
<1>5. pc'[t] = "store" /\ loc'[t] = c /\ clock' = clock /\ seen' = seen
  BY <1>1, <1>3, <1>4, Moved, Zenon DEF world
<1>6. seen[loc[t].pid][n] = clock
  BY <1>1, <1>2 DEF IInv, SeenInv
<1>7. clock >= loc[t].now
  BY <1>1 DEF TypeInv
<1>8. CallOk(t)'
  BY <1>1, <1>3, <1>5, <1>6, <1>7 DEF CallOk
<1> QED BY <1>3, <1>4, <1>8, CallStep, Zenon

(* The entry's life begins when the call took the time; the name was true   *)
(* later than that.                                                         *)
LEMMA StoreStep ==
    ASSUME IInv, NEW t \in Threads, Store(t)
    PROVE  IInv'
<1>1. /\ loc[t] \in Locals /\ loc[t].k \in Trackers /\ loc[t].pid \in Pids
      /\ loc[t].now \in Int /\ loc[t].now >= 0 /\ TypeInv /\ loc[t].name \in Names
      /\ seen[loc[t].pid][loc[t].name] >= loc[t].now
  <2>1. TypeInv /\ CallOk(t) /\ pc[t] = "store"
    BY DEF IInv, Store
  <2> QED BY <2>1, CallTyped DEF CallOk
<1>2. PICK k \in Trackers : k = loc[t].k
  BY <1>1
<1>3. PICK p \in Pids : p = loc[t].pid
  BY <1>1
<1>4. PICK n \in Names : n = loc[t].name
  BY <1>1
<1>5. PICK o \in Objects : o = obj[k]
  BY <1>1 DEF TypeInv
<1>6. PICK info \in Infos : info = [name |-> n, expires |-> Expiry(t)]
  <2>1. Expiry(t) \in Int
    BY <1>1, ProcessTrackerAssumption DEF Expiry
  <2> QED BY <2>1, Zenon DEF Infos
<1>7. info.name = n /\ info.expires = loc[t].now + TTL
  BY <1>6 DEF Expiry
<1>8. seen[p][n] \in Int /\ seen[p][n] >= loc[t].now /\ TTL \in Nat \ {0}
  BY <1>1, <1>3, <1>4, ProcessTrackerAssumption DEF TypeInv
<1>9. PICK known \in [Pids -> Infos] : known = [o.known EXCEPT ![p] = info]
  BY Zenon DEF Objects
<1>10. known[p] = info /\ \A j \in Pids : j # p => known[j] = o.known[j]
  BY <1>9 DEF Objects
<1>11. PICK q \in Objects : /\ q = [o EXCEPT !.known = known] /\ q.known = known
                            /\ q.rules = o.rules /\ q.log = o.log /\ q.head = o.head
                            /\ q.count = o.count /\ q.last = o.last
  <2> DEFINE w == [o EXCEPT !.known = known]
  <2>1. w \in Objects
    BY DEF Objects
  <2>2. /\ w.known = known /\ w.rules = o.rules /\ w.log = o.log /\ w.head = o.head
        /\ w.count = o.count /\ w.last = o.last
    BY DEF Objects
  <2> QED BY <2>1, <2>2, Zenon
<1>12. obj' = [obj EXCEPT ![k] = q]
  BY <1>2, <1>3, <1>4, <1>5, <1>6, <1>9, <1>11, Zenon DEF Store
<1>13. obj' \in [Trackers -> Objects] /\ obj'[k] = q
       /\ \A j \in Trackers : j # k => obj'[j] = obj[j]
  BY <1>1, <1>12, Zenon DEF TypeInv
<1>14. Resolve(t, n) /\ world' = world /\ tracker' = tracker /\ seen' = seen
  BY <1>4 DEF Store, world
<1>15. seen[loc[t].pid][n] > loc[t].now - TTL
  BY <1>1, <1>3, <1>8
<1>16. PICK where \in Places, c \in Locals :
           /\ Goto(t, where) /\ loc' = [loc EXCEPT ![t] = c]
           /\ c.k = loc[t].k /\ CallOk(t)'
  <2>1. pc[t] \in {"lookup", "store"}
    BY DEF Store
  <2> QED BY <1>14, <1>15, <2>1, ResolveStep, Zenon
<1>17. /\ pc' \in [Threads -> Places] /\ loc' \in [Threads -> Locals] /\ loc'[t] = c
       /\ \A u \in Threads \ {t} : pc'[u] = pc[u] /\ loc'[u] = loc[u]
  BY <1>1, <1>16, Moved, Zenon
<1>18. TypeInv'
  BY <1>1, <1>13, <1>14, <1>17 DEF TypeInv, world
<1>19. ObjOk(k)'
  <2>1. ObjOk(k) /\ InUse(k)
    BY <1>2, Zenon DEF IInv, InUse
  <2>2. LogOf(q)
    BY <1>5, <1>11, <2>1 DEF ObjOk, LogOf
  <2>3. q.rules # <<>>
    BY <1>5, <1>11, <2>1 DEF ObjOk
  <2>4. ASSUME NEW j \in Pids, q.known[j].expires >= 0
        PROVE  /\ q.known[j].name \in Names
               /\ seen[j][q.known[j].name] >= q.known[j].expires - TTL
    <3>1. CASE j = p
      BY <1>1, <1>7, <1>8, <1>10, <1>11, <3>1
    <3>2. CASE j # p
      <4>1. q.known[j] = o.known[j]
        BY <1>10, <1>11, <3>2
      <4> QED BY <1>5, <2>1, <2>4, <4>1, Zenon DEF ObjOk, KnownOf
    <3> QED BY <3>1, <3>2
  <2>5. KnownOf(q)
    BY <2>4, Zenon DEF KnownOf
  <2> QED BY <1>13, <1>14, <2>2, <2>3, <2>5, Zenon DEF ObjOk, KnownOf, LogOf
<1>20. tracker' \in {tracker, 0, k} /\ loc'[t].k \in {0, k, tracker, loc[t].k}
  BY <1>14, <1>16, <1>17, Zenon
<1>21. k \in Trackers \cup {0}
  OBVIOUS
<1> QED BY <1>13, <1>14, <1>16, <1>17, <1>18, <1>19, <1>20, <1>21, FrameStep, Zenon

(* The rules are evaluated (CheckAccess). *)
LEMMA EvaluateStep ==
    ASSUME IInv, NEW t \in Threads, Evaluate(t)
    PROVE  IInv'
<1>1. loc[t].k \in Trackers /\ TypeInv
  BY CallTyped DEF IInv, Evaluate, CallOk
<1>2. PICK b \in BOOLEAN : b = Allowed(obj[loc[t].k].rules, loc[t].name, loc[t].op)
  BY Zenon DEF Allowed
<1> DEFINE c == [NoCall EXCEPT !.k = loc[t].k, !.allowed = b]
<1>3. c \in Locals /\ c.k = loc[t].k
  BY <1>1, NoCallFacts, Zenon DEF Locals
<1>4. /\ loc' = [loc EXCEPT ![t] = c] /\ Goto(t, "log") /\ "log" \in Places
      /\ UNCHANGED <<tracker, obj, world>>
  BY <1>2, Zenon DEF Evaluate, Places
<1> HIDE DEF c
<1>5. pc'[t] = "log" /\ loc'[t] = c
  BY <1>1, <1>3, <1>4, Moved, Zenon
<1>6. CallOk(t)'
  BY <1>1, <1>3, <1>5 DEF CallOk
<1> QED BY <1>3, <1>4, <1>6, CallStep, Zenon

-----------------------------------------------------------------------------
(* The end of a call.                                                       *)

(* A new tracker caches no name. *)
LEMMA NewIsOk ==
    KnownOf(New)
<1>1. ASSUME NEW p \in Pids PROVE New.known[p].expires = Never
  BY NewFacts DEF NoInfo
<1>2. ~(Never >= 0)
  BY ProcessTrackerAssumption DEF Never
<1> QED BY <1>1, <1>2 DEF KnownOf

(* A return, with its last change of the tracker. *)
LEMMA ReturnStep ==
    ASSUME IInv, NEW t \in Threads, NEW o \in [Trackers -> Objects],
           \A j \in Trackers : j # loc[t].k => o[j] = obj[j],
           loc[t].k \in Trackers =>
               /\ LogOf(o[loc[t].k]) /\ o[loc[t].k].known = obj[loc[t].k].known
               /\ o[loc[t].k].rules # <<>>,
           tracker' \in {tracker, loc[t].k}, Return(t, o), world' = world
    PROVE  IInv'
<1>1. TypeInv /\ loc[t].k \in Trackers \cup {0} /\ NoCall \in Locals
  BY CallTyped, NoCallFacts DEF IInv
<1>2. PICK k \in Trackers \cup {0} : k = loc[t].k
  BY <1>1
<1>3. Goto(t, "idle") /\ loc' = [loc EXCEPT ![t] = NoCall] /\ "idle" \in Places
  BY DEF Return, Places
<1>4. /\ pc' \in [Threads -> Places] /\ loc' \in [Threads -> Locals]
      /\ pc'[t] = "idle" /\ loc'[t] = NoCall
      /\ \A u \in Threads \ {t} : pc'[u] = pc[u] /\ loc'[u] = loc[u]
  BY <1>1, <1>3, Moved, Zenon
<1>5. CallOk(t)'
  <2>1. loc'[t].k = 0 /\ ~(0 \in Trackers)
    BY <1>4, NoCallFacts, ProcessTrackerAssumption
  <2> QED BY <1>4, <2>1 DEF CallOk
<1>6. \/ obj' = o
      \/ /\ k \in Trackers /\ k # tracker' /\ obj' = [o EXCEPT ![k] = New]
         /\ \A u \in Threads \ {t} : loc[u].k # k
  BY <1>1, <1>2, Zenon DEF Return, Pinned
<1>7. obj' \in [Trackers -> Objects] /\ \A j \in Trackers : j # k => obj'[j] = obj[j]
  <2>1. CASE obj' = o
    BY <1>2, <2>1
  <2>2. CASE k \in Trackers /\ obj' = [o EXCEPT ![k] = New]
    BY <1>2, <2>2, NewFacts, Zenon
  <2> QED BY <1>6, <2>1, <2>2
<1>8. TypeInv'
  <2>1. tracker' \in Trackers \cup {0}
    BY <1>1 DEF TypeInv
  <2> QED BY <1>1, <1>4, <1>7, <2>1 DEF TypeInv, world
<1>9. ASSUME k \in Trackers PROVE ObjOk(k)'
  <2>1. ObjOk(k) /\ seen' = seen
    BY <1>9 DEF IInv, world
  <2>2. CASE obj' = o
    <3>1. LogOf(o[k]) /\ o[k].known = obj[k].known /\ o[k].rules # <<>>
      BY <1>2, <1>9
    <3> QED BY <2>1, <2>2, <3>1, Zenon DEF ObjOk, KnownOf, LogOf
  <2>3. CASE /\ k # tracker' /\ obj' = [o EXCEPT ![k] = New]
             /\ \A u \in Threads \ {t} : loc[u].k # k
    <3>1. obj'[k] = New
      BY <1>9, <2>3
    <3>2. k # 0
      BY <1>9, ProcessTrackerAssumption
    <3>3. ~InUse(k)'
      BY <1>4, <2>3, <3>2, NoCallFacts, Zenon DEF InUse
    <3>4. LogOf(New) /\ KnownOf(New)
      BY NewFacts, NewIsOk
    <3> QED BY <2>1, <3>1, <3>3, <3>4, Zenon DEF ObjOk, KnownOf, LogOf
  <2> QED BY <1>6, <2>2, <2>3
<1>10. tracker' \in {tracker, 0, k} /\ loc'[t].k \in {0, k, tracker, loc[t].k}
  BY <1>2, <1>4, NoCallFacts, Zenon
<1> QED BY <1>4, <1>5, <1>7, <1>8, <1>9, <1>10, FrameStep, Zenon

(* An entry is logged (AddLogEntry). *)
LEMMA LogStep ==
    ASSUME IInv, NEW t \in Threads, Log(t)
    PROVE  IInv'
<1>1. loc[t].k \in Trackers /\ TypeInv /\ loc[t].allowed \in BOOLEAN
  BY CallTyped, Zenon DEF IInv, Log, CallOk
<1>2. PICK k \in Trackers : k = loc[t].k
  BY <1>1
<1>3. obj[k] \in Objects /\ ObjOk(k) /\ InUse(k)
  BY <1>1, <1>2, Zenon DEF IInv, TypeInv, InUse
<1>4. Entry(t) \in Entries
  BY <1>1, Zenon DEF Entry, Entries
<1> DEFINE q == Logged(obj[k], Entry(t))
<1>5. q \in Objects /\ LogOf(q) /\ q.rules # <<>> /\ q.known = obj[k].known
  BY <1>3, <1>4, LoggedFacts, Zenon DEF ObjOk
<1>6. Return(t, [obj EXCEPT ![k] = q]) /\ tracker' = tracker /\ world' = world
  BY <1>2, Zenon DEF Log, Logged
<1> HIDE DEF q
<1>7. PICK o : o = [obj EXCEPT ![k] = q]
  BY Zenon
<1>8. o \in [Trackers -> Objects] /\ o[k] = q /\ \A j \in Trackers : j # k => o[j] = obj[j]
  BY <1>1, <1>5, <1>7, Zenon DEF TypeInv
<1> QED BY <1>2, <1>5, <1>6, <1>7, <1>8, ReturnStep, Zenon

-----------------------------------------------------------------------------
(* The rules, and turning the tracker off and on.                           *)

(* The load of new rules begins. *)
LEMMA SetRulesStep ==
    ASSUME IInv, NEW t \in Threads, SetRules(t)
    PROVE  IInv'
<1>1. tracker \in Trackers /\ TypeInv /\ loc[t] \in Locals
  BY CallTyped DEF IInv, TypeInv, SetRules
<1> DEFINE c == [loc[t] EXCEPT !.k = tracker]
<1>2. c \in Locals /\ c.k = tracker
  BY <1>1, SetTracker, Zenon
<1>3. /\ loc' = [loc EXCEPT ![t] = c] /\ Goto(t, "load") /\ "load" \in Places
      /\ UNCHANGED <<tracker, obj, world>>
  BY Zenon DEF SetRules, Places
<1> HIDE DEF c
<1>4. pc'[t] = "load" /\ loc'[t] = c
  BY <1>1, <1>2, <1>3, Moved, Zenon
<1>5. CallOk(t)'
  BY <1>1, <1>2, <1>4 DEF CallOk
<1> QED BY <1>2, <1>3, <1>5, CallStep, Zenon

(* New rules replace the old ones. *)
LEMMA LoadRulesStep ==
    ASSUME IInv, NEW t \in Threads, LoadRules(t)
    PROVE  IInv'
<1>1. loc[t].k \in Trackers /\ TypeInv
  BY CallTyped DEF IInv, LoadRules, CallOk
<1>2. PICK k \in Trackers : k = loc[t].k
  BY <1>1
<1>3. obj[k] \in Objects /\ ObjOk(k) /\ InUse(k)
  BY <1>1, <1>2, Zenon DEF IInv, TypeInv, InUse
<1>4. PICK list \in RuleFiles \cup {obj[k].rules} : Return(t, [obj EXCEPT ![k].rules = list])
  BY <1>2, Zenon DEF LoadRules
<1>5. list # <<>> /\ list \in RuleFiles \cup {<<>>}
  BY <1>3, ProcessTrackerAssumption DEF ObjOk, Objects
<1>6. PICK b \in Objects : b = obj[k]
  BY <1>3
<1> DEFINE q == [b EXCEPT !.rules = list]
<1>7. q \in Objects
  BY <1>5 DEF Objects
<1>8. /\ q.rules = list /\ q.known = b.known /\ q.log = b.log /\ q.head = b.head
      /\ q.count = b.count /\ q.last = b.last
  BY DEF Objects
<1>9. Return(t, [obj EXCEPT ![k] = q]) /\ tracker' = tracker /\ world' = world
  BY <1>4, <1>6, Zenon DEF LoadRules
<1> HIDE DEF q
<1>10. LogOf(q) /\ q.rules # <<>> /\ q.known = obj[k].known
  BY <1>3, <1>5, <1>6, <1>8 DEF ObjOk, LogOf
<1>11. PICK o : o = [obj EXCEPT ![k] = q]
  BY Zenon
<1>12. o \in [Trackers -> Objects] /\ o[k] = q /\ \A j \in Trackers : j # k => o[j] = obj[j]
  BY <1>1, <1>7, <1>11, Zenon DEF TypeInv
<1> QED BY <1>2, <1>9, <1>10, <1>11, <1>12, ReturnStep, Zenon

(* Turning the tracker on, when it is off. *)
LEMMA EnableStep ==
    ASSUME IInv, NEW t \in Threads, Enable(t)
    PROVE  IInv'
<1>1. TypeInv /\ loc[t] \in Locals /\ CallOk(t) /\ pc[t] = "idle"
  BY CallTyped DEF IInv, Enable
<1>2. /\ Goto(t, "build") /\ loc' = loc /\ "build" \in Places
      /\ UNCHANGED <<tracker, obj, world>>
  BY Zenon DEF Enable, Places
<1>3. loc' = [loc EXCEPT ![t] = loc[t]]
  BY <1>1, <1>2, Zenon DEF TypeInv
<1>4. pc'[t] = "build"
  BY <1>1, <1>2, <1>3, Moved, Zenon
<1>5. CallOk(t)'
  BY <1>1, <1>2, <1>4 DEF CallOk
<1> QED BY <1>1, <1>2, <1>3, <1>5, CallStep, Zenon

(* A tracker nobody holds is taken, with the configured rules.              *)
LEMMA BuildStep ==
    ASSUME IInv, NEW t \in Threads, pc[t] = "build", Build(t, ConfigRules),
           tracker' = tracker, world' = world
    PROVE  IInv'
<1>1. TypeInv /\ loc[t] \in Locals
  BY CallTyped DEF IInv
<1>2. PICK k \in Trackers : /\ obj' = [obj EXCEPT ![k] = [New EXCEPT !.rules = ConfigRules]]
                            /\ loc' = [loc EXCEPT ![t].k = k] /\ Goto(t, "install")
  BY Zenon DEF Build
<1>3. PICK b \in Objects : b = New /\ b.known = New.known /\ LogOf(b)
  BY NewFacts, Zenon
<1> DEFINE q == [b EXCEPT !.rules = ConfigRules]
           c == [loc[t] EXCEPT !.k = k]
<1>4. q \in Objects
  BY ProcessTrackerAssumption, Zenon DEF Objects
<1>5. /\ q.rules = ConfigRules /\ q.known = b.known /\ q.log = b.log /\ q.head = b.head
      /\ q.count = b.count /\ q.last = b.last
  BY DEF Objects
<1>6. c \in Locals /\ c.k = k
  BY <1>1, SetTracker, Zenon
<1>7. obj' = [obj EXCEPT ![k] = q] /\ loc' = [loc EXCEPT ![t] = c] /\ "install" \in Places
  BY <1>2, <1>3, Zenon DEF Places
<1> HIDE DEF q, c
<1>8. /\ pc' \in [Threads -> Places] /\ loc' \in [Threads -> Locals]
      /\ pc'[t] = "install" /\ loc'[t] = c
      /\ \A u \in Threads \ {t} : pc'[u] = pc[u] /\ loc'[u] = loc[u]
  BY <1>1, <1>2, <1>6, <1>7, Moved, Zenon
<1>9. /\ obj' \in [Trackers -> Objects] /\ obj'[k] = q
      /\ \A j \in Trackers : j # k => obj'[j] = obj[j]
  BY <1>1, <1>4, <1>7, Zenon DEF TypeInv
<1>10. TypeInv'
  BY <1>1, <1>8, <1>9 DEF TypeInv, world
<1>11. CallOk(t)'
  BY <1>6, <1>8 DEF CallOk
<1>12. ObjOk(k)'
  <2>1. LogOf(q) /\ q.rules # <<>> /\ q.known = New.known
    BY <1>3, <1>5, ProcessTrackerAssumption DEF LogOf
  <2>2. KnownOf(q)
    BY <2>1, NewIsOk, Zenon DEF KnownOf
  <2>3. seen' = seen
    BY DEF world
  <2> QED BY <1>9, <2>1, <2>2, <2>3, Zenon DEF ObjOk, KnownOf, LogOf
<1>13. /\ tracker' \in {tracker, 0, k} /\ loc'[t].k \in {0, k, tracker, loc[t].k}
       /\ k \in Trackers \cup {0}
  BY <1>6, <1>8, Zenon
<1> QED BY <1>8, <1>9, <1>10, <1>11, <1>12, <1>13, FrameStep, Zenon

(* A new tracker is made once its rules are loaded. *)
LEMMA TryMakeStep ==
    ASSUME IInv, NEW t \in Threads, TryMakeProcessTracker(t)
    PROVE  IInv'
<1>1. /\ pc[t] = "build" /\ tracker' = tracker /\ world' = world
      /\ Build(t, ConfigRules) \/ Return(t, obj)
  BY DEF TryMakeProcessTracker
<1>2. CASE Build(t, ConfigRules)
  BY <1>1, <1>2, BuildStep, Zenon
<1>3. CASE Return(t, obj)
  <2>1. ~(loc[t].k \in Trackers)
    BY <1>1 DEF IInv, CallOk
  <2>2. obj \in [Trackers -> Objects]
    BY DEF IInv, TypeInv
  <2> QED BY <1>1, <1>3, <2>1, <2>2, ReturnStep, Zenon
<1> QED BY <1>1, <1>2, <1>3

(* The tracker is installed unless another call was first; then it goes.    *)
LEMMA InstallStep ==
    ASSUME IInv, NEW t \in Threads, Install(t)
    PROVE  IInv'
<1>1. loc[t].k \in Trackers /\ TypeInv
  BY CallTyped DEF IInv, Install, CallOk
<1>2. PICK k \in Trackers : k = loc[t].k
  BY <1>1
<1>3. ObjOk(k) /\ InUse(k) /\ obj \in [Trackers -> Objects]
  BY <1>1, <1>2, Zenon DEF IInv, TypeInv, InUse
<1>4. LogOf(obj[k]) /\ obj[k].rules # <<>>
  BY <1>3 DEF ObjOk
<1>5. tracker' \in {tracker, loc[t].k} /\ Return(t, obj) /\ world' = world
  BY DEF Install
<1> QED BY <1>2, <1>3, <1>4, <1>5, ReturnStep, Zenon

(* Turning the tracker off. *)
LEMMA DisableStep ==
    ASSUME IInv, NEW t \in Threads, Disable(t)
    PROVE  IInv'
<1>1. TypeInv /\ tracker \in Trackers /\ CallOk(t)
  BY DEF IInv, TypeInv, Disable
<1>2. PICK k \in Trackers : k = tracker
  BY <1>1
<1>3. /\ tracker' = 0 /\ world' = world /\ pc' = pc /\ loc' = loc
      /\ obj' = IF Pinned(k, Threads) THEN obj ELSE [obj EXCEPT ![k] = New]
  BY <1>2 DEF Disable
<1>4. obj' \in [Trackers -> Objects] /\ \A j \in Trackers : j # k => obj'[j] = obj[j]
  BY <1>1, <1>3, NewFacts, Zenon DEF TypeInv
<1>5. TypeInv'
  BY <1>1, <1>3, <1>4 DEF TypeInv, world
<1>6. CallOk(t)' /\ seen' = seen
  BY <1>1, <1>3, Zenon DEF CallOk, world
<1>7. ObjOk(k)'
  <2>1. ObjOk(k) /\ InUse(k)
    BY <1>2, Zenon DEF IInv, InUse
  <2>2. CASE Pinned(k, Threads)
    <3>1. obj' = obj
      BY <1>3, <2>2
    <3> QED BY <1>6, <2>1, <3>1, Zenon DEF ObjOk, KnownOf, LogOf
  <2>3. CASE ~Pinned(k, Threads)
    <3>1. obj'[k] = New /\ k # tracker'
      BY <1>1, <1>3, <2>3, ProcessTrackerAssumption DEF TypeInv
    <3>2. ~InUse(k)'
      BY <1>3, <2>3, <3>1, Zenon DEF InUse, Pinned
    <3>3. LogOf(New) /\ KnownOf(New)
      BY NewFacts, NewIsOk
    <3> QED BY <1>6, <3>1, <3>2, <3>3, Zenon DEF ObjOk, KnownOf, LogOf
  <2> QED BY <2>2, <2>3
<1>8. /\ \A u \in Threads \ {t} : pc'[u] = pc[u] /\ loc'[u] = loc[u]
      /\ tracker' \in {tracker, 0, k} /\ loc'[t].k \in {0, k, tracker, loc[t].k}
      /\ k \in Trackers \cup {0}
  BY <1>3, Zenon
<1> QED BY <1>3, <1>4, <1>5, <1>6, <1>7, <1>8, FrameStep, Zenon

-----------------------------------------------------------------------------
(* The system: what was true stays so, and at a later time at the earliest. *)

(* Time passes or a pid has a new owner while no thread moves. *)
LEMMA WorldStep ==
    ASSUME IInv, UNCHANGED <<tracker, obj, pc, loc>>, SeenInv',
           owner' \in [Pids -> Names], clock' \in Nat, clock' >= clock,
           seen' \in [Pids -> [Names -> Int]],
           \A p \in Pids, n \in Names : seen'[p][n] >= seen[p][n]
    PROVE  IInv'
<1>1. TypeInv
  BY DEF IInv
<1>2. TypeInv'
  BY <1>1 DEF TypeInv
<1>3. seen \in [Pids -> [Names -> Int]] /\ TTL \in Nat /\ clock \in Nat
  BY <1>1, ProcessTrackerAssumption DEF TypeInv
<1>4. ASSUME NEW k \in Trackers PROVE ObjOk(k)'
  <2>1. ObjOk(k) /\ obj'[k] = obj[k] /\ (InUse(k)' <=> InUse(k))
    BY Zenon DEF IInv, InUse
  <2>2. PICK o \in Objects : o = obj[k]
    BY <1>1 DEF TypeInv
  <2>3. ASSUME NEW p \in Pids, o.known[p].expires >= 0
        PROVE  o.known[p].name \in Names /\ seen'[p][o.known[p].name] >= o.known[p].expires - TTL
    <3>1. PICK n \in Names : n = o.known[p].name /\ seen[p][n] >= o.known[p].expires - TTL
      BY <2>1, <2>2, <2>3, Zenon DEF ObjOk, KnownOf
    <3>2. o.known[p] \in Infos
      BY DEF Objects
    <3>3. o.known[p].expires \in Int
      BY <3>2 DEF Infos
    <3>4. seen'[p][n] >= seen[p][n] /\ seen'[p][n] \in Int /\ seen[p][n] \in Int
      BY <1>3
    <3>5. seen'[p][n] >= o.known[p].expires - TTL
      BY <1>3, <3>1, <3>3, <3>4
    <3> QED BY <3>1, <3>5
  <2>4. KnownOf(obj[k])'
    BY <2>1, <2>2, <2>3, Zenon DEF KnownOf
  <2>5. LogOf(obj[k])'
    BY <2>1, Zenon DEF LogOf, ObjOk
  <2> QED BY <2>1, <2>4, <2>5, Zenon DEF ObjOk
<1>5. ASSUME NEW t \in Threads PROVE CallOk(t)'
  <2>1. /\ CallOk(t) /\ pc'[t] = pc[t] /\ loc'[t] = loc[t] /\ loc[t].now \in Int
    BY <1>1, CallTyped DEF IInv
  <2>2. pc[t] \in {"lookup", "query", "store", "check"} =>
            loc[t].pid \in Pids /\ loc[t].now >= 0 /\ loc[t].now <= clock'
    BY <1>3, <2>1 DEF CallOk
  <2>3. pc[t] = "store" =>
            loc[t].name \in Names /\ seen'[loc[t].pid][loc[t].name] >= loc[t].now
    BY <1>3, <2>1 DEF CallOk
  <2>4. pc[t] = "check" =>
            loc[t].name \in Names /\ seen'[loc[t].pid][loc[t].name] > loc[t].now - TTL
    BY <1>3, <2>1 DEF CallOk
  <2> QED BY <2>1, <2>2, <2>3, <2>4, Zenon DEF CallOk
<1> QED BY <1>2, <1>4, <1>5 DEF IInv

(* Time passes. *)
LEMMA TickStep ==
    ASSUME IInv, Tick
    PROVE  IInv'
<1>1. /\ owner \in [Pids -> Names] /\ clock \in Nat /\ seen \in [Pids -> [Names -> Int]]
      /\ SeenInv
  BY DEF IInv, TypeInv
<1>2. /\ clock' = clock + 1 /\ owner' = owner /\ UNCHANGED <<tracker, obj, pc, loc>>
      /\ seen' = [p \in Pids |-> [seen[p] EXCEPT ![owner[p]] = clock + 1]]
  BY DEF Tick
<1>3. \A p \in Pids, n \in Names :
          seen'[p][n] = IF n = owner[p] THEN clock + 1 ELSE seen[p][n]
  BY <1>1, <1>2
<1>4. seen' \in [Pids -> [Names -> Int]]
  BY <1>1, <1>2
<1>5. \A p \in Pids, n \in Names : seen'[p][n] >= seen[p][n]
  BY <1>1, <1>3 DEF SeenInv
<1>6. SeenInv'
  BY <1>1, <1>2, <1>3 DEF SeenInv
<1>7. clock' \in Nat /\ clock' >= clock
  BY <1>1, <1>2
<1> QED BY <1>1, <1>2, <1>4, <1>5, <1>6, <1>7, WorldStep

(* A pid is given to a new process. *)
LEMMA NewOwnerStep ==
    ASSUME IInv, NEW p \in Pids, NEW n \in Names, NewOwner(p, n)
    PROVE  IInv'
<1>1. /\ owner \in [Pids -> Names] /\ clock \in Nat /\ seen \in [Pids -> [Names -> Int]]
      /\ SeenInv
  BY DEF IInv, TypeInv
<1>2. /\ owner' = [owner EXCEPT ![p] = n] /\ seen' = [seen EXCEPT ![p][n] = clock]
      /\ clock' = clock /\ UNCHANGED <<tracker, obj, pc, loc>>
  BY DEF NewOwner
<1>3. \A j \in Pids, m \in Names :
          seen'[j][m] = IF j = p /\ m = n THEN clock ELSE seen[j][m]
  BY <1>1, <1>2
<1>4. seen' \in [Pids -> [Names -> Int]] /\ owner' \in [Pids -> Names]
  BY <1>1, <1>2
<1>5. \A j \in Pids, m \in Names : seen'[j][m] >= seen[j][m]
  BY <1>1, <1>3 DEF SeenInv
<1>6. \A j \in Pids : owner'[j] = IF j = p THEN n ELSE owner[j]
  BY <1>1, <1>2
<1>7. SeenInv'
  BY <1>1, <1>2, <1>3, <1>6 DEF SeenInv
<1>8. clock' \in Nat /\ clock' >= clock
  BY <1>1, <1>2
<1> QED BY <1>2, <1>4, <1>5, <1>7, <1>8, WorldStep

-----------------------------------------------------------------------------
(* The first state has the invariant. *)
LEMMA InitHasIInv ==
    ASSUME Init
    PROVE  IInv
<1>1. TypeInv
  BY NewFacts, NoCallFacts, ProcessTrackerAssumption DEF Init, TypeInv, Places, Never
<1>2. SeenInv
  BY ProcessTrackerAssumption DEF Init, SeenInv, Never
<1>3. ASSUME NEW k \in Trackers PROVE ObjOk(k)
  <2>1. obj[k] = New /\ k # 0 /\ tracker = 0
    BY ProcessTrackerAssumption DEF Init
  <2>2. \A t \in Threads : loc[t].k = 0
    BY NoCallFacts DEF Init
  <2>3. ~InUse(k)
    BY <2>1, <2>2, Zenon DEF InUse
  <2> QED BY <2>1, <2>3, NewFacts, NewIsOk DEF ObjOk
<1>4. ASSUME NEW t \in Threads PROVE CallOk(t)
  <2>1. pc[t] = "idle" /\ loc[t].k = 0
    BY NoCallFacts DEF Init
  <2> QED BY <2>1, ProcessTrackerAssumption DEF CallOk
<1> QED BY <1>1, <1>2, <1>3, <1>4 DEF IInv

(* Every step keeps the invariant. *)
LEMMA NextKeepsIInv ==
    ASSUME IInv, [Next]_vars
    PROVE  IInv'
<1>1. ASSUME NEW t \in Threads, Work(t) PROVE IInv'
  <2>1. CASE \E pid \in Pids, op \in Ops : Call(t, pid, op)
    BY <2>1, CallBegins, Zenon
  <2>2. CASE LookUp(t)
    BY <2>2, LookUpStep, Zenon
  <2>3. CASE Query(t)
    BY <2>3, QueryStep, Zenon
  <2>4. CASE Store(t)
    BY <2>4, StoreStep, Zenon
  <2>5. CASE Evaluate(t)
    BY <2>5, EvaluateStep, Zenon
  <2>6. CASE Log(t)
    BY <2>6, LogStep, Zenon
  <2>7. CASE SetRules(t)
    BY <2>7, SetRulesStep, Zenon
  <2>8. CASE LoadRules(t)
    BY <2>8, LoadRulesStep, Zenon
  <2>9. CASE Enable(t)
    BY <2>9, EnableStep, Zenon
  <2>10. CASE TryMakeProcessTracker(t)
    BY <2>10, TryMakeStep, Zenon
  <2>11. CASE Install(t)
    BY <2>11, InstallStep, Zenon
  <2>12. CASE Disable(t)
    BY <2>12, DisableStep, Zenon
  <2> QED
    BY <1>1, <2>1, <2>2, <2>3, <2>4, <2>5, <2>6, <2>7, <2>8, <2>9, <2>10, <2>11, <2>12, Zenon
       DEF Work
<1>2. CASE Tick
  BY <1>2, TickStep
<1>3. CASE \E p \in Pids, n \in Names : NewOwner(p, n)
  BY <1>3, NewOwnerStep, Zenon
<1>4. CASE UNCHANGED vars
  BY <1>4, Zenon DEF vars, IInv, TypeInv, SeenInv, ObjOk, CallOk, InUse, KnownOf, LogOf
<1> QED BY <1>1, <1>2, <1>3, <1>4, Zenon DEF Next

(* The inductive invariant holds in every reachable state.                  *)
THEOREM IInvHolds == Spec => []IInv
BY InitHasIInv, NextKeepsIInv, PTL DEF Spec

(* The exports show the last n entries logged, oldest first, whatever the   *)
(* capacity of the circular log and however often it has wrapped            *)
(* (AddLogEntry, GetRecentEntries).                                         *)
THEOREM RecentIsExact == Spec => []RecentEntries
<1>1. IInv => RecentEntries
  <2> SUFFICES ASSUME IInv, NEW k \in Trackers, NEW n \in 0 .. LogCapacity + 1
               PROVE  GetRecentEntries(obj[k], n) =
                          Suffix(obj[k].last, Min2(n, Len(obj[k].last)))
    BY DEF RecentEntries
  <2>1. obj[k] \in Objects /\ LogOf(obj[k])
    BY DEF IInv, TypeInv, ObjOk
  <2> QED BY <2>1, RecentFacts, Zenon
<1> QED BY <1>1, IInvHolds, PTL

(* A recycled pid is judged under its old name no longer than the time to   *)
(* live, for any number of processes, names and concurrent calls            *)
(* (ResolveProcess).                                                        *)
THEOREM NamesAreFresh == Spec => []NameFresh
<1>1. IInv => NameFresh
  <2> SUFFICES ASSUME IInv, NEW t \in Threads, pc[t] \in {"store", "check"}
               PROVE  seen[loc[t].pid][loc[t].name] > loc[t].now - TTL
    BY DEF NameFresh
  <2>1. TypeInv /\ CallOk(t) /\ loc[t].now \in Int /\ TTL \in Nat \ {0}
    BY CallTyped, ProcessTrackerAssumption DEF IInv
  <2>2. CASE pc[t] = "check"
    BY <2>1, <2>2 DEF CallOk
  <2>3. CASE pc[t] = "store"
    <3>1. /\ loc[t].pid \in Pids /\ loc[t].name \in Names
          /\ seen[loc[t].pid][loc[t].name] >= loc[t].now
      BY <2>1, <2>3 DEF CallOk
    <3>2. seen[loc[t].pid][loc[t].name] \in Int
      BY <2>1, <3>1 DEF TypeInv
    <3> QED BY <2>1, <3>1, <3>2
  <2> QED BY <2>2, <2>3
<1> QED BY <1>1, IInvHolds, PTL

(* A tracker in use always has rules: turning it off and on while rules are *)
(* loaded and calls hold the old one never leaves the empty list that       *)
(* allows everything (SetProcessTrackerEnabled, TryMakeProcessTracker).     *)
THEOREM RulesStayInForce == Spec => []RulesInForce
<1>1. IInv => RulesInForce
  BY Zenon DEF IInv, TypeInv, ObjOk, InUse, RulesInForce
<1> QED BY <1>1, IInvHolds, PTL
=============================================================================
