---------------------------- MODULE FileContent ----------------------------
(***************************************************************************)
(* What the engine promises about the data of one file that a lower layer  *)
(* holds: there is one content, which only a write or a truncate changes.  *)
(* Copy-up, metacopy shells and fills do not show.  A handle that was      *)
(* opened on the lower file may go on reading the lower file until a call  *)
(* on it moves it to the content; no handle ever goes back, so whoever has *)
(* written through a handle reads the content from then on.                *)
(***************************************************************************)
CONSTANTS Threads, Blocks

VARIABLES
    content,    \* the data of the file, block by block
    sees,       \* of each thread's handle: "closed", "lower" or "content"
    got         \* what the last call of each thread returned

vars == <<content, sees, got>>

Origin == [b \in Blocks |-> "origin"]
Emptied == [b \in Blocks |-> "eof"]

Init ==
    /\ content = Origin
    /\ sees = [t \in Threads |-> "closed"]
    /\ got = [t \in Threads |-> "none"]

Answer(t, r) == got' = [got EXCEPT ![t] = r]
Turn(t, where) == sees' = [sees EXCEPT ![t] = where]

Start(t) ==
    /\ Answer(t, "none")
    /\ UNCHANGED <<content, sees>>

Open(t) ==
    /\ sees[t] = "closed"
    /\ Turn(t, "lower") \/ Turn(t, "content")
    /\ Answer(t, "ok")
    /\ UNCHANGED content

Close(t) ==
    /\ Turn(t, "closed")
    /\ Answer(t, "none")
    /\ UNCHANGED content

(* A call on a handle moves it to the content, also when it fails then. *)
MoveUp(t) ==
    /\ sees[t] = "lower"
    /\ Turn(t, "content")
    /\ UNCHANGED got \/ Answer(t, "fault")
    /\ UNCHANGED content

Read(t, b) ==
    /\ sees[t] # "closed"
    /\ Answer(t, IF sees[t] = "content" THEN content[b] ELSE "origin")
    /\ UNCHANGED <<content, sees>>

Write(t, b) ==
    /\ sees[t] = "content"
    /\ content' = [content EXCEPT ![b] = t]
    /\ Answer(t, "ok")
    /\ UNCHANGED sees

Truncate(t) ==
    /\ sees[t] = "content"
    /\ content' = Emptied
    /\ Answer(t, "ok")
    /\ UNCHANGED sees

(* Every other call, and a call that fails, leaves the data alone. *)
Other(t) ==
    /\ \E r \in {"ok", "fault", "lost"} : Answer(t, r)
    /\ UNCHANGED <<content, sees>>

Crash ==
    /\ sees' = [t \in Threads |-> "closed"]
    /\ got' = [t \in Threads |-> "none"]
    /\ UNCHANGED content

Next ==
    \/ \E t \in Threads :
        \/ Start(t) \/ Open(t) \/ Close(t) \/ MoveUp(t) \/ Truncate(t) \/ Other(t)
        \/ \E b \in Blocks : Read(t, b) \/ Write(t, b)
    \/ Crash

Spec == Init /\ [][Next]_vars
=============================================================================
