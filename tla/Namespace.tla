----------------------------- MODULE Namespace -----------------------------
(***************************************************************************)
(* What the overlay promises its callers, without layers: one tree of      *)
(* entries, the merged view, that each call changes in one step.  A call   *)
(* that fails, or during which the process stops, disturbs only the paths  *)
(* that it names; a create and a copy-up then have happened or have not.   *)
(***************************************************************************)
EXTENDS Layers

VARIABLES
    view,       \* the merged view
    request,    \* the call that runs: its operation and its arguments
    status      \* "idle", "busy", "ok" or "failed"

vars == <<view, request, status>>

NoRequest == [op |-> "none", path |-> Root, dest |-> Root, kind |-> "file"]

Request ==
    [op : {"create", "delete", "rename", "copyup", "whiteout", "opaque"},
     path : Path \ {Root}, dest : Path, kind : {"file", "dir"}]

Init ==
    /\ view \in [Path -> Entry]
    /\ request = NoRequest
    /\ status = "idle"

(* The view changes only in S.  The directories dirs may lose what they    *)
(* have besides their names.                                               *)
ChangesOnly(S, dirs) ==
    /\ view' \in [Path -> Entry]
    /\ \A p \in Path \ S :
          IF p \in dirs THEN view'[p].kind = view[p].kind ELSE view'[p] = view[p]

(* What a caller may ask for. *)
Allowed(r) ==
    CASE r.op = "create" -> ~Found(view[r.path])
      [] r.op = "delete" ->
            /\ Found(view[r.path])
            /\ \A p \in Below(r.path) : ~Found(view[p])
      [] r.op = "rename" ->
            /\ Found(view[r.path])
            /\ r.dest \notin Within(r.path)
            /\ Found(view[r.dest]) =>
                  /\ view[r.dest].kind = view[r.path].kind
                  /\ \A p \in Below(r.dest) : ~Found(view[p])
      [] OTHER -> TRUE

Ask ==
    /\ status = "idle"
    /\ status' = "busy"
    /\ request' \in Request
    /\ Allowed(request')
    /\ UNCHANGED view

(***************************************************************************)
(* What a call that succeeds does to the view.                             *)
(***************************************************************************)
Created(p, k) ==
    /\ IsDirectory(view[Parent(p)])
    /\ view' = [view EXCEPT ![p] = [kind |-> k, tag |-> Fresh]]

Deleted(p) ==
    /\ ChangesOnly({p}, Ancestors(p))
    /\ ~Found(view'[p])

Renamed(p, q) ==
    /\ ChangesOnly(Within(p) \cup Within(q), Ancestors(p))
    /\ \A r \in Within(p) : ~Found(view'[r])
    /\ \A r \in Within(q) :
          view'[r] = IF Graft(r, q, p) \in Path THEN view[Graft(r, q, p)] ELSE NoEntry

(* The marker calls write the upper directly: they hide what lowers have   *)
(* and make the directories above the marker.                              *)
Hidden(p) == \A r \in Below(p) : view'[r] \in {view[r], NoEntry}

Marked(p, made) ==
    /\ ChangesOnly(Within(p) \cup made, {})
    /\ Hidden(p)
    /\ \A a \in made : view'[a] = view[a] \/ IsDirectory(view'[a])

Effect(r) ==
    CASE r.op = "create"   -> Created(r.path, r.kind)
      [] r.op = "delete"   -> Deleted(r.path)
      [] r.op = "rename"   -> Renamed(r.path, r.dest)
      [] r.op = "copyup"   -> UNCHANGED view
      [] r.op = "whiteout" -> /\ Marked(r.path, Ancestors(r.path))
                              /\ view'[r.path] \in {view[r.path], NoEntry}
      [] r.op = "opaque"   -> Marked(r.path, Chain(r.path))

(* What it does when it fails, or when the process stops. *)
Disturbance(r) ==
    CASE r.op = "create" -> Created(r.path, r.kind) \/ UNCHANGED view
      [] r.op = "delete" -> ChangesOnly(Within(r.path), Ancestors(r.path))
      [] r.op = "rename" ->
            ChangesOnly(Within(r.path) \cup Within(r.dest), Ancestors(r.path))
      [] OTHER -> Effect(r) \/ UNCHANGED view

Succeed ==
    /\ status = "busy"
    /\ status' = "ok"
    /\ Effect(request)
    /\ UNCHANGED request

Fail ==
    /\ status = "busy"
    /\ status' = "failed"
    /\ Disturbance(request)
    /\ UNCHANGED request

Stop ==
    /\ status = "busy"
    /\ status' = "idle"
    /\ request' = NoRequest
    /\ Disturbance(request)

Return ==
    /\ status \in {"ok", "failed"}
    /\ status' = "idle"
    /\ request' = NoRequest
    /\ UNCHANGED view

Next == Ask \/ Succeed \/ Fail \/ Stop \/ Return

Spec == Init /\ [][Next]_vars
=============================================================================
