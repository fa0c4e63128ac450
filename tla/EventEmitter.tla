---------------------------- MODULE EventEmitter ----------------------------
(***************************************************************************)
(* abi/EventEmitter.h and its entry point LayerMountSetEventCallback: the  *)
(* slot of the host's event callback.  A section under the mutex is one    *)
(* step.  The host makes each registration with a user context of its own, *)
(* frees contexts when an uninstalling call returns, and does not call the *)
(* engine from inside the callback (public/LayerMount.h, THREAD-SAFETY).   *)
(***************************************************************************)
EXTENDS Integers, FiniteSets

CONSTANTS Threads, Registrations, None

ASSUME EmitterAssumption ==
    /\ IsFiniteSet(Threads)
    /\ None \notin Registrations

VARIABLES
    callback,   \* callback_ and userContext_
    inflight,   \* inflight_
    pc,         \* the place of each thread
    snapshot,   \* the registration that a thread's Emit calls
    draining,   \* the registrations that a thread's Clear must see the end of
    used,       \* the registrations made so far
    freed       \* the registrations whose context the host has freed

vars == <<callback, inflight, pc, snapshot, draining, used, freed>>

Init ==
    /\ callback = None
    /\ inflight = 0
    /\ pc = [t \in Threads |-> "idle"]
    /\ snapshot = [t \in Threads |-> None]
    /\ draining = [t \in Threads |-> {}]
    /\ used = {}
    /\ freed = {}

Goto(t, place) == pc' = [pc EXCEPT ![t] = place]

Set(t, r) ==
    /\ pc[t] = "idle"
    /\ r \notin used
    /\ callback' = r
    /\ used' = used \cup {r}
    /\ UNCHANGED <<inflight, pc, snapshot, draining, freed>>

(* Clear's section under the lock. *)
Clear(t) ==
    /\ pc[t] = "idle"
    /\ callback' = None
    /\ draining' = [draining EXCEPT ![t] = used]
    /\ Goto(t, "drain")
    /\ UNCHANGED <<inflight, snapshot, used, freed>>

(* One turn of the loop that waits. *)
Yield(t) ==
    /\ pc[t] = "drain"
    /\ inflight # 0
    /\ UNCHANGED vars

(* Faulty variant: Clear does not wait. *)
Drained_NoWait(t) ==
    /\ pc[t] = "drain"
    /\ freed' = freed \cup draining[t]
    /\ draining' = [draining EXCEPT ![t] = {}]
    /\ Goto(t, "idle")
    /\ UNCHANGED <<callback, inflight, snapshot, used>>

(* The loop ends; Clear returns and the host frees. *)
Drained(t) ==
    /\ pc[t] = "drain"
    /\ inflight = 0
    /\ freed' = freed \cup draining[t]
    /\ draining' = [draining EXCEPT ![t] = {}]
    /\ Goto(t, "idle")
    /\ UNCHANGED <<callback, inflight, snapshot, used>>

(* Emit's section under the shared lock.  Without a callback it returns. *)
Emit(t) ==
    /\ pc[t] = "idle"
    /\ callback # None
    /\ snapshot' = [snapshot EXCEPT ![t] = callback]
    /\ inflight' = inflight + 1
    /\ Goto(t, "pinned")
    /\ UNCHANGED <<callback, draining, used, freed>>

Invoke(t) ==
    /\ pc[t] = "pinned"
    /\ Goto(t, "calling")
    /\ UNCHANGED <<callback, inflight, snapshot, draining, used, freed>>

(* Faulty variant: a return between the call and the count. *)
Finish_Leaks(t) ==
    /\ pc[t] = "calling"
    /\ snapshot' = [snapshot EXCEPT ![t] = None]
    /\ Goto(t, "idle")
    /\ UNCHANGED <<callback, inflight, draining, used, freed>>

(* The callback returns. *)
Finish(t) ==
    /\ pc[t] = "calling"
    /\ inflight' = inflight - 1
    /\ snapshot' = [snapshot EXCEPT ![t] = None]
    /\ Goto(t, "idle")
    /\ UNCHANGED <<callback, draining, used, freed>>

Next ==
    \E t \in Threads :
        \/ \E r \in Registrations : Set(t, r)
        \/ Clear(t)
        \/ Yield(t)
        \/ Drained(t)
        \/ Emit(t)
        \/ Invoke(t)
        \/ Finish(t)

Spec == Init /\ [][Next]_vars

(* A running call goes on, a callback returns, and the loop reads again. *)
FairSpec ==
    Spec /\ \A t \in Threads : WF_vars(Drained(t)) /\ WF_vars(Invoke(t) \/ Finish(t))

(***************************************************************************)
(* Properties.                                                             *)
(***************************************************************************)

InFlight == {t \in Threads : pc[t] \in {"pinned", "calling"}}

(* Types of the variables; inflight_, a uint32_t, does not wrap below zero. *)
TypeOK ==
    /\ callback \in Registrations \cup {None}
    /\ inflight \in Nat
    /\ pc \in [Threads -> {"idle", "drain", "pinned", "calling"}]
    /\ snapshot \in [Threads -> Registrations \cup {None}]
    /\ draining \in [Threads -> SUBSET Registrations]
    /\ used \subseteq Registrations
    /\ freed \subseteq used

(* After an uninstalling call returns, no call to a registration made before *)
(* it runs or starts: the host may free the context (Clear's comment), also  *)
(* of registrations that were replaced, and also while others set and clear. *)
NoCallAfterClear == \A t \in InFlight : snapshot[t] \notin freed

(* Clear returns, unless someone installs a new callback while it drains.    *)
ClearReturns ==
    \A t \in Threads : pc[t] = "drain" ~> (pc[t] = "idle" \/ callback # None)
=============================================================================
