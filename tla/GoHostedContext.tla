-------------------------- MODULE GoHostedContext ---------------------------
(***************************************************************************)
(* bindings/go/provider_core.go and the base callbacks of bridge.c: a Go   *)
(* provider exposed as a VtResource.  Native clients share it by counted   *)
(* references (hostedContext.refs); every callback goes from the C context *)
(* (VtGoContext) through a cgo handle to the Go context, and provider code *)
(* runs behind callbackGate, which refuses instead of waiting.             *)
(*                                                                         *)
(* A client keeps the ABI's contract: it works through a reference it      *)
(* holds until the call returns, and releases each reference once.         *)
(* References are names, so refs can be compared with who holds what.      *)
(***************************************************************************)
EXTENDS Integers, FiniteSets

CONSTANTS
  Threads,                           \* native threads calling the resource
  Refs,                              \* names of references; bounds how many
  First,                             \* the reference newHostedContext returns
  MaxDepth                           \* bound on provider calls nested in one thread

ASSUME ThreadsAssumption == IsFiniteSet(Threads)
ASSUME RefsAssumption == IsFiniteSet(Refs) /\ First \in Refs
ASSUME DepthAssumption == MaxDepth \in Nat \ {0}

VARIABLES
  parallel,                          \* gate.parallel, fixed by the provider's flags
  refs,                              \* hostedContext.refs
  handle,                            \* the cgo handle resolves
  memory,                            \* VtGoContext and its tables are allocated
  gate,                              \* gate.mutex is locked
  held,                              \* references the clients hold
  pc, via, seen,                     \* per thread: step, reference used, Load
  depth                              \* per thread: provider calls on its stack

vars == <<parallel, refs, handle, memory, gate, held, pc, via, seen, depth>>
native == <<parallel, refs, handle, memory, held>>

At(place) == {t \in Threads : pc[t] = place}

Step(t, from, to) ==
  /\ pc[t] = from
  /\ pc' = [pc EXCEPT ![t] = to]

\* Threads inside a provider operation, and those running provider code.
Calling == At("enter") \cup At("provider") \cup At("nested")
InProvider == At("provider") \cup At("nested")

\* References some call in flight relies on.
Retaining == At("retainLoad") \cup At("retainSwap")
InUse == {via[t] : t \in Retaining \cup Calling}

TypeOK ==
  /\ parallel \in BOOLEAN
  /\ refs \in 0 .. Cardinality(Refs) + Cardinality(Threads)
  /\ handle \in BOOLEAN
  /\ memory \in BOOLEAN
  /\ gate \in BOOLEAN
  /\ held \subseteq Refs
  /\ pc \in [Threads -> {"idle", "retainLoad", "retainSwap", "release",
                         "delete", "free", "enter", "provider", "nested"}]
  /\ via \in [Threads -> Refs]
  /\ seen \in [Threads -> 0 .. Cardinality(Refs) + Cardinality(Threads)]
  /\ depth \in [Threads -> 0 .. MaxDepth]

\* newHostedContext succeeded: one reference, its handle and its C context.
Init ==
  /\ parallel \in BOOLEAN
  /\ refs = 1
  /\ handle = TRUE
  /\ memory = TRUE
  /\ gate = FALSE
  /\ held = {First}
  /\ pc = [t \in Threads |-> "idle"]
  /\ via = [t \in Threads |-> First]
  /\ seen = [t \in Threads |-> 0]
  /\ depth = [t \in Threads |-> 0]

\* The call is over and its locals are gone.
Done(t, from) ==
  /\ Step(t, from, "idle")
  /\ via' = [via EXCEPT ![t] = First]
  /\ seen' = [seen EXCEPT ![t] = 0]

Begin(t, r, place) ==
  /\ r \in held
  /\ Step(t, "idle", place)
  /\ via' = [via EXCEPT ![t] = r]
  /\ UNCHANGED <<parallel, refs, handle, memory, gate, seen, depth>>
-----------------------------------------------------------------------------
(* vt_go_retain: a CompareAndSwap loop on refs.  Bounded by the names left. *)

Retain(t, r) ==
  /\ Cardinality(Retaining) < Cardinality(Refs \ held)
  /\ Begin(t, r, "retainLoad")
  /\ UNCHANGED held

\* A count of zero panics, and goVtRetain swallows the panic: the retain is
\* silently lost.  (The limit math.MaxInt64 is out of reach of Refs.)
RetainLoad(t) ==
  /\ \/ /\ handle /\ refs > 0
        /\ Step(t, "retainLoad", "retainSwap")
        /\ seen' = [seen EXCEPT ![t] = refs]
        /\ UNCHANGED via
     \/ /\ ~handle \/ refs <= 0
        /\ Done(t, "retainLoad")
  /\ UNCHANGED <<native, gate, depth>>

\* Mistake: a store instead of a CompareAndSwap.
RetainSwap_StoresBlindly(t) ==
  /\ Done(t, "retainSwap")
  /\ refs' = seen[t] + 1
  /\ \E r \in Refs \ held : held' = held \cup {r}
  /\ UNCHANGED <<parallel, handle, memory, gate, depth>>

RetainSwap(t) ==
  /\ \/ /\ refs = seen[t]
        /\ Done(t, "retainSwap")
        /\ refs' = refs + 1
        /\ \E r \in Refs \ held : held' = held \cup {r}
     \/ /\ refs # seen[t]
        /\ Step(t, "retainSwap", "retainLoad")
        /\ UNCHANGED <<refs, held, via, seen>>
  /\ UNCHANGED <<parallel, handle, memory, gate, depth>>
-----------------------------------------------------------------------------
(* vt_go_release: the last reference deletes the handle, then frees.       *)

Release(t, r) ==
  /\ r \in held \ InUse
  /\ Step(t, "idle", "release")
  /\ held' = held \ {r}
  /\ UNCHANGED <<parallel, refs, handle, memory, gate, via, seen, depth>>

\* Mistakes: a reference too early, and one that forgets to look for zero.
ReleaseAdd_OneEarly(t) ==
  /\ refs' = refs - 1
  /\ Step(t, "release", IF refs' = 1 THEN "delete" ELSE "idle")
  /\ UNCHANGED <<parallel, handle, memory, held, gate, via, seen, depth>>

ReleaseAdd_NeverLast(t) ==
  /\ refs' = refs - 1
  /\ Step(t, "release", "idle")
  /\ UNCHANGED <<parallel, handle, memory, held, gate, via, seen, depth>>

\* Add(-1); below zero it panics, and goVtRelease turns that into "not the
\* last".  A handle that no longer resolves changes nothing.
ReleaseAdd(t) ==
  /\ refs' = IF handle THEN refs - 1 ELSE refs
  /\ Step(t, "release", IF handle /\ refs' = 0 THEN "delete" ELSE "idle")
  /\ UNCHANGED <<parallel, handle, memory, held, gate, via, seen, depth>>

DeleteHandle(t) ==
  /\ Step(t, "delete", "free")
  /\ handle' = FALSE
  /\ UNCHANGED <<parallel, refs, memory, held, gate, via, seen, depth>>

FreeContext(t) ==
  /\ Step(t, "free", "idle")
  /\ memory' = FALSE
  /\ UNCHANGED <<parallel, refs, handle, held, gate, via, seen, depth>>
-----------------------------------------------------------------------------
(* A provider operation: callbackContext, then callbackGate.invoke.        *)

Call(t, r) ==
  /\ Begin(t, r, "enter")
  /\ UNCHANGED held

\* Mistake: no gate at all.
Enter_Ungated(t) ==
  /\ Step(t, "enter", "provider")
  /\ gate' = ~parallel
  /\ depth' = [depth EXCEPT ![t] = 1]
  /\ UNCHANGED <<native, via, seen>>

\* TryLock: a busy gate answers PROVIDER_ERROR at once.
Enter(t) ==
  /\ \/ /\ handle /\ (parallel \/ ~gate)
        /\ Step(t, "enter", "provider")
        /\ gate' = ~parallel
        /\ depth' = [depth EXCEPT ![t] = 1]
        /\ UNCHANGED <<via, seen>>
     \/ /\ ~handle \/ (~parallel /\ gate)
        /\ Done(t, "enter")
        /\ UNCHANGED <<gate, depth>>
  /\ UNCHANGED native

\* Provider code calls the resource it serves, on the same thread.
NestedCall(t) ==
  /\ depth[t] < MaxDepth
  /\ Step(t, "provider", "nested")
  /\ UNCHANGED <<native, gate, via, seen, depth>>

\* Mistake: Lock instead of TryLock.
NestedEnter_Waits(t) ==
  /\ parallel \/ ~gate
  /\ Step(t, "nested", "provider")
  /\ depth' = [depth EXCEPT ![t] = @ + 1]
  /\ UNCHANGED <<native, gate, via, seen>>

\* Its own lock makes the TryLock fail: the nested call is answered
\* PROVIDER_ERROR and provider code goes on; a parallel gate lets it in.
NestedEnter(t) ==
  /\ Step(t, "nested", "provider")
  /\ depth' = [depth EXCEPT ![t] = IF parallel THEN @ + 1 ELSE @]
  /\ UNCHANGED <<native, gate, via, seen>>

\* The provider returns or panics; the deferred calls recover and unlock.
Leave(t) ==
  /\ \/ /\ depth[t] = 1
        /\ Done(t, "provider")
     \/ /\ depth[t] > 1
        /\ pc[t] = "provider"
        /\ UNCHANGED <<pc, via, seen>>
  /\ depth' = [depth EXCEPT ![t] = @ - 1]
  /\ gate' = FALSE
  /\ UNCHANGED native
-----------------------------------------------------------------------------
Advance(t) ==
  \/ RetainLoad(t)
  \/ RetainSwap(t)
  \/ ReleaseAdd(t)
  \/ DeleteHandle(t)
  \/ FreeContext(t)
  \/ Enter(t)
  \/ NestedEnter(t)

Next ==
  \E t \in Threads :
    \/ Advance(t)
    \/ NestedCall(t)
    \/ Leave(t)
    \/ \E r \in Refs : Retain(t, r) \/ Release(t, r) \/ Call(t, r)

(***************************************************************************)
(* Threads are scheduled; nothing is assumed of provider code, which may   *)
(* never return (Leave has no fairness).                                   *)
(***************************************************************************)
Fairness == \A t \in Threads : WF_vars(Advance(t))

Spec == Init /\ [][Next]_vars /\ Fairness
-----------------------------------------------------------------------------
(***************************************************************************)
(* refs is the number of references clients hold or are releasing: no      *)
(* retain or release is lost or counted twice, however they interleave.    *)
(***************************************************************************)
RefsCountHolders == refs = Cardinality(held) + Cardinality(At("release"))

(***************************************************************************)
(* Any thread that is about to read the C context, resolve its handle or   *)
(* run provider code finds them alive: vt_go_release destroys the context  *)
(* once, for the last reference, the handle before the memory that names   *)
(* it, and nobody else is inside by then (bridge.c:139).                   *)
(***************************************************************************)
AliveWhileUsed ==
  LET destroying == At("delete") \cup At("free")
      inside == At("release") \cup Retaining \cup Calling
  IN  /\ held # {} \/ inside # {} => memory /\ handle /\ destroying = {}
      /\ \A t, u \in destroying : t = u
      /\ destroying # {} => memory
      /\ ~memory => ~handle

(***************************************************************************)
(* Without the parallel flag provider code never runs on two threads, and  *)
(* never inside itself on one (callbackGate, provider_core.go:27).         *)
(***************************************************************************)
SerialProvider ==
  ~parallel =>
    /\ \A t, u \in InProvider : t = u
    /\ \A t \in Threads : depth[t] <= 1
    /\ gate <=> InProvider # {}

(***************************************************************************)
(* The gate answers every call, nested ones too, even when the provider    *)
(* code that has it never returns: nobody waits for anybody.               *)
(***************************************************************************)
GateAnswers ==
  \A t \in Threads : pc[t] \in {"enter", "nested"} ~> pc[t] \in {"provider", "idle"}

\* When the clients have released everything, the C context is freed.
LastReleaseFrees == held = {} ~> ~memory /\ ~handle
=============================================================================
