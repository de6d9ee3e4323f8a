---------------------------- MODULE JvmRegistry -----------------------------
(***************************************************************************)
(* bindings/jvm/.../ProviderRuntime.java and HostedResource.java: a JVM    *)
(* provider exposed as a VtResource.  The void* the native side carries is *)
(* a (generation, slot) pair that the lock-free Registry resolves to a     *)
(* ProviderContext; the context counts its references (retains) and, with  *)
(* the last one, leaves the Registry and closes the arena its tables are   *)
(* in.  A HostedResource owns one reference until it is closed, by its     *)
(* user or by the Cleaner.                                                 *)
(*                                                                         *)
(* A step is one atomic access to shared state.  A CompareAndSwap loop     *)
(* changes something only in the turn whose comparison succeeds, and that  *)
(* comparison repeats its Load: the loop is that one step.                 *)
(*                                                                         *)
(* Native clients work through a reference they hold, or inside the        *)
(* callback of withResourceSegment (some thread of theirs does: the one in *)
(* the callback or another).  Anybody may present a stale handle, one      *)
(* whose context has been released.                                        *)
(***************************************************************************)
EXTENDS Integers, FiniteSets, Sequences

CONSTANTS
  Threads,
  Contexts,                          \* provider contexts; bounds how many are made
  MaxSlots,                          \* Integer.MAX_VALUE in the code
  MaxGeneration,                     \* 0x7fff in the code
  MaxRetains,                        \* Long.MAX_VALUE in the code
  MaxClients,                        \* bound on the references clients hold
  NoContext                          \* null

ASSUME BoundsAssumption ==
  /\ MaxSlots \in Nat \ {0}
  /\ MaxGeneration \in Nat \ {0}
  /\ MaxRetains \in Nat /\ MaxRetains > 1
  /\ MaxClients \in Nat
ASSUME NullAssumption == NoContext \notin Contexts

Slots == 0 .. MaxSlots - 1
Handles == (0 .. MaxGeneration + 1) \X (1 .. MaxSlots)
Nothing == <<0, 0>>                  \* identifier == 0

gen(h) == h[1]
slotOf(h) == h[2] - 1

VARIABLES
  generations, occupants, free, nextIndex,     \* the Registry
  identifier, retains, arena, wrapper,         \* of each context
  clients,                                     \* references native clients hold
  pc, ctx, handle, op,                         \* of each thread
  stale                                        \* it came with a stale handle

registry == <<generations, occupants, free, nextIndex>>
contexts == <<identifier, retains, arena, wrapper, clients>>
locals == <<ctx, handle, op, stale>>
vars == <<registry, contexts, pc, locals>>

Ops == {"none", "retain", "release", "use"}

TypeOK ==
  /\ generations \in [Slots -> 0 .. MaxGeneration]
  /\ occupants \in [Slots -> Contexts \cup {NoContext}]
  /\ free \in Seq(Slots)
  /\ nextIndex \in 0 .. MaxSlots
  /\ identifier \in [Contexts -> Handles \cup {Nothing}]
  /\ retains \in [Contexts -> 0 .. MaxRetains]
  /\ arena \in [Contexts -> {"unborn", "open", "closed"}]
  /\ wrapper \in [Contexts -> {"none", "open", "closed"}]
  /\ clients \in [Contexts -> 0 .. MaxClients]
  /\ pc \in [Threads -> {"idle", "reserve", "stamp", "identify", "publish", "wrap",
                         "cancel", "abort", "javaRetain", "inside", "get", "nativeRetain",
                         "using", "release", "remove", "recycle", "closeArena"}]
  /\ ctx \in [Threads -> Contexts \cup {NoContext}]
  /\ handle \in [Threads -> Handles \cup {Nothing}]
  /\ op \in [Threads -> Ops]
  /\ stale \in [Threads -> BOOLEAN]

Init ==
  /\ generations = [s \in Slots |-> 0]
  /\ occupants = [s \in Slots |-> NoContext]
  /\ free = <<>>
  /\ nextIndex = 0
  /\ identifier = [c \in Contexts |-> Nothing]
  /\ retains = [c \in Contexts |-> 0]
  /\ arena = [c \in Contexts |-> "unborn"]
  /\ wrapper = [c \in Contexts |-> "none"]
  /\ clients = [c \in Contexts |-> 0]
  /\ pc = [t \in Threads |-> "idle"]
  /\ ctx = [t \in Threads |-> NoContext]
  /\ handle = [t \in Threads |-> Nothing]
  /\ op = [t \in Threads |-> "none"]
  /\ stale = [t \in Threads |-> FALSE]

Goto(t, from, to) ==
  /\ pc[t] = from
  /\ pc' = [pc EXCEPT ![t] = to]

\* The call of t is over and its locals are gone.
Done(t) ==
  /\ pc' = [pc EXCEPT ![t] = "idle"]
  /\ ctx' = [ctx EXCEPT ![t] = NoContext]
  /\ handle' = [handle EXCEPT ![t] = Nothing]
  /\ op' = [op EXCEPT ![t] = "none"]
  /\ stale' = [stale EXCEPT ![t] = FALSE]

At(place, c) == {t \in Threads : pc[t] = place /\ ctx[t] = c}

\* Native calls in flight that rely on a reference to c, or give one back.
Resolving(c, o) ==
  {t \in Threads : pc[t] = "get" /\ op[t] = o /\ ~stale[t] /\ handle[t] = identifier[c]}
Relying(c) ==
  Resolving(c, "retain") \cup Resolving(c, "use")
    \cup {t \in At("nativeRetain", c) \cup At("using", c) : ~stale[t]}
Releasing(c) ==
  Resolving(c, "release") \cup {t \in At("release", c) : ~stale[t]}

\* What those calls may rely on: references held and callbacks running.
Support(c) == clients[c] + Cardinality(At("inside", c))
Spare(c) == Support(c) > Cardinality(Relying(c))
-----------------------------------------------------------------------------
(* ProviderContext.activate and Registry.reserve, publish, cancel.         *)

Create(t, c) ==
  /\ arena[c] = "unborn"
  /\ Goto(t, "idle", "reserve")
  /\ ctx' = [ctx EXCEPT ![t] = c]
  /\ arena' = [arena EXCEPT ![c] = "open"]
  /\ retains' = [retains EXCEPT ![c] = 1]
  /\ UNCHANGED <<registry, identifier, wrapper, clients, handle, op, stale>>

\* A reclaimed index first, a new one otherwise; none left fails activate.
Reserve(t) ==
  /\ pc[t] = "reserve"
  /\ \/ /\ free # <<>>
        /\ handle' = [handle EXCEPT ![t] = <<0, Head(free) + 1>>]
        /\ free' = Tail(free)
        /\ Goto(t, "reserve", "stamp")
        /\ UNCHANGED nextIndex
     \/ /\ free = <<>> /\ nextIndex < MaxSlots
        /\ handle' = [handle EXCEPT ![t] = <<0, nextIndex + 1>>]
        /\ nextIndex' = nextIndex + 1
        /\ Goto(t, "reserve", "stamp")
        /\ UNCHANGED free
     \/ /\ free = <<>> /\ nextIndex = MaxSlots
        /\ Goto(t, "reserve", "abort")
        /\ UNCHANGED <<handle, free, nextIndex>>
  /\ UNCHANGED <<generations, occupants, contexts, ctx, op, stale>>

\* A slot out of generations is left behind for good.
Stamp(t) ==
  LET s == slotOf(handle[t])
      g == generations[s] + 1
  IN  /\ Goto(t, "stamp", IF g > MaxGeneration THEN "reserve" ELSE "identify")
      /\ generations' = [generations EXCEPT ![s] = g]
      /\ handle' = [handle EXCEPT ![t] = <<g, s + 1>>]
      /\ UNCHANGED <<occupants, free, nextIndex, contexts, ctx, op, stale>>

\* The descriptor is written and onActivated runs; either may throw.
Identify(t) ==
  /\ \/ /\ Goto(t, "identify", "publish")
        /\ identifier' = [identifier EXCEPT ![ctx[t]] = handle[t]]
     \/ /\ Goto(t, "identify", "cancel")
        /\ UNCHANGED identifier
  /\ UNCHANGED <<registry, retains, arena, wrapper, clients, locals>>

Publish(t) ==
  LET s == slotOf(handle[t])
  IN  /\ pc[t] = "publish"
      /\ \/ /\ occupants[s] = NoContext
            /\ occupants' = [occupants EXCEPT ![s] = ctx[t]]
            /\ Goto(t, "publish", "wrap")
         \/ /\ occupants[s] # NoContext
            /\ Goto(t, "publish", "cancel")
            /\ UNCHANGED occupants
      /\ UNCHANGED <<generations, free, nextIndex, contexts, locals>>

\* Mistake: an abandoned reservation is not recycled.
Cancel_Leaks(t) ==
  /\ Goto(t, "cancel", "abort")
  /\ UNCHANGED <<registry, contexts, locals>>

Cancel(t) ==
  LET s == slotOf(handle[t])
  IN  /\ Goto(t, "cancel", "abort")
      /\ free' = IF occupants[s] = NoContext /\ gen(handle[t]) < MaxGeneration
                 THEN Append(free, s) ELSE free
      /\ UNCHANGED <<generations, occupants, nextIndex, contexts, locals>>

\* activate rethrows: the context was never anybody's.
Abort(t) ==
  /\ pc[t] = "abort"
  /\ identifier' = [identifier EXCEPT ![ctx[t]] = Nothing]
  /\ arena' = [arena EXCEPT ![ctx[t]] = "closed"]
  /\ Done(t)
  /\ UNCHANGED <<registry, retains, wrapper, clients>>

\* The HostedResource takes the first reference, or fails and releases it.
Wrap(t) ==
  /\ \/ /\ pc[t] = "wrap"
        /\ wrapper' = [wrapper EXCEPT ![ctx[t]] = "open"]
        /\ Done(t)
     \/ /\ Goto(t, "wrap", "release")
        /\ UNCHANGED <<wrapper, locals>>
  /\ UNCHANGED <<registry, identifier, retains, arena, clients>>
-----------------------------------------------------------------------------
(* The counter, saturating at MaxRetains, and the end of a context.        *)

\* Mistakes: a released context comes back; the limit is forgotten.
Up_FromZero(c) == retains' = [retains EXCEPT ![c] = IF @ = MaxRetains THEN @ ELSE @ + 1]
Down_Unsticks(c) == retains' = [retains EXCEPT ![c] = IF @ = 0 THEN @ ELSE @ - 1]

\* ProviderContext.retain throws when the count is zero.
Up(c) ==
  /\ retains[c] # 0
  /\ retains' = [retains EXCEPT ![c] = IF @ = MaxRetains THEN @ ELSE @ + 1]

Down(c) ==
  retains' = [retains EXCEPT ![c] = IF @ \in {0, MaxRetains} THEN @ ELSE @ - 1]

\* ProviderContext.release
Release(t) ==
  LET c == ctx[t]
      last == retains[c] = 1
  IN  /\ pc[t] = "release"
      /\ Down(c)
      /\ \/ /\ last
            /\ Goto(t, "release", "remove")
            /\ UNCHANGED locals
         \/ /\ ~last
            /\ Done(t)
      /\ UNCHANGED <<registry, identifier, arena, wrapper, clients>>

\* Mistake: slots are recycled past the last generation.
Remove_IgnoresLimit(t) ==
  LET c == ctx[t]
      s == slotOf(identifier[c])
  IN  /\ Goto(t, "remove", IF occupants[s] = c THEN "recycle" ELSE "closeArena")
      /\ occupants' = [occupants EXCEPT ![s] = IF @ = c THEN NoContext ELSE @]
      /\ UNCHANGED <<generations, free, nextIndex, contexts, locals>>

\* Registry.remove: compareAndSet(context, null), then recycle.
Remove(t) ==
  LET c == ctx[t]
      h == identifier[c]
      here == occupants[slotOf(h)] = c
  IN  /\ Goto(t, "remove",
              IF here /\ gen(h) < MaxGeneration THEN "recycle" ELSE "closeArena")
      /\ occupants' = [occupants EXCEPT ![slotOf(h)] = IF here THEN NoContext ELSE @]
      /\ UNCHANGED <<generations, free, nextIndex, contexts, locals>>

\* offer may fail for want of memory: the slot is then retired.
Recycle(t) ==
  /\ Goto(t, "recycle", "closeArena")
  /\ free' = Append(free, slotOf(identifier[ctx[t]]))
  /\ UNCHANGED <<generations, occupants, nextIndex, contexts, locals>>

CloseArena(t) ==
  /\ pc[t] = "closeArena"
  /\ arena' = [arena EXCEPT ![ctx[t]] = "closed"]
  /\ Done(t)
  /\ UNCHANGED <<registry, identifier, retains, wrapper, clients>>
-----------------------------------------------------------------------------
(* HostedResource.withResourceSegment and close.                           *)

\* State.acquire has read the context of a wrapper not yet closed.
WithResourceSegment(t, c) ==
  /\ wrapper[c] = "open"
  /\ Goto(t, "idle", "javaRetain")
  /\ ctx' = [ctx EXCEPT ![t] = c]
  /\ UNCHANGED <<registry, contexts, handle, op, stale>>

\* Mistake: State.acquire relies on the reference it has read.
JavaRetain_Skipped(t) ==
  /\ Goto(t, "javaRetain", "inside")
  /\ UNCHANGED <<registry, contexts, locals>>

JavaRetain(t) ==
  /\ pc[t] = "javaRetain"
  /\ \/ /\ Up(ctx[t])
        /\ Goto(t, "javaRetain", "inside")
        /\ UNCHANGED locals
     \/ /\ retains[ctx[t]] = 0
        /\ Done(t)
        /\ UNCHANGED retains
  /\ UNCHANGED <<registry, identifier, arena, wrapper, clients>>

Leave(t) ==
  /\ pc[t] = "inside"
  /\ Spare(ctx[t])
  /\ Goto(t, "inside", "release")
  /\ UNCHANGED <<registry, contexts, locals>>

\* State.run: getAndSet(null), then release.
Close(t, c) ==
  /\ wrapper[c] = "open"
  /\ Goto(t, "idle", "release")
  /\ wrapper' = [wrapper EXCEPT ![c] = "closed"]
  /\ ctx' = [ctx EXCEPT ![t] = c]
  /\ UNCHANGED <<registry, identifier, retains, arena, clients, handle, op, stale>>
-----------------------------------------------------------------------------
(* Upcalls: retain, release, and every operation of a vtable.              *)

Native(t, c, o) ==
  /\ identifier[c] # Nothing
  /\ Goto(t, "idle", "get")
  /\ \/ /\ retains[c] # 0
        /\ Spare(c)
        /\ o = "release" => clients[c] > 0
        /\ stale' = stale
        /\ clients' = [clients EXCEPT ![c] = IF o = "release" THEN @ - 1 ELSE @]
     \/ /\ retains[c] = 0
        /\ stale' = [stale EXCEPT ![t] = TRUE]
        /\ UNCHANGED clients
  /\ handle' = [handle EXCEPT ![t] = identifier[c]]
  /\ op' = [op EXCEPT ![t] = o]
  /\ UNCHANGED <<registry, identifier, retains, arena, wrapper, ctx>>

\* Mistake: whoever is in the slot is taken for the handle's context.
Resolve_AnyOccupant(h) == occupants[slotOf(h)]

\* Registry.get
Resolve(h) ==
  LET c == occupants[slotOf(h)]
  IN  IF c # NoContext /\ identifier[c] = h THEN c ELSE NoContext

Get(t) ==
  /\ pc[t] = "get"
  /\ LET c == Resolve(handle[t])
     IN  IF c = NoContext
         THEN Done(t)
         ELSE /\ ctx' = [ctx EXCEPT ![t] = c]
              /\ Goto(t, "get", CASE op[t] = "retain" -> "nativeRetain"
                                  [] op[t] = "release" -> "release"
                                  [] op[t] = "use" -> "using")
              /\ UNCHANGED <<handle, op, stale>>
  /\ UNCHANGED <<registry, contexts>>

\* ProviderContext.retain; its exception is recorded, the retain is lost.
NativeRetain(t) ==
  LET c == ctx[t]
  IN  /\ pc[t] = "nativeRetain"
      /\ \/ /\ Up(c)
            /\ clients[c] < MaxClients
            /\ clients' = [clients EXCEPT ![c] = @ + 1]
         \/ /\ retains[c] = 0
            /\ UNCHANGED <<retains, clients>>
      /\ Done(t)
      /\ UNCHANGED <<registry, identifier, arena, wrapper>>

UseReturns(t) ==
  /\ pc[t] = "using"
  /\ Done(t)
  /\ UNCHANGED <<registry, contexts>>
-----------------------------------------------------------------------------
Advance(t) ==
  \/ Reserve(t) \/ Stamp(t) \/ Identify(t) \/ Publish(t) \/ Wrap(t)
  \/ Cancel(t) \/ Abort(t)
  \/ JavaRetain(t) \/ Get(t) \/ NativeRetain(t) \/ UseReturns(t)
  \/ Release(t) \/ Remove(t) \/ Recycle(t) \/ CloseArena(t)

Next ==
  \E t \in Threads :
    \/ Advance(t)
    \/ Leave(t)
    \/ \E c \in Contexts :
         \/ Create(t, c)
         \/ WithResourceSegment(t, c)
         \/ Close(t, c)
         \/ \E o \in Ops \ {"none"} : Native(t, c, o)

Spec == Init /\ [][Next]_vars
-----------------------------------------------------------------------------
Born(c) == arena[c] # "unborn"
Building(c) ==
  UNION {At(place, c) : place \in {"reserve", "stamp", "identify", "publish", "wrap"}}

(***************************************************************************)
(* Until it saturates, retains is the number of references the wrapper,    *)
(* the clients, running callbacks and releases in flight have: no retain   *)
(* or release is lost, however they race with close.                       *)
(***************************************************************************)
RetainsCountHolders ==
  \A c \in Contexts :
    wrapper[c] # "none" /\ retains[c] # MaxRetains =>
      retains[c] = Support(c) + Cardinality(Releasing(c))
                     + (IF wrapper[c] = "open" THEN 1 ELSE 0)

(***************************************************************************)
(* A context somebody may rely on is in the Registry and its tables are    *)
(* allocated, also after the counter saturated.                            *)
(***************************************************************************)
AliveWhileHeld ==
  \A c \in Contexts :
    Support(c) > 0 \/ wrapper[c] = "open" \/ Relying(c) # {} =>
      arena[c] = "open" /\ Resolve(identifier[c]) = c

(***************************************************************************)
(* A handle, stale or not, reaches the context it was made for or none:    *)
(* reuse of its slot never gives it a new meaning.                         *)
(***************************************************************************)
HandleNamesOne ==
  /\ \A t \in Threads : handle[t] # Nothing /\ ctx[t] # NoContext
                          /\ pc[t] \in {"nativeRetain", "using", "release", "remove"} =>
       identifier[ctx[t]] = handle[t]
  /\ \A c, d \in Contexts : identifier[c] = identifier[d] => c = d \/ identifier[c] = Nothing

(***************************************************************************)
(* Every index handed out is in exactly one place: free, reserved by one   *)
(* activate, occupied, on its way back, or out of generations for good.    *)
(* So publish finds its slot empty and no index is leaked or shared.       *)
(***************************************************************************)
SlotsAccounted ==
  \A s \in 0 .. nextIndex - 1 :
    LET places ==
          Cardinality({i \in DOMAIN free : free[i] = s})
          + Cardinality({t \in Threads : slotOf(handle[t]) = s
                            /\ pc[t] \in {"stamp", "identify", "publish", "cancel"}})
          + (IF occupants[s] # NoContext THEN 1 ELSE 0)
          + Cardinality({t \in Threads : pc[t] = "recycle"
                            /\ slotOf(identifier[ctx[t]]) = s})
    IN  IF generations[s] < MaxGeneration THEN places = 1 ELSE places <= 1

(***************************************************************************)
(* Whoever takes the count to zero, and nobody else, gives the slot up and *)
(* closes the arena, once; a context nobody is destroying is either whole  *)
(* or gone, whatever races with the last release or with a failed          *)
(* activation (ProviderContext.release).                                   *)
(***************************************************************************)
FreedByOne ==
  \A c \in Contexts :
    LET destroying == UNION {At(place, c) : place \in {"remove", "recycle", "closeArena"}}
    IN  /\ Cardinality(destroying) <= 1
        /\ destroying # {} => retains[c] = 0 /\ arena[c] = "open"
        /\ Born(c) /\ retains[c] = 0 =>
             \/ destroying # {}
             \/ arena[c] = "closed" /\ c \notin {occupants[s] : s \in Slots}
=============================================================================
