-------------------------- MODULE GoResourceOwner ---------------------------
(***************************************************************************)
(* bindings/go/resource.go: resourceOwner, the lock-free owner of one      *)
(* retain of a native VtResource.  One 64-bit word holds the number of     *)
(* active lexical borrows and, in its top bit, whether Close was called.   *)
(* The call that brings the word to "closed, no borrow" releases the       *)
(* native resource.  sharedLease of semiring.go is the same algorithm.     *)
(*                                                                         *)
(* A step is one atomic operation on the word: a Load, a CompareAndSwap or *)
(* an Add.  A call is one activation of WithResource or of Close (by a     *)
(* goroutine, from inside another callback, or by the finalizer); when it  *)
(* is over, the same name stands for the next activation.                  *)
(***************************************************************************)
EXTENDS Naturals, FiniteSets

CONSTANTS
  Calls,                             \* activations in flight at one time
  ClosedBit                          \* resourceClosedBit, 2^63 in the code

ASSUME CallsAssumption == IsFiniteSet(Calls)
ASSUME ClosedBitAssumption == ClosedBit \in Nat /\ ClosedBit > 1

VARIABLES
  state,                             \* resourceOwner.state
  seen,                              \* the value each call's Load returned
  pc,                                \* where each call stands
  releaseOnce                        \* releaseOnce fired: abiReleaseResource ran

vars == <<state, seen, pc, releaseOnce>>

Word == 0 .. 2 * ClosedBit - 1

IsClosed(w) == w >= ClosedBit
IsFull(w) == w = ClosedBit - 1

\* state | resourceClosedBit
SetClosed(w) == IF IsClosed(w) THEN w ELSE w + ClosedBit

\* Add(^uint64(0)): subtract one, modulo the width of the word.
Decrement(w) == IF w = 0 THEN 2 * ClosedBit - 1 ELSE w - 1

Step(c, from, to) ==
  /\ pc[c] = from
  /\ pc' = [pc EXCEPT ![c] = to]

At(place) == {c \in Calls : pc[c] = place}

TypeOK ==
  /\ state \in Word
  /\ seen \in [Calls -> Word]
  /\ pc \in [Calls -> {"idle", "acquireLoad", "acquireSwap", "borrowing",
                       "closeLoad", "closeSwap", "finishing"}]
  /\ releaseOnce \in BOOLEAN

Init ==
  /\ state = 0
  /\ seen = [c \in Calls |-> 0]
  /\ pc = [c \in Calls |-> "idle"]
  /\ releaseOnce = FALSE
-----------------------------------------------------------------------------
(* WithResource: acquire, run the callback, releaseBorrow (deferred).      *)

WithResource(c) ==
  /\ Step(c, "idle", "acquireLoad")
  /\ UNCHANGED <<state, seen, releaseOnce>>

\* Mistakes this code could have made: forgetting both guards of the Load, or
\* the close bit; storing without comparing.
AcquireLoad_Unguarded(c) ==
  /\ Step(c, "acquireLoad", "acquireSwap")
  /\ seen' = [seen EXCEPT ![c] = state]
  /\ UNCHANGED <<state, releaseOnce>>

AcquireLoad_IgnoresClose(c) ==
  /\ Step(c, "acquireLoad",
          IF state % ClosedBit = ClosedBit - 1 THEN "idle" ELSE "acquireSwap")
  /\ seen' = [seen EXCEPT ![c] = state]
  /\ UNCHANGED <<state, releaseOnce>>

AcquireSwap_StoresBlindly(c) ==
  /\ Step(c, "acquireSwap", "borrowing")
  /\ state' = seen[c] + 1
  /\ UNCHANGED <<seen, releaseOnce>>

\* Load: refused when the owner is closed or the count is full.
AcquireLoad(c) ==
  /\ Step(c, "acquireLoad",
          IF IsClosed(state) \/ IsFull(state) THEN "idle" ELSE "acquireSwap")
  /\ seen' = [seen EXCEPT ![c] = state]
  /\ UNCHANGED <<state, releaseOnce>>

\* CompareAndSwap(state, state + 1), or another turn of the loop.
AcquireSwap(c) ==
  /\ \/ /\ state = seen[c]
        /\ Step(c, "acquireSwap", "borrowing")
        /\ state' = state + 1
     \/ /\ state # seen[c]
        /\ Step(c, "acquireSwap", "acquireLoad")
        /\ UNCHANGED state
  /\ UNCHANGED <<seen, releaseOnce>>

\* Mistake: testing the close bit alone.
ReleaseBorrow_ForgetsOthers(c) ==
  /\ state' = Decrement(state)
  /\ Step(c, "borrowing", IF IsClosed(state') THEN "finishing" ELSE "idle")
  /\ UNCHANGED <<seen, releaseOnce>>

\* The callback returned or panicked: releaseBorrow gives the loan back, and
\* the last loan of a closed owner goes on to releaseNative.
ReleaseBorrow(c) ==
  /\ state' = Decrement(state)
  /\ Step(c, "borrowing", IF state' = ClosedBit THEN "finishing" ELSE "idle")
  /\ UNCHANGED <<seen, releaseOnce>>
-----------------------------------------------------------------------------
(* Close, by the owner's user or by the finalizer.                         *)

Close(c) ==
  /\ Step(c, "idle", "closeLoad")
  /\ UNCHANGED <<state, seen, releaseOnce>>

CloseLoad(c) ==
  /\ Step(c, "closeLoad", IF IsClosed(state) THEN "idle" ELSE "closeSwap")
  /\ seen' = [seen EXCEPT ![c] = state]
  /\ UNCHANGED <<state, releaseOnce>>

\* Mistakes: releasing under the feet of the borrowers, or leaving the release
\* to a borrow even when there is none.
CloseSwap_IgnoresBorrows(c) ==
  /\ state = seen[c]
  /\ Step(c, "closeSwap", "finishing")
  /\ state' = SetClosed(state)
  /\ UNCHANGED <<seen, releaseOnce>>

CloseSwap_LeavesRelease(c) ==
  /\ state = seen[c]
  /\ Step(c, "closeSwap", "idle")
  /\ state' = SetClosed(state)
  /\ UNCHANGED <<seen, releaseOnce>>

CloseSwap(c) ==
  /\ \/ /\ state = seen[c]
        /\ Step(c, "closeSwap", IF seen[c] = 0 THEN "finishing" ELSE "idle")
        /\ state' = SetClosed(state)
     \/ /\ state # seen[c]
        /\ Step(c, "closeSwap", "closeLoad")
        /\ UNCHANGED state
  /\ UNCHANGED <<seen, releaseOnce>>

\* releaseNative: releaseOnce.Do calls abiReleaseResource.
ReleaseNative(c) ==
  /\ Step(c, "finishing", "idle")
  /\ releaseOnce' = TRUE
  /\ UNCHANGED <<state, seen>>
-----------------------------------------------------------------------------
Advance(c) ==
  \/ AcquireLoad(c)
  \/ AcquireSwap(c)
  \/ ReleaseBorrow(c)
  \/ CloseLoad(c)
  \/ CloseSwap(c)
  \/ ReleaseNative(c)

Next == \E c \in Calls : WithResource(c) \/ Close(c) \/ Advance(c)

\* Goroutines are scheduled and callbacks return; nobody is obliged to call.
Fairness == \A c \in Calls : WF_vars(Advance(c))

Spec == Init /\ [][Next]_vars /\ Fairness
-----------------------------------------------------------------------------
Borrowers == At("borrowing")
Loans == Cardinality(Borrowers)

(***************************************************************************)
(* The word counts the active borrows exactly, with the close bit on top:  *)
(* interleaved acquires, returns and closes lose no update, and the count  *)
(* never carries into the close bit (resource.go, "combines a close bit    *)
(* with an active-borrow count").                                          *)
(***************************************************************************)
WordCountsLoans ==
  /\ Loans < ClosedBit
  /\ state = Loans \/ state = Loans + ClosedBit

(***************************************************************************)
(* Whoever runs a WithResource callback is using a resource nobody has     *)
(* released or is about to release (resource.go, "the last in-flight       *)
(* lexical borrow performs the one native release").                       *)
(***************************************************************************)
NoUseAfterRelease ==
  Borrowers # {} => ~releaseOnce /\ At("finishing") = {}

\* The protocol alone elects one releaser: at most one call reaches
\* releaseNative, so releaseOnce never has a second caller to stop.
OneReleaser ==
  /\ \A c, d \in At("finishing") : c = d
  /\ releaseOnce => At("finishing") = {}

\* A closed owner with no loan has been released or has its releaser: the
\* release is never lost between the Close and the last return.
ReleaseNotLost ==
  state = ClosedBit <=> releaseOnce \/ At("finishing") # {}

(***************************************************************************)
(* However Close and the last returns interleave, one call and only one is *)
(* elected to release, exactly when the word is closed without borrows     *)
(* (releaseBorrow and close each decide from the word they produced).      *)
(***************************************************************************)
ReleasedOnce == OneReleaser /\ ReleaseNotLost

(***************************************************************************)
(* Once Close has marked the word, no call enters a callback any more,     *)
(* and the mark is never taken back.                                       *)
(***************************************************************************)
ClosedIsFinal ==
  [][IsClosed(state) => IsClosed(state') /\ Borrowers' \subseteq Borrowers]_vars

(***************************************************************************)
(* The owner implements the abstract lease: the word's close bit and       *)
(* releaseOnce are the phase, the calls in their callback the holders.     *)
(* With the lease's fairness, a closed owner is released once the running  *)
(* callbacks have returned.                                                *)
(***************************************************************************)
Lease == INSTANCE LeasedResource WITH
           phase <- IF releaseOnce THEN "released"
                    ELSE IF IsClosed(state) THEN "closed" ELSE "open",
           holders <- Borrowers

ImplementsLease == Lease!Spec
=============================================================================
