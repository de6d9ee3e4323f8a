------------------------ MODULE GoResourceOwnerProofs ------------------------
(***************************************************************************)
(* For any finite set of concurrent calls and any width of the word: the   *)
(* owner's word counts its borrows, nobody uses the resource after its     *)
(* release, the release happens once, and the owner implements the         *)
(* abstract lease of LeasedResource.                                       *)
(***************************************************************************)
EXTENDS GoResourceOwner, FiniteSetTheorems, TLAPS

USE CallsAssumption, ClosedBitAssumption

(***************************************************************************)
(* What a Load remembers is still a word its CompareAndSwap may build on:  *)
(* an open, unsaturated count for acquire, an open word for close.         *)
(***************************************************************************)
SeenIsOpen ==
  \A c \in Calls :
    /\ pc[c] = "acquireSwap" => seen[c] < ClosedBit - 1
    /\ pc[c] = "closeSwap" => seen[c] < ClosedBit

IInv ==
  /\ TypeOK
  /\ SeenIsOpen
  /\ WordCountsLoans
  /\ OneReleaser
  /\ ReleaseNotLost

-----------------------------------------------------------------------------
\* The set of calls at a place is finite, so its size is a number.
LEMMA LoansIsNat ==
  /\ IsFiniteSet(Borrowers)
  /\ Loans \in Nat
  /\ Loans = 0 <=> Borrowers = {}
<1>1. Borrowers \subseteq Calls
  BY DEF Borrowers, At
<1>2. IsFiniteSet(Borrowers)
  BY <1>1, FS_Subset
<1> QED
  BY <1>2, FS_CardinalityType, FS_EmptySet DEF Loans

\* A call that enters its callback adds one loan.
LEMMA LoanGained ==
  ASSUME NEW c \in Calls, TypeOK, pc[c] # "borrowing",
         pc' = [pc EXCEPT ![c] = "borrowing"]
  PROVE  Loans' = Loans + 1 /\ Borrowers' = Borrowers \cup {c}
<1>1. Borrowers' = Borrowers \cup {c} /\ c \notin Borrowers
  BY DEF Borrowers, At, TypeOK
<1> QED
  BY <1>1, LoansIsNat, FS_AddElement DEF Loans

\* A call that leaves its callback takes one loan back.
LEMMA LoanReturned ==
  ASSUME NEW c \in Calls, NEW place, TypeOK, pc[c] = "borrowing",
         place # "borrowing", pc' = [pc EXCEPT ![c] = place]
  PROVE  Loans' = Loans - 1 /\ Borrowers' = Borrowers \ {c}
<1>1. Borrowers' = Borrowers \ {c} /\ c \in Borrowers
  BY DEF Borrowers, At, TypeOK
<1> QED
  BY <1>1, LoansIsNat, FS_RemoveElement DEF Loans

\* Any other move leaves the loans alone.
LEMMA LoansKept ==
  ASSUME NEW c \in Calls, NEW place, TypeOK, pc[c] # "borrowing",
         place # "borrowing", pc' = [pc EXCEPT ![c] = place]
  PROVE  Loans' = Loans /\ Borrowers' = Borrowers
<1>1. Borrowers' = Borrowers
  BY DEF Borrowers, At, TypeOK
<1> QED
  BY <1>1 DEF Loans

-----------------------------------------------------------------------------
LEMMA InitIInv == Init => IInv
<1> SUFFICES ASSUME Init PROVE IInv
  OBVIOUS
<1>1. TypeOK /\ SeenIsOpen
  <2>1. 0 \in Word
    BY DEF Word
  <2> QED
    BY <2>1 DEF Init, TypeOK, SeenIsOpen
<1>2. Borrowers = {} /\ At("finishing") = {}
  BY DEF Init, Borrowers, At
<1>3. Loans = 0
  BY <1>2, LoansIsNat
<1> QED
  BY <1>1, <1>2, <1>3 DEF Init, IInv, WordCountsLoans, OneReleaser, ReleaseNotLost

\* Types, and what the Loads remember, on their own: neither needs the count.
LEMMA TypeStep ==
  ASSUME TypeOK, SeenIsOpen, WordCountsLoans, [Next]_vars
  PROVE  TypeOK' /\ SeenIsOpen'
<1> USE DEF TypeOK, SeenIsOpen, Word, Step
<1>1. ASSUME NEW c \in Calls, WithResource(c) \/ Close(c) \/ ReleaseNative(c)
      PROVE  TypeOK' /\ SeenIsOpen'
  BY <1>1 DEF WithResource, Close, ReleaseNative
<1>2. ASSUME NEW c \in Calls, AcquireLoad(c) \/ CloseLoad(c)
      PROVE  TypeOK' /\ SeenIsOpen'
  BY <1>2 DEF AcquireLoad, CloseLoad, IsClosed, IsFull
<1>3. ASSUME NEW c \in Calls, AcquireSwap(c)
      PROVE  TypeOK' /\ SeenIsOpen'
  BY <1>3 DEF AcquireSwap
<1>4. ASSUME NEW c \in Calls, ReleaseBorrow(c)
      PROVE  TypeOK' /\ SeenIsOpen'
  <2>1. state' \in Word
    BY <1>4 DEF ReleaseBorrow, Decrement
  <2> QED
    BY <1>4, <2>1 DEF ReleaseBorrow
<1>5. ASSUME NEW c \in Calls, CloseSwap(c)
      PROVE  TypeOK' /\ SeenIsOpen'
  BY <1>5 DEF CloseSwap, SetClosed, IsClosed
<1>6. CASE UNCHANGED vars
  BY <1>6 DEF vars
<1> QED
  BY <1>1, <1>2, <1>3, <1>4, <1>5, <1>6 DEF Next, Advance

-----------------------------------------------------------------------------
(***************************************************************************)
(* The count and the releaser, one step per action.  A step that neither   *)
(* enters nor leaves a callback keeps Loans; one that neither reaches nor  *)
(* leaves releaseNative keeps the set of releasers.                        *)
(***************************************************************************)
ReleaserInv == WordCountsLoans /\ OneReleaser /\ ReleaseNotLost

LEMMA QuietStep ==
  ASSUME NEW c \in Calls, NEW place, IInv,
         pc[c] \notin {"borrowing", "finishing"},
         place \notin {"borrowing", "finishing"},
         pc' = [pc EXCEPT ![c] = place], UNCHANGED <<state, releaseOnce>>
  PROVE  ReleaserInv'
<1>1. Loans' = Loans
  BY LoansKept DEF IInv
<1>2. At("finishing")' = At("finishing")
  BY DEF At, IInv, TypeOK
<1> QED
  BY <1>1, <1>2 DEF IInv, ReleaserInv, WordCountsLoans, OneReleaser, ReleaseNotLost

LEMMA AcquireSwapStep ==
  ASSUME NEW c \in Calls, IInv, AcquireSwap(c)
  PROVE  ReleaserInv'
<1>1. CASE state # seen[c]
  BY <1>1, QuietStep DEF AcquireSwap, Step
<1>2. CASE state = seen[c]
  <2>1. /\ pc[c] = "acquireSwap"
        /\ pc' = [pc EXCEPT ![c] = "borrowing"]
        /\ state' = state + 1
        /\ releaseOnce' = releaseOnce
    BY <1>2 DEF AcquireSwap, Step
  <2>2. Loans' = Loans + 1
    BY <2>1, LoanGained DEF IInv
  <2>3. At("finishing")' = At("finishing")
    BY <2>1 DEF At, IInv, TypeOK
  <2>4. state < ClosedBit - 1 /\ state \in Nat
    BY <1>2, <2>1 DEF IInv, TypeOK, Word, SeenIsOpen
  <2>5. state = Loans
    BY <2>4, LoansIsNat DEF IInv, WordCountsLoans
  <2> QED
    BY <2>1, <2>2, <2>3, <2>4, <2>5, LoansIsNat
       DEF IInv, ReleaserInv, WordCountsLoans, OneReleaser, ReleaseNotLost
<1> QED
  BY <1>1, <1>2

LEMMA ReleaseBorrowStep ==
  ASSUME NEW c \in Calls, IInv, ReleaseBorrow(c)
  PROVE  ReleaserInv'
<1>1. PICK place \in {"finishing", "idle"} :
        /\ place = (IF state' = ClosedBit THEN "finishing" ELSE "idle")
        /\ pc' = [pc EXCEPT ![c] = place]
  BY DEF ReleaseBorrow, Step
<1>2. pc[c] = "borrowing" /\ releaseOnce' = releaseOnce
  BY DEF ReleaseBorrow, Step
<1>3. Loans' = Loans - 1
  BY <1>1, <1>2, LoanReturned DEF IInv
<1>4. Loans > 0
  <2>1. c \in Borrowers
    BY <1>2 DEF Borrowers, At
  <2> QED
    BY <2>1, LoansIsNat
<1>5. state' = state - 1
  BY <1>4, LoansIsNat DEF ReleaseBorrow, Decrement, IInv, WordCountsLoans
<1>6. WordCountsLoans'
  BY <1>3, <1>4, <1>5, LoansIsNat DEF IInv, WordCountsLoans
<1>7. At("finishing") = {} /\ ~releaseOnce
  BY <1>4, LoansIsNat DEF IInv, WordCountsLoans, ReleaseNotLost
<1>8. At("finishing")' = IF state' = ClosedBit THEN {c} ELSE {}
  BY <1>1, <1>2, <1>7 DEF At, IInv, TypeOK
<1> QED
  BY <1>2, <1>6, <1>7, <1>8 DEF ReleaserInv, OneReleaser, ReleaseNotLost

LEMMA CloseSwapStep ==
  ASSUME NEW c \in Calls, IInv, CloseSwap(c)
  PROVE  ReleaserInv'
<1>1. CASE state # seen[c]
  BY <1>1, QuietStep DEF CloseSwap, Step
<1>2. CASE state = seen[c]
  <2>1. PICK place \in {"finishing", "idle"} :
          /\ place = (IF state = 0 THEN "finishing" ELSE "idle")
          /\ pc' = [pc EXCEPT ![c] = place]
    BY <1>2 DEF CloseSwap, Step
  <2>2. pc[c] = "closeSwap" /\ releaseOnce' = releaseOnce
    BY <1>2 DEF CloseSwap, Step
  <2>3. Loans' = Loans
    BY <2>1, <2>2, LoansKept DEF IInv
  <2>4. state < ClosedBit /\ state \in Nat
    BY <1>2, <2>2 DEF IInv, TypeOK, Word, SeenIsOpen
  <2>5. state = Loans
    BY <2>4, LoansIsNat DEF IInv, WordCountsLoans
  <2>6. state' = Loans + ClosedBit
    BY <1>2, <2>4, <2>5 DEF CloseSwap, SetClosed, IsClosed
  <2>7. WordCountsLoans'
    BY <2>3, <2>4, <2>5, <2>6 DEF WordCountsLoans
  <2>8. At("finishing") = {} /\ ~releaseOnce
    BY <2>4 DEF IInv, ReleaseNotLost
  <2>9. At("finishing")' = IF state = 0 THEN {c} ELSE {}
    BY <2>1, <2>2, <2>8 DEF At, IInv, TypeOK
  <2>10. state' = ClosedBit <=> state = 0
    BY <2>4, <2>5, <2>6, LoansIsNat
  <2> QED
    BY <2>2, <2>7, <2>8, <2>9, <2>10 DEF ReleaserInv, OneReleaser, ReleaseNotLost
<1> QED
  BY <1>1, <1>2

LEMMA ReleaseNativeStep ==
  ASSUME NEW c \in Calls, IInv, ReleaseNative(c)
  PROVE  ReleaserInv'
<1>1. /\ pc[c] = "finishing"
      /\ pc' = [pc EXCEPT ![c] = "idle"]
      /\ releaseOnce' = TRUE
      /\ state' = state
  BY DEF ReleaseNative, Step
<1>2. Loans' = Loans
  BY <1>1, LoansKept DEF IInv
<1>3. c \in At("finishing")
  BY <1>1 DEF At
<1>4. At("finishing") = {c} /\ state = ClosedBit
  BY <1>3 DEF IInv, OneReleaser, ReleaseNotLost
<1>5. At("finishing")' = {}
  BY <1>1, <1>4 DEF At, IInv, TypeOK
<1> QED
  BY <1>1, <1>2, <1>4, <1>5
     DEF IInv, ReleaserInv, WordCountsLoans, OneReleaser, ReleaseNotLost

LEMMA NextIInv == IInv /\ [Next]_vars => IInv'
<1> SUFFICES ASSUME IInv, [Next]_vars PROVE IInv'
  OBVIOUS
<1>1. TypeOK' /\ SeenIsOpen'
  BY TypeStep DEF IInv
<1>2. ReleaserInv'
  <2>1. ASSUME NEW c \in Calls, WithResource(c)
        PROVE  ReleaserInv'
    BY <2>1, QuietStep DEF WithResource, Step
  <2>2. ASSUME NEW c \in Calls, Close(c)
        PROVE  ReleaserInv'
    BY <2>2, QuietStep DEF Close, Step
  <2>3. ASSUME NEW c \in Calls, AcquireLoad(c)
        PROVE  ReleaserInv'
    BY <2>3, QuietStep DEF AcquireLoad, Step
  <2>4. ASSUME NEW c \in Calls, CloseLoad(c)
        PROVE  ReleaserInv'
    BY <2>4, QuietStep DEF CloseLoad, Step
  <2>5. CASE UNCHANGED vars
    BY <2>5 DEF vars, IInv, ReleaserInv, WordCountsLoans, OneReleaser,
                ReleaseNotLost, Loans, Borrowers, At
  <2> QED
    BY <2>1, <2>2, <2>3, <2>4, <2>5, AcquireSwapStep, ReleaseBorrowStep,
       CloseSwapStep, ReleaseNativeStep DEF Next, Advance
<1> QED
  BY <1>1, <1>2 DEF IInv, ReleaserInv

(***************************************************************************)
(* The inductive invariant holds in every reachable state, and with it     *)
(* each invariant the run GoResourceOwner checks.                          *)
(***************************************************************************)
THEOREM InductiveInvariant == Spec => []IInv
<1> QED
  BY InitIInv, NextIInv, PTL DEF Spec

(* Type correctness, for any set of calls and any width of the word.       *)
THEOREM TypeCorrect == Spec => []TypeOK
<1>1. IInv => TypeOK
  BY DEF IInv
<1> QED
  BY <1>1, InductiveInvariant, PTL

(***************************************************************************)
(* The word of resource.go counts the active borrows exactly and the count *)
(* never carries into the close bit, whatever the interleaving.            *)
(***************************************************************************)
THEOREM CountIsExact == Spec => []WordCountsLoans
<1>1. IInv => WordCountsLoans
  BY DEF IInv
<1> QED
  BY <1>1, InductiveInvariant, PTL

(***************************************************************************)
(* At most one call of releaseNative ever happens, with or without Once;   *)
(* and once the word is closed and no borrow is left, some call is about   *)
(* to make it, or has: it cannot fall between the last return and Close    *)
(* (resource.go, releaseBorrow and close).                                 *)
(***************************************************************************)
THEOREM ReleasedByOne == Spec => []ReleasedOnce
<1>1. IInv => ReleasedOnce
  BY DEF IInv, ReleasedOnce
<1> QED
  BY <1>1, InductiveInvariant, PTL

(* No WithResource callback runs on a resource that was released.          *)
THEOREM LoanKeepsResource == Spec => []NoUseAfterRelease
<1>1. IInv => NoUseAfterRelease
  BY LoansIsNat DEF IInv, NoUseAfterRelease, WordCountsLoans, ReleaseNotLost
<1> QED
  BY <1>1, InductiveInvariant, PTL

-----------------------------------------------------------------------------
(***************************************************************************)
(* Steps of the owner as the abstract lease sees them.  Most are stutters; *)
(* the lemma names the four that are not.                                  *)
(***************************************************************************)
LEMMA WordOfLoans ==
  ASSUME IInv
  PROVE  /\ Loans \in Nat
         /\ state \in Nat
         /\ ~IsClosed(state) => state = Loans /\ ~releaseOnce
         /\ IsClosed(state) => state = Loans + ClosedBit
  BY LoansIsNat DEF IInv, WordCountsLoans, ReleaseNotLost, IsClosed

\* A step that leaves the word, releaseOnce and the borrowers alone stutters.
LEMMA Stutter ==
  ASSUME UNCHANGED <<state, releaseOnce>>, Borrowers' = Borrowers
  PROVE  UNCHANGED Lease!lease
  BY DEF Lease!lease, IsClosed

LEMMA QuietLeaseStep ==
  ASSUME NEW c \in Calls, NEW place, IInv,
         pc[c] # "borrowing", place # "borrowing",
         pc' = [pc EXCEPT ![c] = place], UNCHANGED <<state, releaseOnce>>
  PROVE  UNCHANGED Lease!lease
  BY LoansKept, Stutter DEF IInv

LEMMA AcquireSwapIsBorrow ==
  ASSUME NEW c \in Calls, IInv, AcquireSwap(c)
  PROVE  Lease!Borrow(c) \/ UNCHANGED Lease!lease
<1>1. CASE state # seen[c]
  BY <1>1, QuietLeaseStep DEF AcquireSwap, Step
<1>2. CASE state = seen[c]
  <2>1. /\ pc[c] = "acquireSwap"
        /\ pc' = [pc EXCEPT ![c] = "borrowing"]
        /\ state' = state + 1
        /\ releaseOnce' = releaseOnce
    BY <1>2 DEF AcquireSwap, Step
  <2>2. Borrowers' = Borrowers \cup {c} /\ c \notin Borrowers
    BY <2>1, LoanGained DEF IInv, Borrowers, At
  <2>3. ~IsClosed(state) /\ ~IsClosed(state')
    BY <1>2, <2>1, WordOfLoans DEF IInv, TypeOK, SeenIsOpen, IsClosed, Word
  <2>4. ~releaseOnce
    BY <2>3, WordOfLoans
  <2> QED
    BY <2>1, <2>2, <2>3, <2>4 DEF Lease!Borrow
<1> QED
  BY <1>1, <1>2

LEMMA ReleaseBorrowIsReturn ==
  ASSUME NEW c \in Calls, IInv, ReleaseBorrow(c)
  PROVE  Lease!Return(c)
<1>1. PICK place \in {"finishing", "idle"} : pc' = [pc EXCEPT ![c] = place]
  BY DEF ReleaseBorrow, Step
<1>2. pc[c] = "borrowing" /\ releaseOnce' = releaseOnce
  BY DEF ReleaseBorrow, Step
<1>3. c \in Borrowers /\ Borrowers' = Borrowers \ {c}
  BY <1>1, <1>2, LoanReturned DEF IInv, Borrowers, At
<1>4. Loans > 0 /\ state' = state - 1
  BY <1>3, LoansIsNat, WordOfLoans DEF ReleaseBorrow, Decrement, IsClosed
<1>5. IsClosed(state') <=> IsClosed(state)
  BY <1>4, WordOfLoans DEF IsClosed
<1> QED
  BY <1>2, <1>3, <1>5 DEF Lease!Return

LEMMA CloseSwapIsClose ==
  ASSUME NEW c \in Calls, IInv, CloseSwap(c)
  PROVE  Lease!Close \/ UNCHANGED Lease!lease
<1>1. CASE state # seen[c]
  BY <1>1, QuietLeaseStep DEF CloseSwap, Step
<1>2. CASE state = seen[c]
  <2>1. PICK place \in {"finishing", "idle"} : pc' = [pc EXCEPT ![c] = place]
    BY <1>2 DEF CloseSwap, Step
  <2>2. pc[c] = "closeSwap" /\ releaseOnce' = releaseOnce
    BY <1>2 DEF CloseSwap, Step
  <2>3. Borrowers' = Borrowers
    BY <2>1, <2>2, LoansKept DEF IInv
  <2>4. ~IsClosed(state)
    BY <1>2, <2>2, WordOfLoans DEF IInv, SeenIsOpen, IsClosed
  <2>5. IsClosed(state') /\ ~releaseOnce
    BY <1>2, <2>4, WordOfLoans DEF CloseSwap, SetClosed, IsClosed
  <2> QED
    BY <2>2, <2>3, <2>4, <2>5 DEF Lease!Close
<1> QED
  BY <1>1, <1>2

LEMMA ReleaseNativeIsRelease ==
  ASSUME NEW c \in Calls, IInv, ReleaseNative(c)
  PROVE  Lease!Release
<1>1. /\ pc[c] = "finishing"
      /\ pc' = [pc EXCEPT ![c] = "idle"]
      /\ releaseOnce' = TRUE
      /\ state' = state
  BY DEF ReleaseNative, Step
<1>2. c \in At("finishing")
  BY <1>1 DEF At
<1>3. state = ClosedBit /\ ~releaseOnce
  BY <1>2 DEF IInv, ReleaseNotLost, OneReleaser
<1>4. Loans = 0
  BY <1>3, WordOfLoans DEF IsClosed
<1>5. Borrowers = {} /\ Borrowers' = {}
  BY <1>1, <1>4, LoansIsNat, LoansKept DEF IInv
<1> QED
  BY <1>1, <1>3, <1>5 DEF Lease!Release, IsClosed

LEMMA LeaseStep == IInv /\ [Next]_vars => [Lease!Next]_(Lease!lease)
<1> SUFFICES ASSUME IInv, [Next]_vars PROVE [Lease!Next]_(Lease!lease)
  OBVIOUS
<1>1. ASSUME NEW c \in Calls, WithResource(c) \/ Close(c)
      PROVE  UNCHANGED Lease!lease
  BY <1>1, QuietLeaseStep DEF WithResource, Close, Step
<1>2. ASSUME NEW c \in Calls, AcquireLoad(c) \/ CloseLoad(c)
      PROVE  UNCHANGED Lease!lease
  BY <1>2, QuietLeaseStep DEF AcquireLoad, CloseLoad, Step
<1>3. CASE UNCHANGED vars
  BY <1>3, Stutter DEF vars, Borrowers, At
<1> QED
  BY <1>1, <1>2, <1>3, AcquireSwapIsBorrow, ReleaseBorrowIsReturn,
     CloseSwapIsClose, ReleaseNativeIsRelease DEF Next, Advance, Lease!Next

(***************************************************************************)
(* The lock-free owner implements the abstract lease: every atomic step on *)
(* the word is a step of LeasedResource or invisible to it.  (Its fairness *)
(* is left to the run GoResourceOwnerLease, which checks ImplementsLease.) *)
(***************************************************************************)
THEOREM OwnerImplementsLease == Spec => Lease!Init /\ [][Lease!Next]_(Lease!lease)
<1>1. Init => Lease!Init
  BY DEF Init, Lease!Init, IsClosed, Borrowers, At
<1> QED
  BY <1>1, LeaseStep, InductiveInvariant, PTL DEF Spec

(***************************************************************************)
(* After Close marked the word no call enters a callback, and the mark     *)
(* stays.                                                                  *)
(***************************************************************************)
THEOREM NoLoanAfterClose == Spec => ClosedIsFinal
<1>1. IInv /\ IInv' /\ [Lease!Next]_(Lease!lease) /\ [Next]_vars
        => [IsClosed(state) => IsClosed(state') /\ Borrowers' \subseteq Borrowers]_vars
  <2> SUFFICES ASSUME IInv, IInv', [Lease!Next]_(Lease!lease), IsClosed(state)
               PROVE  IsClosed(state') /\ Borrowers' \subseteq Borrowers
    OBVIOUS
  <2>1. ~IsClosed(state') => ~releaseOnce'
    BY DEF IInv, ReleaseNotLost, IsClosed
  <2> QED
    BY <2>1 DEF Lease!Next, Lease!lease, Lease!Borrow, Lease!Return,
                Lease!Close, Lease!Release
<1> QED
  BY <1>1, LeaseStep, InductiveInvariant, PTL DEF Spec, ClosedIsFinal

=============================================================================
