----------------------------- MODULE GoSemiring -----------------------------
(***************************************************************************)
(* bindings/go/semiring.go, the consumer side: a SemiringContext and the   *)
(* SemiringValues minted from it share one semiringCore, which owns one    *)
(* retain of the native operation context.  The context view and every     *)
(* value have a sharedLease of their own; the end of a lease drops the     *)
(* core, after a value's lease gave its provider token back.               *)
(*                                                                         *)
(* A sharedLease is the algorithm of GoResourceOwner, which implements     *)
(* LeasedResource; here its acquire, releaseBorrow and close are the       *)
(* atomic steps of that abstraction, with the borrows counted.  A core     *)
(* reference is one atomic count.  Provider tokens are cgo handles, which  *)
(* Go numbers upwards and never reuses; a value is called by the number of *)
(* its token.                                                              *)
(***************************************************************************)
EXTENDS Naturals, FiniteSets, Sequences

CONSTANTS
  Threads,                           \* goroutines using the context
  MaxTokens,                         \* bound on the tokens the provider mints
  MaxOperands                        \* bound on a fold (maximumSemiringFold is 256)

ASSUME ThreadsAssumption == IsFiniteSet(Threads)
ASSUME TokensAssumption == MaxTokens \in Nat
ASSUME OperandsAssumption == MaxOperands \in Nat /\ MaxOperands > 1

Tokens == 1 .. MaxTokens
View == 0                            \* names the lease of the SemiringContext view
Leases == Tokens \cup {View}

VARIABLES
  phase,                             \* of each lease; "unborn" before it exists
  borrows,                           \* of each lease: acquired and not returned
  coreRefs,                          \* semiringCore.references
  tokens,                            \* tokens the provider holds a value for
  pc,                                \* of each goroutine
  kind, operands,                    \* the operation it performs
  acquired,                          \* operands whose lease it holds
  inView,                            \* it holds the View's lease
  own                                \* token in transit, or lease it is finishing

vars == <<phase, borrows, coreRefs, tokens, pc, kind, operands, acquired, inView, own>>
call == <<kind, operands>>
leases == <<phase, borrows>>

Kinds == {"combine", "compare", "identity", "derive", "read"}

NeedsView(k) == k \in {"combine", "compare", "identity"}
Mints(k) == k \in {"combine", "identity", "derive"}

Goto(t, from, to) ==
  /\ pc[t] = from
  /\ pc' = [pc EXCEPT ![t] = to]

At(place) == {t \in Threads : pc[t] = place}

TypeOK ==
  /\ phase \in [Leases -> {"unborn", "open", "closed", "released"}]
  /\ borrows \in [Leases -> Nat]
  /\ coreRefs \in Nat
  /\ tokens \subseteq Tokens
  /\ pc \in [Threads -> {"idle", "borrow", "view", "native", "own", "unwind",
                         "finishToken", "finishCore"}]
  /\ kind \in [Threads -> Kinds]
  /\ operands \in [Threads -> UNION {[1 .. n -> Tokens] : n \in 0 .. MaxOperands}]
  /\ acquired \in [Threads -> 0 .. MaxOperands]
  /\ inView \in [Threads -> BOOLEAN]
  /\ own \in [Threads -> Leases]

\* wrapSemiring: the view's lease is open and holds the only core reference.
Init ==
  /\ phase = [x \in Leases |-> IF x = View THEN "open" ELSE "unborn"]
  /\ borrows = [x \in Leases |-> 0]
  /\ coreRefs = 1
  /\ tokens = {}
  /\ pc = [t \in Threads |-> "idle"]
  /\ kind = [t \in Threads |-> "read"]
  /\ operands = [t \in Threads |-> <<>>]
  /\ acquired = [t \in Threads |-> 0]
  /\ inView = [t \in Threads |-> FALSE]
  /\ own = [t \in Threads |-> View]
-----------------------------------------------------------------------------
(* Operations start from values the caller has been given, closed or not.  *)

Born == {v \in Tokens : phase[v] # "unborn"}

Begin(t, k, args) ==
  /\ Goto(t, "idle", "borrow")
  /\ kind' = [kind EXCEPT ![t] = k]
  /\ operands' = [operands EXCEPT ![t] = args]
  /\ acquired' = [acquired EXCEPT ![t] = 0]
  /\ UNCHANGED <<leases, coreRefs, tokens, inView, own>>

\* Plus, Times, Divide, LeftDivide
Binary(t) == \E l, r \in Born : Begin(t, "combine", <<l, r>>)

\* PlusMany, TimesMany
Many(t) ==
  \E n \in 0 .. MaxOperands : \E args \in [1 .. n -> Born] : Begin(t, "combine", args)

\* Equal, ApproxEqual, NaturalOrder
Compare(t) == \E l, r \in Born : Begin(t, "compare", <<l, r>>)

\* Zero, One, NewValue
Nullary(t) == Begin(t, "identity", <<>>)

\* Clone, Star
Derive(t) == \E v \in Born : Begin(t, "derive", <<v>>)

\* StableBytes, Diagnostic, LocalValue, NumericalValue, Quantize, ...
Read(t) == \E v \in Born : Begin(t, "read", <<v>>)
-----------------------------------------------------------------------------
(* borrowSemiringValues, then withRaw for the operations of the view.      *)

Acquire(x) ==
  /\ phase[x] = "open"
  /\ borrows' = [borrows EXCEPT ![x] = @ + 1]
  /\ UNCHANGED phase

AcquireOperand(t) ==
  /\ pc[t] = "borrow"
  /\ acquired[t] < Len(operands[t])
  /\ LET v == operands[t][acquired[t] + 1]
     IN  \/ /\ Acquire(v)
            /\ acquired' = [acquired EXCEPT ![t] = @ + 1]
            /\ UNCHANGED pc
         \/ /\ phase[v] # "open"
            /\ Goto(t, "borrow", "unwind")
            /\ UNCHANGED <<leases, acquired>>
  /\ UNCHANGED <<coreRefs, tokens, call, inView, own>>

OperandsAcquired(t) ==
  /\ acquired[t] = Len(operands[t])
  /\ Goto(t, "borrow", IF NeedsView(kind[t]) THEN "view" ELSE "native")
  /\ UNCHANGED <<leases, coreRefs, tokens, call, acquired, inView, own>>

AcquireView(t) ==
  /\ \/ /\ Acquire(View)
        /\ Goto(t, "view", "native")
        /\ inView' = [inView EXCEPT ![t] = TRUE]
     \/ /\ phase[View] # "open"
        /\ Goto(t, "view", "unwind")
        /\ UNCHANGED <<leases, inView>>
  /\ UNCHANGED <<coreRefs, tokens, call, acquired, own>>
-----------------------------------------------------------------------------
(* The native call, and SemiringContext.value for the token it returned.   *)

Unused == {v \in Tokens : phase[v] = "unborn"} \ {own[t] : t \in At("own")}

\* The provider resolved every operand and minted a token, or it did not.
CallProvider(t) ==
  /\ \/ /\ Mints(kind[t])
        /\ \A i \in 1 .. Len(operands[t]) : operands[t][i] \in tokens
        /\ Goto(t, "native", "own")
        /\ \E v \in Unused :
             /\ \A u \in Unused : v <= u
             /\ tokens' = tokens \cup {v}
             /\ own' = [own EXCEPT ![t] = v]
     \/ \* no result, an undefined one, a busy gate, a panic or an error
        /\ Goto(t, "native", "unwind")
        /\ UNCHANGED <<tokens, own>>
  /\ UNCHANGED <<leases, coreRefs, call, acquired, inView>>

\* Mistake: publishing the value without retaining the core for it.
Own_SkipsRetain(t) ==
  /\ Goto(t, "own", "unwind")
  /\ phase' = [phase EXCEPT ![own[t]] = "open"]
  /\ UNCHANGED <<borrows, coreRefs, tokens, call, acquired, inView, own>>

\* core.retain fails only on a dead core; then the token is given back.
Own(t) ==
  /\ Goto(t, "own", "unwind")
  /\ IF coreRefs > 0
     THEN /\ coreRefs' = coreRefs + 1
          /\ phase' = [phase EXCEPT ![own[t]] = "open"]
          /\ UNCHANGED tokens
     ELSE /\ tokens' = tokens \ {own[t]}
          /\ UNCHANGED <<coreRefs, phase>>
  /\ UNCHANGED <<borrows, call, acquired, inView, own>>
-----------------------------------------------------------------------------
(* The deferred returns: the view first, then the operands in reverse.  A  *)
(* return that leaves a closed lease without borrows finishes the lease.   *)

FinishPlace(x) == IF x = View THEN "finishCore" ELSE "finishToken"

\* Mistake: the last return of a closed lease forgets to finish it.
GiveBack_NeverFinishes(t, x) ==
  /\ borrows' = [borrows EXCEPT ![x] = @ - 1]
  /\ UNCHANGED <<phase, pc, own>>

GiveBack(t, x) ==
  /\ borrows' = [borrows EXCEPT ![x] = @ - 1]
  /\ IF phase[x] = "closed" /\ borrows'[x] = 0
     THEN /\ pc' = [pc EXCEPT ![t] = FinishPlace(x)]
          /\ own' = [own EXCEPT ![t] = x]
     ELSE UNCHANGED <<pc, own>>
  /\ UNCHANGED phase

ReturnView(t) ==
  /\ pc[t] = "unwind"
  /\ inView[t]
  /\ GiveBack(t, View)
  /\ inView' = [inView EXCEPT ![t] = FALSE]
  /\ UNCHANGED <<coreRefs, tokens, call, acquired>>

\* Mistake: the loop gives back the first operand every time.
ReturnOperand_AlwaysFirst(t) ==
  /\ pc[t] = "unwind"
  /\ ~inView[t]
  /\ acquired[t] > 0
  /\ GiveBack(t, operands[t][1])
  /\ acquired' = [acquired EXCEPT ![t] = @ - 1]
  /\ UNCHANGED <<coreRefs, tokens, call, inView>>

ReturnOperand(t) ==
  /\ pc[t] = "unwind"
  /\ ~inView[t]
  /\ acquired[t] > 0
  /\ GiveBack(t, operands[t][acquired[t]])
  /\ acquired' = [acquired EXCEPT ![t] = @ - 1]
  /\ UNCHANGED <<coreRefs, tokens, call, inView>>

\* The call is over and its locals are gone.
Finish(t) ==
  /\ ~inView[t]
  /\ acquired[t] = 0
  /\ Goto(t, "unwind", "idle")
  /\ kind' = [kind EXCEPT ![t] = "read"]
  /\ operands' = [operands EXCEPT ![t] = <<>>]
  /\ own' = [own EXCEPT ![t] = View]
  /\ UNCHANGED <<leases, coreRefs, tokens, acquired, inView>>
-----------------------------------------------------------------------------
(* Close, and the end of a lease: release of the token, then core.drop.    *)

\* Mistake: closing finishes the lease under the feet of its borrowers.
Close_IgnoresBorrows(t, x) ==
  /\ phase[x] = "open"
  /\ Goto(t, "idle", FinishPlace(x))
  /\ phase' = [phase EXCEPT ![x] = "closed"]
  /\ own' = [own EXCEPT ![t] = x]
  /\ UNCHANGED <<borrows, coreRefs, tokens, call, acquired, inView>>

\* SemiringContext.Close and SemiringValue.Close
Close(t, x) ==
  /\ phase[x] = "open"
  /\ Goto(t, "idle", IF borrows[x] = 0 THEN FinishPlace(x) ELSE "idle")
  /\ phase' = [phase EXCEPT ![x] = "closed"]
  /\ own' = [own EXCEPT ![t] = IF borrows[x] = 0 THEN x ELSE @]
  /\ UNCHANGED <<borrows, coreRefs, tokens, call, acquired, inView>>

\* Mistake: dropping the core first; the last token cannot be given back then.
FinishToken_AfterDrop(t) ==
  /\ Goto(t, "finishToken", "finishCore")
  /\ tokens' = IF coreRefs > 1 THEN tokens \ {own[t]} ELSE tokens
  /\ UNCHANGED <<leases, coreRefs, call, acquired, inView, own>>

FinishToken(t) ==
  /\ Goto(t, "finishToken", "finishCore")
  /\ tokens' = tokens \ {own[t]}
  /\ UNCHANGED <<leases, coreRefs, call, acquired, inView, own>>

\* core.drop; the last drop releases the native operation context.
FinishCore(t) ==
  /\ Goto(t, "finishCore", "unwind")
  /\ coreRefs' = coreRefs - 1
  /\ phase' = [phase EXCEPT ![own[t]] = "released"]
  /\ UNCHANGED <<borrows, tokens, call, acquired, inView, own>>
-----------------------------------------------------------------------------
Advance(t) ==
  \/ AcquireOperand(t) \/ OperandsAcquired(t) \/ AcquireView(t)
  \/ CallProvider(t) \/ Own(t)
  \/ ReturnView(t) \/ ReturnOperand(t) \/ Finish(t)
  \/ FinishToken(t) \/ FinishCore(t)

Next ==
  \E t \in Threads :
    \/ Advance(t)
    \/ Binary(t) \/ Many(t) \/ Compare(t) \/ Nullary(t) \/ Derive(t) \/ Read(t)
    \/ \E x \in Leases : Close(t, x)

Spec == Init /\ [][Next]_vars /\ \A t \in Threads : WF_vars(Advance(t))
-----------------------------------------------------------------------------
Alive(x) == phase[x] \in {"open", "closed"}
Owned(place) == {own[t] : t \in At(place)}

(***************************************************************************)
(* Every token the provider keeps a value for belongs to exactly one value *)
(* not yet closed for good, or is on its way to one: no operation, failed  *)
(* borrow or race with Close leaks a token or releases one twice.          *)
(***************************************************************************)
TokensAreOwned ==
  /\ tokens = ({v \in Tokens : Alive(v)} \ Owned("finishCore")) \cup Owned("own")
  /\ \A t, u \in At("own") \cup At("finishToken") \cup At("finishCore") :
       own[t] = own[u] => t = u

(***************************************************************************)
(* The native context is alive whenever somebody calls it, and the tokens  *)
(* passed to it are ones it still knows: a Close by another goroutine      *)
(* waits for the operation ("Existing values retain the native operation   *)
(* context until their own deterministic Close calls complete").           *)
(***************************************************************************)
NativeCallsAreValid ==
  /\ At("native") \cup At("own") \cup At("finishToken") # {} => coreRefs > 0
  /\ \A t \in At("native") : \A i \in 1 .. Len(operands[t]) : operands[t][i] \in tokens

\* Loans of lease x: positions of operands in use, and entries into the view.
LoansOf(x) ==
  IF x = View
  THEN {t \in Threads : inView[t]}
  ELSE {<<t, i>> \in Threads \X (1 .. MaxOperands) :
          i <= acquired[t] /\ operands[t][i] = x}

(***************************************************************************)
(* Both counts are exact at every step: the core has one reference for the *)
(* view and one for each value until the end of its lease drops it; each   *)
(* lease counts its loans, an operand used twice counting twice, also in   *)
(* the middle of a rollback (borrowSemiringValues).                        *)
(***************************************************************************)
CountsAreExact ==
  /\ coreRefs = Cardinality({x \in Leases : Alive(x)})
  /\ \A x \in Leases : borrows[x] = Cardinality(LoansOf(x))

(***************************************************************************)
(* When the view and every value are closed and no operation mints another *)
(* one, all tokens go back and the native context is released.             *)
(***************************************************************************)
AllClosed == \A x \in Leases : phase[x] # "open"
AllClosedDestroys == <>[]AllClosed => <>(coreRefs = 0 /\ tokens = {})
=============================================================================
