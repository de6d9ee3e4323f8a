--------------------------- MODULE JvmTokenStore ----------------------------
(***************************************************************************)
(* bindings/jvm/.../SemiringRuntime.java: the lock-free arenas behind the  *)
(* JVM's semiring tokens, TokenStore (boxed values) and PrimitiveTokenStore*)
(* (doubles as bits), and releaseValues, which claims a whole batch before *)
(* it frees anything.  A token is a (generation, slot) pair; a slot's      *)
(* generation goes up each time it is taken.                               *)
(*                                                                         *)
(* A step is one atomic access to a slot's state, generation or value.     *)
(* grow() only appends free slots, so every slot the store will ever have  *)
(* is here from the start, and put may take any free one.  The payload of  *)
(* a token is its own handle, which tells a right answer from a wrong one. *)
(*                                                                         *)
(* Callers keep the ABI's ownership rules (every token used and released   *)
(* by its owner, once), or break them as far as their manners allow:       *)
(*   "lawful"     they never do;                                           *)
(*   "staleGets"  they pass released tokens to operations, at any time;    *)
(*   "alone"      they present any tokens to any call, the same one twice  *)
(*                in a batch too, but one call at a time;                  *)
(*   "anything"   as "alone", from several threads at once.                *)
(***************************************************************************)
EXTENDS Naturals, FiniteSets, Sequences, SequencesExt

CONSTANTS
  Threads,                           \* native threads calling the provider
  Slots,                             \* bounds how far the store grows
  MaxGeneration,                     \* 0xffff_ffff in the code
  MaxBatch,                          \* bound on releaseValues (MAX_RELEASE_BATCH)
  Modes,                             \* kinds of arena and of callers, see Mode
  NoValue,                           \* null, or 0 bits: an empty slot
  NoSlot

ASSUME BoundsAssumption ==
  /\ MaxGeneration \in Nat \ {0}
  /\ MaxBatch \in Nat \ {0}
ASSUME ModesAssumption ==
  Modes \subseteq [boxed : BOOLEAN,    \* TokenStore, or else PrimitiveTokenStore
                  callers : {"lawful", "staleGets", "alone", "anything"}]
ASSUME SentinelAssumption == NoSlot \notin Slots

Handles == (1 .. MaxGeneration) \X Slots

gen(h) == h[1]
slotOf(h) == h[2]

VARIABLES
  mode,                              \* the arena and its callers, fixed
  state, generation, value,          \* of each slot
  owned,                             \* tokens whose owner has not released them
  issued,                            \* tokens ever returned
  pc,                                \* of each thread
  slot,                              \* the slot its put has taken
  batch, index,                      \* its arguments, and the one it is at
  read,                              \* the value its get has read
  stale                              \* its get was called for a token nobody owns

vars == <<mode, state, generation, value, owned, issued, pc, slot, batch, index, read, stale>>
arena == <<mode, state, generation, value>>
locals == <<slot, batch, index, read, stale>>

Goto(t, from, to) ==
  /\ pc[t] = from
  /\ pc' = [pc EXCEPT ![t] = to]

Argument(t) == batch[t][index[t]]
Releasing(t) == pc[t] \in {"validate", "claimRead", "claimSwap", "rollback",
                           "finishCheck", "finishClear", "finishFree"}
Getting(t) == pc[t] \in {"getState", "getSecond", "getThird", "got"}

\* Tokens named by releases, and by any call, in flight.
InRelease == UNION {ToSet(batch[t]) : t \in {u \in Threads : Releasing(u)}}
InUse == UNION {ToSet(batch[t]) : t \in {u \in Threads : Releasing(u) \/ Getting(u)}}

TypeOK ==
  /\ mode \in Modes
  /\ state \in [Slots -> {"FREE", "LIVE", "RELEASING", "RETIRED"}]
  /\ generation \in [Slots -> 0 .. MaxGeneration + 1]
  /\ value \in [Slots -> Handles \cup {NoValue}]
  /\ issued \subseteq Handles
  /\ owned \subseteq issued
  /\ pc \in [Threads -> {"idle", "stamp", "retire", "store", "getState", "getSecond",
                         "getThird", "got", "validate", "claimRead", "claimSwap",
                         "rollback", "finishCheck", "finishClear", "finishFree"}]
  /\ slot \in [Threads -> Slots \cup {NoSlot}]
  /\ \A t \in Threads : batch[t] \in Seq(Handles) /\ Len(batch[t]) <= MaxBatch
  /\ index \in [Threads -> 0 .. MaxBatch]
  /\ read \in [Threads -> Handles \cup {NoValue}]
  /\ stale \in [Threads -> BOOLEAN]

Init ==
  /\ mode \in Modes
  /\ state = [s \in Slots |-> "FREE"]
  /\ generation = [s \in Slots |-> 0]
  /\ value = [s \in Slots |-> NoValue]
  /\ owned = {}
  /\ issued = {}
  /\ pc = [t \in Threads |-> "idle"]
  /\ slot = [t \in Threads |-> NoSlot]
  /\ batch = [t \in Threads |-> <<>>]
  /\ index = [t \in Threads |-> 0]
  /\ read = [t \in Threads |-> NoValue]
  /\ stale = [t \in Threads |-> FALSE]

\* A call ends and its locals are gone.
Done(t) ==
  /\ pc' = [pc EXCEPT ![t] = "idle"]
  /\ slot' = [slot EXCEPT ![t] = NoSlot]
  /\ batch' = [batch EXCEPT ![t] = <<>>]
  /\ index' = [index EXCEPT ![t] = 0]
  /\ read' = [read EXCEPT ![t] = NoValue]
  /\ stale' = [stale EXCEPT ![t] = FALSE]

Advance(t, from, to, i) ==
  /\ Goto(t, from, to)
  /\ index' = [index EXCEPT ![t] = i]
  /\ UNCHANGED <<slot, batch, read, stale>>
-----------------------------------------------------------------------------
(* put: take a free slot, raise its generation, store the value.           *)

\* Mistake: a store instead of a CompareAndSet, after the slot was seen free.
PutTakes_StoresBlindly(t, s) ==
  /\ Goto(t, "idle", "stamp")
  /\ state[s] \in {"FREE", "LIVE"}
  /\ state' = [state EXCEPT ![s] = "LIVE"]
  /\ slot' = [slot EXCEPT ![t] = s]
  /\ UNCHANGED <<mode, generation, value, owned, issued, batch, index, read, stale>>

PutTakes(t, s) ==
  /\ Goto(t, "idle", "stamp")
  /\ state[s] = "FREE"
  /\ state' = [state EXCEPT ![s] = "LIVE"]
  /\ slot' = [slot EXCEPT ![t] = s]
  /\ UNCHANGED <<mode, generation, value, owned, issued, batch, index, read, stale>>

\* Mistake: the last generation is used again instead of retiring the slot.
PutStamps_NeverRetires(t) ==
  /\ Goto(t, "stamp", "store")
  /\ generation' = [generation EXCEPT ![slot[t]] = IF @ = MaxGeneration THEN @ ELSE @ + 1]
  /\ UNCHANGED <<mode, state, value, owned, issued, locals>>

PutStamps(t) ==
  /\ generation' = [generation EXCEPT ![slot[t]] = @ + 1]
  /\ Goto(t, "stamp", IF generation'[slot[t]] > MaxGeneration THEN "retire" ELSE "store")
  /\ UNCHANGED <<mode, state, value, owned, issued, locals>>

\* Mistake: an exhausted slot goes back to the free ones.
PutRetires_Frees(t) ==
  /\ pc[t] = "retire"
  /\ state' = [state EXCEPT ![slot[t]] = "FREE"]
  /\ Done(t)
  /\ UNCHANGED <<mode, generation, value, owned, issued>>

\* The slot is out of generations for good; put scans on.
PutRetires(t) ==
  /\ pc[t] = "retire"
  /\ state' = [state EXCEPT ![slot[t]] = "RETIRED"]
  /\ Done(t)
  /\ UNCHANGED <<mode, generation, value, owned, issued>>

\* encode writes the token for the caller, or fails to and discards it, which
\* is a release of the one token nobody else has seen.
PutStores(t) ==
  LET h == <<generation[slot[t]], slot[t]>>
  IN  /\ pc[t] = "store"
      /\ value' = [value EXCEPT ![slot[t]] = h]
      /\ \/ /\ owned' = owned \cup {h}
            /\ issued' = issued \cup {h}
            /\ Done(t)
         \/ /\ pc' = [pc EXCEPT ![t] = "claimRead"]
            /\ batch' = [batch EXCEPT ![t] = <<h>>]
            /\ index' = [index EXCEPT ![t] = 1]
            /\ slot' = [slot EXCEPT ![t] = NoSlot]
            /\ UNCHANGED <<owned, issued, read, stale>>
      /\ UNCHANGED <<mode, state, generation>>
-----------------------------------------------------------------------------
(* get: state, then value and generation (TokenStore) or generation and    *)
(* value (PrimitiveTokenStore).                                            *)

\* What the callers may do: begin a call, pass a token to an operation, release
\* a batch.
MayCall == mode.callers = "alone" => \A t \in Threads : pc[t] = "idle"
MayGet == IF mode.callers = "lawful" THEN owned \ InRelease ELSE issued
MayRelease(tokens) ==
  mode.callers \in {"lawful", "staleGets"} =>
    /\ ToSet(tokens) \subseteq owned \ (IF mode.callers = "lawful" THEN InUse ELSE InRelease)
    /\ IsInjective(tokens)

Get(t, h) ==
  /\ h \in MayGet
  /\ Goto(t, "idle", "getState")
  /\ batch' = [batch EXCEPT ![t] = <<h>>]
  /\ index' = [index EXCEPT ![t] = 1]
  /\ stale' = [stale EXCEPT ![t] = h \notin owned]
  /\ UNCHANGED <<arena, owned, issued, slot, read>>

GetState(t) ==
  /\ pc[t] = "getState"
  /\ IF state[slotOf(Argument(t))] = "LIVE"
     THEN Goto(t, "getState", "getSecond") /\ UNCHANGED locals
     ELSE Done(t)
  /\ UNCHANGED <<arena, owned, issued>>

\* Mistake: TokenStore, too, reads the value last and checks nothing after.
ValueFirst_Never == FALSE

ValueFirst == mode.boxed

ReadValue(t, from, to) ==
  /\ Goto(t, from, to)
  /\ read' = [read EXCEPT ![t] = value[slotOf(Argument(t))]]
  /\ UNCHANGED <<slot, batch, index, stale>>

\* Mistake: any generation will do.
CheckGeneration_Skipped(t, from, to) ==
  /\ pc[t] = from
  /\ IF ValueFirst => read[t] # NoValue
     THEN Goto(t, from, to) /\ UNCHANGED locals
     ELSE Done(t)

CheckGeneration(t, from, to) ==
  /\ pc[t] = from
  /\ IF /\ ValueFirst => read[t] # NoValue
        /\ generation[slotOf(Argument(t))] = gen(Argument(t))
     THEN Goto(t, from, to) /\ UNCHANGED locals
     ELSE Done(t)

GetSecond(t) ==
  /\ IF ValueFirst THEN ReadValue(t, "getSecond", "getThird")
                   ELSE CheckGeneration(t, "getSecond", "getThird")
  /\ UNCHANGED <<arena, owned, issued>>

GetThird(t) ==
  /\ IF ValueFirst THEN CheckGeneration(t, "getThird", "got")
                   ELSE ReadValue(t, "getThird", "got")
  /\ UNCHANGED <<arena, owned, issued>>

\* The provider computes with what get returned.
GetReturns(t) ==
  /\ pc[t] = "got"
  /\ Done(t)
  /\ UNCHANGED <<arena, owned, issued>>
-----------------------------------------------------------------------------
(* releaseValues: validate and claim each token, then finish each; the     *)
(* first refusal rolls the claims back and rejects the batch.              *)

Release(t, tokens) ==
  /\ MayRelease(tokens)
  /\ Goto(t, "idle", "validate")
  /\ batch' = [batch EXCEPT ![t] = tokens]
  /\ index' = [index EXCEPT ![t] = 1]
  /\ UNCHANGED <<arena, owned, issued, slot, read, stale>>

Matches(h) == generation[slotOf(h)] = gen(h)
Filled(h) == mode.boxed => value[slotOf(h)] # NoValue

\* isValid repeats the checks of claim; its reads only add refusals.
Validate(t) ==
  /\ LET h == Argument(t)
     IN  Advance(t, "validate",
                 IF state[slotOf(h)] = "LIVE" /\ Matches(h) /\ Filled(h)
                 THEN "claimRead" ELSE "rollback", index[t])
  /\ UNCHANGED <<arena, owned, issued>>

ClaimRead(t) ==
  /\ LET h == Argument(t)
     IN  Advance(t, "claimRead",
                 IF Matches(h) /\ Filled(h) THEN "claimSwap" ELSE "rollback", index[t])
  /\ UNCHANGED <<arena, owned, issued>>

\* compareAndSet(LIVE, RELEASING)
ClaimSwap(t) ==
  LET s == slotOf(Argument(t))
  IN  /\ pc[t] = "claimSwap"
      /\ \/ /\ state[s] = "LIVE"
            /\ state' = [state EXCEPT ![s] = "RELEASING"]
            /\ IF index[t] < Len(batch[t])
               THEN Advance(t, "claimSwap", "validate", index[t] + 1)
               ELSE Advance(t, "claimSwap", "finishCheck", 1)
         \/ /\ state[s] # "LIVE"
            /\ Advance(t, "claimSwap", "rollback", index[t])
            /\ UNCHANGED state
      /\ UNCHANGED <<mode, generation, value, owned, issued>>

\* Mistake: the batch is rejected without giving the claimed prefix back.
Rollback_KeepsPrefix(t) ==
  /\ pc[t] = "rollback"
  /\ Done(t)
  /\ UNCHANGED <<arena, owned, issued>>

\* One earlier token of the batch, or the end of the rejected call.  (The code
\* goes through them in ascending order; they are distinct slots, all claimed.)
Rollback(t) ==
  /\ pc[t] = "rollback"
  /\ IF index[t] = 1
     THEN Done(t) /\ UNCHANGED state
     ELSE LET h == batch[t][index[t] - 1]
          IN  /\ state' = [state EXCEPT ![slotOf(h)] =
                             IF Matches(h) /\ @ = "RELEASING" THEN "LIVE" ELSE @]
              /\ Advance(t, "rollback", "rollback", index[t] - 1)
  /\ UNCHANGED <<mode, generation, value, owned, issued>>

\* finish throws when the slot is no longer claimed for this token; the throw
\* ends releaseValues with PROVIDER_ERROR where it stands.
FinishCheck(t) ==
  LET h == Argument(t)
  IN  /\ pc[t] = "finishCheck"
      /\ IF Matches(h) /\ state[slotOf(h)] = "RELEASING"
         THEN Advance(t, "finishCheck", "finishClear", index[t])
         ELSE Done(t)
      /\ UNCHANGED <<arena, owned, issued>>

FinishClear(t) ==
  /\ Goto(t, "finishClear", "finishFree")
  /\ value' = [value EXCEPT ![slotOf(Argument(t))] = NoValue]
  /\ UNCHANGED <<mode, state, generation, owned, issued, locals>>

FinishFree(t) ==
  LET s == slotOf(Argument(t))
  IN  /\ pc[t] = "finishFree"
      /\ state' = [state EXCEPT ![s] = IF @ = "RELEASING" THEN "FREE" ELSE @]
      /\ owned' = owned \ {Argument(t)}
      /\ IF state[s] = "RELEASING" /\ index[t] < Len(batch[t])
         THEN Advance(t, "finishFree", "finishCheck", index[t] + 1)
         ELSE Done(t)
      /\ UNCHANGED <<mode, generation, value, issued>>
-----------------------------------------------------------------------------
Next ==
  \E t \in Threads :
    \/ /\ MayCall
       /\ \/ \E s \in Slots : PutTakes(t, s)
          \/ \E h \in issued : Get(t, h)
          \/ \E n \in 1 .. MaxBatch : \E tokens \in [1 .. n -> issued] : Release(t, tokens)
    \/ PutStamps(t) \/ PutRetires(t) \/ PutStores(t)
    \/ GetState(t) \/ GetSecond(t) \/ GetThird(t) \/ GetReturns(t)
    \/ Validate(t) \/ ClaimRead(t) \/ ClaimSwap(t) \/ Rollback(t)
    \/ FinishCheck(t) \/ FinishClear(t) \/ FinishFree(t)

Spec == Init /\ [][Next]_vars
-----------------------------------------------------------------------------
\* Thread t has claimed h and neither freed it nor given it back.
Claims(t, h) ==
  \/ /\ pc[t] \in {"validate", "claimRead", "claimSwap", "rollback"}
     /\ \E i \in 1 .. index[t] - 1 : batch[t][i] = h
  \/ /\ pc[t] \in {"finishCheck", "finishClear", "finishFree"}
     /\ \E i \in index[t] .. Len(batch[t]) : batch[t][i] = h

(***************************************************************************)
(* A token works until its owner releases it: its slot still carries its   *)
(* generation and its value, and is live or claimed by a release that      *)
(* names this token.  A rejected batch gives every claim back.             *)
(***************************************************************************)
OwnedAreLive ==
  \A h \in owned :
    LET s == slotOf(h)
    IN  /\ generation[s] = gen(h)
        /\ value[s] = h \/ \E t \in Threads : pc[t] = "finishFree" /\ Argument(t) = h
        /\ \/ state[s] = "LIVE"
           \/ state[s] = "RELEASING" /\ \E t \in Threads : Claims(t, h)

(***************************************************************************)
(* The same, seen between calls only: whatever tokens others presented,    *)
(* when no call is running every unreleased token is live with its value   *)
(* (jvm-host-providers.md:268, abi-reference.md:42).                       *)
(***************************************************************************)
OwnedSurvive ==
  (\A t \in Threads : pc[t] = "idle") =>
    \A h \in owned : state[slotOf(h)] = "LIVE" /\ value[slotOf(h)] = h

(***************************************************************************)
(* No slot is lost: one that is not free holds an owner's token, or is in  *)
(* the hands of a put, a discard or a release, or is out of generations.   *)
(* A free one holds no value (the arena keeps no released object alive).   *)
(***************************************************************************)
SlotsAccounted ==
  \A s \in Slots :
    LET held(h) == slotOf(h) = s
    IN  CASE state[s] = "FREE" -> value[s] = NoValue
          [] state[s] = "LIVE" -> \/ \E h \in owned : held(h)
                                  \/ \E t \in Threads : slot[t] = s
                                  \/ \E h \in InRelease \ issued : held(h)
          [] state[s] = "RELEASING" -> \E t \in Threads, h \in InRelease :
                                          held(h) /\ Claims(t, h)
          [] state[s] = "RETIRED" -> generation[s] > MaxGeneration

(***************************************************************************)
(* What get returns is the value put stored for that very token, never the *)
(* slot's earlier, later or missing one.                                   *)
(***************************************************************************)
GetsOwnValue == \A t \in Threads : pc[t] = "got" => read[t] = Argument(t)

(***************************************************************************)
(* A token whose release had finished when get was called is refused       *)
(* ("Stale and cross-provider tokens are rejected by provider-scoped       *)
(* generations and cookies", jvm-host-providers.md:63).                    *)
(***************************************************************************)
StaleRejected == \A t \in Threads : pc[t] = "got" => ~stale[t]

(***************************************************************************)
(* put never returns a token twice, not even after its slot was freed and  *)
(* taken again, up to the last generation (PrimitiveTokenStore.put).       *)
(***************************************************************************)
HandlesAreFresh == [][\A h \in owned' \ owned : h \notin issued]_vars
=============================================================================
