---------------------------- MODULE EntriesCursor ----------------------------
(***************************************************************************)
(* The provider's side of entries-v1: a cursor over one captured revision   *)
(* that lends at most one batch at a time, as the qualification provider    *)
(* of the repository implements it.  A consumer's calls are serialised, so  *)
(* the operations are functions from a cursor to a reply: the status, the   *)
(* cursor afterwards, and for next_batch the positions lent.                *)
(*                                                                          *)
(* Module has no variables of its own: a consumer keeps the cursor.         *)
(***************************************************************************)
EXTENDS Naturals, Sequences

CONSTANT MaxEntries     \* max_entries of the consumer's batch limits

ASSUME MaxEntriesAssumption == MaxEntries \in Nat \ {0}

Statuses == {"Ok", "End", "InvalidArgument", "NullPointer", "LimitExceeded", "BatchInUse"}

(***************************************************************************)
(* A cursor over `length' entries.  Entry n is named by its position.       *)
(***************************************************************************)
Cursors(length) ==
  [alive : BOOLEAN, nextIndex : 0 .. length, leased : BOOLEAN,
   cancelled : BOOLEAN, generation : 0 .. length]

NullCursor == [alive |-> FALSE, nextIndex |-> 0, leased |-> FALSE,
               cancelled |-> FALSE, generation |-> 0]

Opened == [NullCursor EXCEPT !.alive = TRUE]

Reply(status, c) == [status |-> status, cursor |-> c, lent |-> <<>>]

(***************************************************************************)
(* The batch is a nonempty run of pending entries within the limits; which  *)
(* ones fit depends on their units, so that any length may come, or the     *)
(* refusal of an entry too large for an empty batch.                        *)
(***************************************************************************)
Lend(c, n) ==
  [status |-> "Ok",
   cursor |-> [c EXCEPT !.nextIndex = @ + n, !.leased = TRUE, !.generation = @ + 1],
   lent   |-> [i \in 1 .. n |-> c.nextIndex + i]]

NextBatch_PastTheEnd(c, length) ==     \* Mistake: a batch may run past the last entry
  CASE ~ c.alive                               -> {Reply("NullPointer", c)}
    [] c.alive /\ c.leased                     -> {Reply("BatchInUse", c)}
    [] c.alive /\ ~ c.leased
         /\ (c.cancelled \/ c.nextIndex >= length) -> {Reply("End", c)}
    [] OTHER -> {Reply("LimitExceeded", c)} \cup
                {Lend(c, n) : n \in 1 .. MaxEntries}

NextBatch(c, length) ==
  CASE ~ c.alive                               -> {Reply("NullPointer", c)}
    [] c.alive /\ c.leased                     -> {Reply("BatchInUse", c)}
    [] c.alive /\ ~ c.leased
         /\ (c.cancelled \/ c.nextIndex = length) -> {Reply("End", c)}
    [] OTHER -> {Reply("LimitExceeded", c)} \cup
                {Lend(c, n) : n \in {m \in 1 .. MaxEntries : c.nextIndex + m <= length}}

ReleaseBatch(c, generation) ==
  CASE ~ c.alive                                  -> Reply("NullPointer", c)
    [] c.alive /\ c.leased /\ generation = c.generation
                                                  -> Reply("Ok", [c EXCEPT !.leased = FALSE])
    [] OTHER                                      -> Reply("InvalidArgument", c)

(***************************************************************************)
(* The qualification provider refuses to cancel while a batch is out; the   *)
(* ABI table lets another provider accept it, and then the batch stays      *)
(* valid.  Consumers have to live with both.                                *)
(***************************************************************************)
CancelCursor(c) ==
  CASE ~ c.alive            -> {Reply("NullPointer", c)}
    [] c.alive /\ c.leased  -> {Reply("BatchInUse", c), Reply("Ok", [c EXCEPT !.cancelled = TRUE])}
    [] OTHER                -> {Reply("Ok", [c EXCEPT !.cancelled = TRUE])}

CloseCursor(c) ==
  CASE ~ c.alive            -> Reply("NullPointer", c)
    [] c.alive /\ c.leased  -> Reply("BatchInUse", c)
    [] OTHER                -> Reply("Ok", NullCursor)
=============================================================================
