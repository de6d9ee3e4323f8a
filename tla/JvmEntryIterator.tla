-------------------------- MODULE JvmEntryIterator ---------------------------
(***************************************************************************)
(* DictionaryEntryIterator.java.  The cursor ends at exhaustion, at the     *)
(* first failure, at close(), or by the Cleaner once the iterator is        *)
(* unreachable.  The arena that holds the native structures is closed with  *)
(* the cursor.                                                              *)
(***************************************************************************)
EXTENDS EntryConsumer

(***************************************************************************)
(* Open.  A cursor that was opened and is then refused is closed, through   *)
(* the State if there is one and through the interface's table if not.      *)
(***************************************************************************)
Open ==
  /\ pc = "unopened"
  /\ provider.opens = "well"
  /\ cursor' = Opened
  /\ arena' = "open"
  /\ pc' = "idle"
  /\ UNCHANGED <<given, batch, it, closed, cleaned, past>>

OpenRefused ==
  /\ pc = "unopened"
  /\ provider.opens # "well"
  /\ cursor' = CloseCursor(Written).cursor
  /\ arena' = "closed"
  /\ pc' = "refused"
  /\ UNCHANGED <<given, batch, it, closed, cleaned, past>>
-----------------------------------------------------------------------------
(***************************************************************************)
(* State.close and the Cleaner's State.run may leave the cursor open, and   *)
(* then the arena stays with it.                                            *)
(***************************************************************************)
Cleaning(s) == IF cleaned THEN {s} ELSE Closing(s, TRUE)


Becomes(s) ==
  /\ cursor' = s.cursor
  /\ closed' = s.closed
  /\ arena' = IF s.closed THEN "closed" ELSE arena

CloseAndClean(cancelFirst) ==
  /\ \E s \in Closing(Current, cancelFirst) : \E t \in Cleaning(s) : Becomes(t)
  /\ cleaned' = TRUE
-----------------------------------------------------------------------------
HasNext == Refill

End ==
  /\ pc = "ending"
  /\ IF LengthIsExact
     THEN /\ CloseAndClean(FALSE)
          /\ ended' = TRUE
          /\ pc' = "idle"
     ELSE /\ pc' = "caught"
          /\ UNCHANGED <<native, ended>>
  /\ UNCHANGED <<given, batch, it, received, rejected, interrupted>>

(***************************************************************************)
(* An Error, such as OutOfMemoryError, is no RuntimeException: it leaves    *)
(* copyBatch, passes refill, and is caught by hasNext.                      *)
(***************************************************************************)
CopyBatchThrowsError ==
  /\ CopyBatchThrows
  /\ interrupted' = TRUE
  /\ pc' = "caught"
  /\ UNCHANGED failing

FailAndClose_KeepsBuffer ==   \* Mistake: entries of the refused batch stay buffered
  /\ pc = "failing"
  /\ CloseAndClean(TRUE)
  /\ exhausted' = TRUE
  /\ pc' = IF closed' THEN "idle" ELSE "caught"
  /\ UNCHANGED <<given, batch, buffered, previous, delivered, failing, past>>

FailAndClose ==
  /\ pc = "failing"
  /\ CloseAndClean(TRUE)
  /\ exhausted' = TRUE
  /\ buffered' = <<>>
  /\ pc' = IF closed' THEN "idle" ELSE "caught"
  /\ UNCHANGED <<given, batch, previous, delivered, failing, past>>

(***************************************************************************)
(* The catch clause of hasNext closes, if nobody has, and throws.           *)
(***************************************************************************)
Catch ==
  /\ pc = "caught"
  /\ CloseAndClean(TRUE)
  /\ exhausted' = TRUE
  /\ buffered' = <<>>
  /\ pc' = "idle"
  /\ UNCHANGED <<given, batch, previous, delivered, failing, past>>
-----------------------------------------------------------------------------
TakeNext ==
  /\ pc = "idle" /\ buffered # <<>>
  /\ received' = Append(received, Head(buffered))
  /\ buffered' = Tail(buffered)
  /\ UNCHANGED <<given, pc, batch, previous, delivered, exhausted, failing, native,
                 rejected, interrupted, ended>>

Close ==
  /\ pc = "idle"
  /\ exhausted' = TRUE
  /\ buffered' = <<>>
  /\ CloseAndClean(TRUE)
  /\ UNCHANGED <<given, pc, batch, previous, delivered, failing, past>>

(***************************************************************************)
(* The consumer loses the iterator; later, or never, the Cleaner runs.      *)
(***************************************************************************)
Drop ==
  /\ pc = "idle"
  /\ pc' = "dropped"
  /\ UNCHANGED <<given, batch, it, native, past>>

Cleaner ==
  /\ pc = "dropped" /\ ~ cleaned
  /\ \E s \in Cleaning(Current) : Becomes(s)
  /\ cleaned' = TRUE
  /\ UNCHANGED <<given, pc, batch, it, past>>

Next ==
  \/ Open \/ OpenRefused
  \/ HasNext \/ End \/ CopyBatch \/ CopyBatchThrowsError \/ Settle \/ FailAndClose \/ Catch
  \/ TakeNext \/ Close \/ Drop \/ Cleaner
=============================================================================
