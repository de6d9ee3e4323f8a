------------------------ MODULE DotnetEntryEnumerator ------------------------
(***************************************************************************)
(* DictionaryEntryEnumerator of DictionaryCollections.cs.  The cursor ends  *)
(* at exhaustion, at the first failure, at Dispose, or by the finalizer.    *)
(* Every exception is caught while a batch is copied, so that no batch is   *)
(* left unsettled; but a failure does not end the enumeration by itself:    *)
(* only a cursor that could be closed makes the enumerator disposed, and    *)
(* only that keeps MoveNext from serving what is still in the queue.        *)
(***************************************************************************)
EXTENDS EntryConsumer

Open ==
  /\ pc = "unopened"
  /\ provider.opens = "well"
  /\ cursor' = Opened
  /\ pc' = "idle"
  /\ UNCHANGED <<given, batch, it, closed, cleaned, arena, past>>

(***************************************************************************)
(* BestEffortClose goes through the cursor's own table, if it names one.    *)
(***************************************************************************)
OpenRefused ==
  /\ pc = "unopened"
  /\ provider.opens # "well"
  /\ cursor' = IF provider.opens = "noVtable" THEN Written ELSE CloseCursor(Written).cursor
  /\ pc' = "refused"
  /\ UNCHANGED <<given, batch, it, closed, cleaned, arena, past>>
-----------------------------------------------------------------------------
CloseCore(cancelFirst) ==
  \E s \in Closing(Current, cancelFirst) : cursor' = s.cursor /\ closed' = s.closed

MoveNext == ~ closed /\ Refill

CopyThrows ==
  /\ CopyBatchThrows
  /\ failing' = TRUE
  /\ pc' = "settling"
  /\ UNCHANGED interrupted

End ==
  /\ pc = "ending"
  /\ IF LengthIsExact
     THEN /\ CloseCore(FALSE)
          /\ ended' = TRUE
          /\ pc' = "idle"
     ELSE /\ pc' = "caught"
          /\ UNCHANGED <<cursor, closed, ended>>
  /\ UNCHANGED <<given, batch, it, cleaned, arena, received, rejected, interrupted>>

(***************************************************************************)
(* FailAndClose throws; if the cursor is still open then, MoveNext closes   *)
(* once more before it passes the exception on.  The queue stays as it is.  *)
(***************************************************************************)
FailAndClose ==
  /\ pc = "failing"
  /\ CloseCore(TRUE)
  /\ pc' = IF closed' THEN "idle" ELSE "caught"
  /\ UNCHANGED <<given, batch, it, cleaned, arena, past>>

Catch ==
  /\ pc = "caught"
  /\ CloseCore(TRUE)
  /\ pc' = "idle"
  /\ UNCHANGED <<given, batch, it, cleaned, arena, past>>
-----------------------------------------------------------------------------
TakeNext ==
  /\ pc = "idle" /\ buffered # <<>> /\ ~ closed
  /\ received' = Append(received, Head(buffered))
  /\ buffered' = Tail(buffered)
  /\ UNCHANGED <<given, pc, batch, previous, delivered, exhausted, failing, native,
                 rejected, interrupted, ended>>

(***************************************************************************)
(* Dispose suppresses the finalizer unless closing failed.                  *)
(***************************************************************************)
Dispose ==
  /\ pc = "idle"
  /\ CloseCore(~ exhausted)
  /\ cleaned' = (cleaned \/ closed')
  /\ UNCHANGED <<given, pc, batch, it, arena, past>>

Drop ==
  /\ pc = "idle"
  /\ pc' = "dropped"
  /\ UNCHANGED <<given, batch, it, native, past>>

Finalizer ==
  /\ pc = "dropped" /\ ~ cleaned
  /\ \E s \in Closing(Current, TRUE) : cursor' = s.cursor
  /\ cleaned' = TRUE
  /\ UNCHANGED <<given, pc, batch, it, closed, arena, past>>

Next ==
  \/ Open \/ OpenRefused
  \/ MoveNext \/ End \/ CopyBatch \/ CopyThrows \/ Settle \/ FailAndClose \/ Catch
  \/ TakeNext \/ Dispose \/ Drop \/ Finalizer
=============================================================================
