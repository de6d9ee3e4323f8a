---------------------------- MODULE EntryConsumer ----------------------------
(***************************************************************************)
(* What the two streaming consumers of entries-v1 have in common, the JVM's *)
(* iterator and .NET's enumerator: their state, the providers they meet, the*)
(* checks of one batch, and what both promise.  A single consumer pulls     *)
(* batches from a cursor of EntriesCursor, checks and copies each of them   *)
(* completely, gives the lease back, and only then shows the entries.       *)
(*                                                                          *)
(* What the provider says inside a batch is not trusted.  A provider here   *)
(* keeps the lease protocol and may lie about everything else: its keys may *)
(* be unsorted or malformed, and length, metadata, generations and the      *)
(* empty batch at the end may be wrong.                                     *)
(***************************************************************************)
EXTENDS EntriesCursor, SequencesExt

CONSTANTS
  Providers,        \* the providers a run considers, see ProviderType
  NoLength          \* metadata without an exact length

ASSUME NoLengthAssumption == NoLength \notin Nat

VARIABLES
  binding,      \* whose consumer this is: "jvm" or "dotnet"
  provider,     \* never changes either
  cursor,       \* the native cursor
  pc,           \* what the consumer is doing
  batch,        \* the view next_batch returned: positions and generation
  buffered,     \* positions copied, not yet taken
  previous,     \* the last key accepted
  delivered,    \* entries accepted so far
  exhausted,    \* .NET: ended
  closed,       \* .NET: disposed
  cleaned,      \* the Cleanable, or the finalizer, has run: it runs once
  arena,        \* JVM: holds the cursor, the metadata and the batch view
  failing,      \* copying the batch failed
  received,     \* history: positions the consumer got
  rejected,     \* history: positions of batches that were refused
  interrupted,  \* history: copyBatch threw an Error
  ended         \* history: the stream ended by itself

given  == <<binding, provider>>
it     == <<buffered, previous, delivered, exhausted, failing>>
native == <<cursor, closed, cleaned, arena>>
past   == <<received, rejected, interrupted, ended>>
vars   == <<given, pc, batch, it, native, past>>

(***************************************************************************)
(* keys[n] ranks the n-th key; 0 is a key, or a descriptor, that no         *)
(* validation passes.                                                       *)
(***************************************************************************)
ProviderType(p) ==
  /\ p.keys \in Seq(Nat)
  /\ p.exact \in Nat \cup {NoLength}
  /\ p.opens \in {"well", "not", "nullCursor", "noVtable", "badVtable", "badMetadata"}
  /\ p.generations \in {"true", "zero", "other"}
  /\ p.canonicalEnd \in BOOLEAN

ASSUME ProvidersAssumption == \A p \in Providers : ProviderType(p)

length == Len(provider.keys)

Claimed(generation) ==
  CASE provider.generations = "true"  -> generation
    [] provider.generations = "zero"  -> 0
    [] provider.generations = "other" -> generation + 1

TypeOK ==
  /\ binding \in {"jvm", "dotnet"}
  /\ provider \in Providers
  /\ cursor \in Cursors(length)
  /\ pc \in {"unopened", "refused", "idle", "copying", "settling", "ending", "failing", "caught", "dropped"}
  /\ batch \in [lent : Seq(1 .. length), generation : 0 .. length + 1]
  /\ buffered \in Seq(1 .. length)
  /\ previous \in Nat
  /\ delivered \in 0 .. length
  /\ exhausted \in BOOLEAN /\ closed \in BOOLEAN /\ cleaned \in BOOLEAN /\ failing \in BOOLEAN
  /\ arena \in {"none", "open", "closed"}
  /\ received \in Seq(1 .. length)
  /\ rejected \in SUBSET (1 .. length)
  /\ interrupted \in BOOLEAN /\ ended \in BOOLEAN

NoBatch == [lent |-> <<>>, generation |-> 0]

Init ==
  /\ binding \in {"jvm", "dotnet"}
  /\ provider \in Providers
  /\ cursor = NullCursor
  /\ pc = "unopened"
  /\ batch = NoBatch
  /\ buffered = <<>> /\ previous = 0 /\ delivered = 0
  /\ exhausted = FALSE /\ closed = FALSE /\ cleaned = FALSE /\ failing = FALSE
  /\ arena = "none"
  /\ received = <<>> /\ rejected = {} /\ interrupted = FALSE /\ ended = FALSE
-----------------------------------------------------------------------------
(***************************************************************************)
(* The checks of one batch: entries are accepted one by one, each after the *)
(* key before it, until one is refused.                                     *)
(***************************************************************************)
Key(n) == provider.keys[n]

Accepts_AnyOrder(n, before) == Key(n) > 0     \* Mistake: the order is not checked

Accepts(n, before) == Key(n) > before

KeyBefore(lent, i) == IF i = 1 THEN previous ELSE Key(lent[i - 1])

Accepted(lent) ==
  {i \in 0 .. Len(lent) : \A j \in 1 .. i : Accepts(lent[j], KeyBefore(lent, j))}


LengthIsExact == provider.exact \in {NoLength, delivered}

Written == IF provider.opens \in {"not", "nullCursor"} THEN NullCursor ELSE Opened

Current == [cursor |-> cursor, closed |-> closed]

(***************************************************************************)
(* Cancel if asked to, then close: what may be left behind.                 *)
(***************************************************************************)
Closing(s, cancelFirst) ==
  IF s.closed THEN {s}
  ELSE LET cancelled == IF cancelFirst THEN {r.cursor : r \in CancelCursor(s.cursor)}
                                       ELSE {s.cursor}
       IN  {[cursor |-> CloseCursor(c).cursor, closed |-> CloseCursor(c).status = "Ok"] :
              c \in cancelled}
-----------------------------------------------------------------------------
(***************************************************************************)
(* With nothing buffered, hasNext and MoveNext refill.                      *)
(***************************************************************************)
Refill ==
  /\ pc = "idle" /\ buffered = <<>> /\ ~ exhausted
  /\ \E reply \in NextBatch(cursor, length) :
       /\ cursor' = reply.cursor
       /\ \/ /\ reply.status = "Ok"
             /\ batch' = [lent |-> reply.lent, generation |-> Claimed(reply.cursor.generation)]
             /\ pc' = "copying"
             /\ UNCHANGED exhausted
          \/ /\ reply.status = "End" /\ provider.canonicalEnd
             /\ pc' = "ending"
             /\ exhausted' = TRUE
             /\ UNCHANGED batch
          \/ /\ reply.status = "End" /\ ~ provider.canonicalEnd
             /\ pc' = "caught"
             /\ UNCHANGED <<batch, exhausted>>
          \/ /\ reply.status \notin {"Ok", "End"}
             /\ pc' = "failing"
             /\ UNCHANGED <<batch, exhausted>>
  /\ UNCHANGED <<given, buffered, previous, delivered, failing, closed, cleaned, arena, past>>

(***************************************************************************)
(* copyBatch.  Entries go into the buffer one by one until one is refused;  *)
(* a generation of zero is refused before the first, more entries than the  *)
(* advertised length after the last.                                        *)
(***************************************************************************)
CopyBatch ==
  /\ pc = "copying"
  /\ LET upTo     == IF batch.generation = 0 THEN 0 ELSE Max(Accepted(batch.lent))
         taken    == SubSeq(batch.lent, 1, upTo)
         complete == upTo = Len(batch.lent)
         total    == delivered + Len(batch.lent)
     IN    /\ buffered' = buffered \o taken
           /\ previous' = IF taken = <<>> THEN previous ELSE Key(Last(taken))
           /\ delivered' = IF complete THEN total ELSE delivered
           /\ failing' = (~ complete \/ (provider.exact # NoLength /\ total > provider.exact))
           /\ rejected' = IF failing' THEN rejected \cup ToSet(batch.lent) ELSE rejected
  /\ pc' = "settling"
  /\ UNCHANGED <<given, batch, exhausted, native, received, interrupted, ended>>

(***************************************************************************)
(* Anything may be thrown while a batch is copied, memory running out first.*)
(***************************************************************************)
CopyBatchThrows ==
  /\ pc = "copying" /\ batch.generation # 0
  /\ \E upTo \in Accepted(batch.lent) :
       LET taken == SubSeq(batch.lent, 1, upTo)
       IN  /\ buffered' = buffered \o taken
           /\ previous' = IF taken = <<>> THEN previous ELSE Key(Last(taken))
  /\ rejected' = rejected \cup ToSet(batch.lent)
  /\ UNCHANGED <<given, batch, delivered, exhausted, native, received, ended>>

Settle_OnSuccess ==       \* Mistake: a refused batch is not given back
  /\ pc = "settling"
  /\ LET reply == IF failing THEN Reply("Ok", cursor) ELSE ReleaseBatch(cursor, batch.generation)
     IN  /\ cursor' = reply.cursor
         /\ pc' = IF failing \/ reply.status # "Ok" THEN "failing" ELSE "idle"
  /\ UNCHANGED <<given, batch, it, closed, cleaned, arena, past>>

Settle ==
  /\ pc = "settling"
  /\ LET reply == ReleaseBatch(cursor, batch.generation)
     IN  /\ cursor' = reply.cursor
         /\ pc' = IF failing \/ reply.status # "Ok" THEN "failing" ELSE "idle"
  /\ UNCHANGED <<given, batch, it, closed, cleaned, arena, past>>
-----------------------------------------------------------------------------
(***************************************************************************)
(* Properties.  The consumer sees the stream while it is idle; a disposed   *)
(* .NET enumerator shows nothing more, whatever is left in its buffer.      *)
(***************************************************************************)
Resting == pc \in {"idle", "dropped", "refused"}

Shows == Resting /\ ~ (binding = "dotnet" /\ closed)

Visible == IF Shows THEN received \o buffered ELSE received

(***************************************************************************)
(* A batch is shown whole or not at all: no entry of a batch that copyBatch *)
(* refused, or that it could not finish, ever reaches the consumer, however *)
(* many of its descriptors had been copied into the buffer already.  The    *)
(* exception is a .NET enumerator that cannot close, see below.             *)
(***************************************************************************)
BatchesAreWhole ==
  binding = "jvm" \/ provider.generations # "other" => ToSet(Visible) \cap rejected = {}

(***************************************************************************)
(* docs/abi-reference.md: "Consumers validate the whole view before         *)
(* exposing slices or entries to safe code."  Violated: .NET's CopyBatch    *)
(* queues entries before it has seen the whole batch, and nothing empties   *)
(* the queue; if the provider refuses release and close, the enumerator is  *)
(* not disposed, and the next MoveNext serves them.                         *)
(***************************************************************************)
BatchesAlwaysWhole == ToSet(Visible) \cap rejected = {}

(***************************************************************************)
(* What the consumer sees is the beginning of the captured language, with   *)
(* nothing left out or repeated where a batch ends and the next begins, and *)
(* strictly ascending even if the provider's order is not.                  *)
(***************************************************************************)
SeenInOrder ==
  /\ \A i \in DOMAIN Visible : Visible[i] = i /\ Key(i) > 0
  /\ \A i, j \in DOMAIN Visible : i < j => Key(i) < Key(j)


(***************************************************************************)
(* No call of the consumer returns or throws with a batch still out, if the *)
(* provider names its generations truthfully: refill releases the lease     *)
(* whatever copyBatch thinks of the batch.  An Error thrown while copying   *)
(* is the exception, see LeasesAlwaysSettled.                               *)
(***************************************************************************)
LeasesAreSettled ==
  Resting /\ provider.generations = "true" /\ ~ interrupted => ~ cursor.leased

(***************************************************************************)
(* docs/security-model.md: "Release the lease even when validation fails"   *)
(* and "Make batch settlement structural around every successful            *)
(* next_batch".  Violated: refill catches RuntimeException only, so that an *)
(* Error on its way through it skips the release.                           *)
(***************************************************************************)
LeasesAlwaysSettled == Resting /\ provider.generations = "true" => ~ cursor.leased

=============================================================================
