---------------------------- MODULE EntryConsumers ----------------------------
(***************************************************************************)
(* Either consumer, over any of the providers.                              *)
(***************************************************************************)
EXTENDS EntryConsumer

Jvm    == INSTANCE JvmEntryIterator
Dotnet == INSTANCE DotnetEntryEnumerator

Next ==
  \/ binding = "jvm" /\ Jvm!Next
  \/ binding = "dotnet" /\ Dotnet!Next

Spec == Init /\ [][Next]_vars
=============================================================================
