--------------------------- MODULE MCHostStorage ----------------------------
(* Instances of HostStorage: one host with an object of two keys. *)
EXTENDS HostStorage, TLC

CONSTANTS site, first, second, a, b

\* A page stores an object, changes and unsets keys of it, makes it a list, and reads.
StoreObject == [type |-> "set", host |-> site, key |-> Whole, value |-> first :> a]
StoreList == [type |-> "set", host |-> site, key |-> Whole, value |-> EmptyList]
SetKey == [type |-> "set", host |-> site, key |-> second, value |-> b]
AppendValue == [type |-> "append", host |-> site]
ReadKey == [type |-> "get", host |-> site, key |-> second]
Calls == {StoreObject, StoreList, SetKey, AppendValue, ReadKey}

\* Nothing, or what another node with the same wallet has published.
Published == {NoRoot, site :> [t |-> "object", items |-> first :> b]}
=============================================================================
