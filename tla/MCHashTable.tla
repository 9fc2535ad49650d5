---------------------------- MODULE MCHashTable ----------------------------
(* Instances of HashTable for TLC. *)
EXTENDS HashTable

\* "a" and "a2" are two equal String objects; 0 and 4 meet in one bucket of 2,
\* and 0, 4 and 3 are in three different ones of 6
Strings == {"a", "a2", "b", "c", "list"}
StringClass == [k \in Strings |-> IF k = "a2" THEN "a" ELSE k]
StringType == [k \in Strings |-> "String"]
StringHash ==
  [k \in Strings |-> CASE k \in {"a", "a2"} -> 0 [] k = "b" -> 4 [] k = "c" -> 3 [] OTHER -> 9]
Lists == {"list"}
=============================================================================
