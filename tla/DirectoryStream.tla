-------------------------- MODULE DirectoryStream --------------------------
(***************************************************************************)
(* std::filesystem::directory_iterator as libstdc++ builds it, which is    *)
(* outside this repository: an iterator object is a shared pointer to an   *)
(* open directory stream, or null at the end, and a copy of it shares the  *)
(* stream.  Advancing one copy moves the stream under all of them; the     *)
(* copy that runs off the end becomes null, the others stay attached to    *)
(* the exhausted stream until they are advanced themselves.                *)
(***************************************************************************)
EXTENDS Integers, Sequences

CONSTANTS
    Streams,        \* the streams that can be open at a time
    Vars            \* the caller's iterator variables

VARIABLES
    listing,    \* the directory: its entries in the order readdir returns them
    rest,       \* for each stream, the entries not yet passed, the current one first
    it          \* for each variable, its stream

\* The null pointer: end(), and a default-constructed directory_iterator.
End == "end"

Free(d) == \A v \in Vars : it[v] # d

\* ++ on the pointer of w until `left' is left; at the end the pointer becomes null.
Moved(w, left)  == [it EXCEPT ![w] = IF left = <<>> THEN End ELSE @]
Ahead(w, left)  == IF it[w] = End THEN rest ELSE [rest EXCEPT ![it[w]] = left]

\* A stream is closed with the last pointer to it.
Close(streams) ==
    rest' = [d \in Streams |-> IF \E v \in Vars : it'[v] = d THEN streams[d] ELSE <<>>]
=============================================================================
